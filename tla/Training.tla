------------------------------ MODULE Training ------------------------------
(***************************************************************************)
(* plate_reader/training: train() of train_crnn.py with the sample stream  *)
(* of data.py, alone (`plate train crnn`) or as the trials of sweep.py.    *)
(* A state of the network is what it was trained with: the run, and the    *)
(* synthetic and fine-tuning epochs so far.  The numbers a validation      *)
(* gives are any of Scores.                                                *)
(***************************************************************************)
EXTENDS Integers, Sequences

CONSTANTS
  Jobs,       \* what is run: "train" or "sweep"
  Epochs,     \* epochs of a run
  EpochSize,  \* synthetic crops of an epoch
  TuneEpochs, \* fine_tune_epochs; a sweep has none
  Scores,     \* exact match of a validation
  Trials      \* trials of a sweep

VARIABLES
  job, phase,
  trial,      \* the run's number, from 0
  network,    \* the model, which training changes in place
  history,    \* validation and strength of every synthetic epoch so far
  best,       \* best_val and best_epoch
  kept,       \* best_state, a copy
  checkpoint, \* the model in the run's checkpoint file
  drawn,      \* how often each sample of the stream was drawn in this run
  trials      \* the sweep's results

run == <<network, history, best, kept, checkpoint, drawn>>
vars == <<job, phase, trial, run, trials>>

NoState == [trial |-> -1, synthetic |-> 0, tuned |-> 0]
NoBest == [val |-> -1, epoch |-> -1]
Untrained(n) == [trial |-> n, synthetic |-> 0, tuned |-> 0]
Stream == 0 .. Epochs * EpochSize - 1

NothingDrawn == [i \in Stream |-> 0]

Init ==
  /\ job \in Jobs
  /\ phase = "epochs"
  /\ trial = 0
  /\ network = Untrained(0)
  /\ history = <<>> /\ best = NoBest /\ kept = NoState /\ checkpoint = NoState
  /\ drawn = NothingDrawn
  /\ trials = <<>>

\* Curriculum(epochs, 0.3, 0.6).upper in units of 1 / (10 * Ramp).
Ramp == IF 6 * Epochs > 10 THEN 6 * Epochs ELSE 10
Upper(epoch) ==
  LET bound == 3 * Ramp + 70 * epoch IN IF bound > 10 * Ramp THEN 10 * Ramp ELSE bound

\* SyntheticCrops knows the epoch of a sample from its index alone.
Strength(index) == Upper(index \div EpochSize)

\* EpochSampler: the slice of the epoch, in any order.
Slice(epoch) == epoch * EpochSize .. (epoch + 1) * EpochSize - 1

\* Mutant: an epoch that is as good as the best replaces it.
Better_OrEqual(val) == val >= best.val

Better(val) == val > best.val

\* _run_epoch, the validation, and the copy and the checkpoint of a better model.
Epoch(val) ==
  LET epoch == Len(history)
      trained == [network EXCEPT !.synthetic = @ + 1]
  IN
  /\ phase = "epochs" /\ epoch < Epochs
  /\ drawn' = [i \in Stream |-> drawn[i] + (IF i \in Slice(epoch) THEN 1 ELSE 0)]
  /\ network' = trained
  /\ history' = Append(history, [val |-> val, strength |-> Upper(epoch)])
  /\ IF Better(val)
     THEN /\ best' = [val |-> val, epoch |-> epoch]
          /\ kept' = trained
          /\ checkpoint' = trained
     ELSE UNCHANGED <<best, kept, checkpoint>>
  /\ UNCHANGED <<job, phase, trial, trials>>

\* The best state is loaded back; labelled crops, if there are any, are next.
Restore ==
  /\ phase = "epochs" /\ Len(history) = Epochs
  /\ network' = IF kept = NoState THEN network ELSE kept
  /\ \/ phase' = "trained"
     \/ job = "train" /\ TuneEpochs > 0 /\ phase' = "tune"
  /\ UNCHANGED <<job, trial, history, best, kept, checkpoint, drawn, trials>>

\* An epoch over the labelled crops is validated but never compared with the best.
FineTune ==
  /\ phase = "tune"
  /\ network' = [network EXCEPT !.tuned = @ + 1]
  /\ phase' = IF network.tuned + 1 = TuneEpochs THEN "trained" ELSE "tune"
  /\ UNCHANGED <<job, trial, history, best, kept, checkpoint, drawn, trials>>

\* objective(): the trial's model is scored on the tuning split, and compared
\* with the first one, which is the shipped configuration.
Score(score) ==
  /\ job = "sweep" /\ phase = "trained"
  /\ trials' = Append(trials, [number |-> trial, score |-> score, model |-> network,
       difference |-> score - (IF trial = 0 THEN score ELSE trials[1].score)])
  /\ phase' = IF trial + 1 < Trials THEN "next" ELSE "done"
  /\ UNCHANGED <<job, trial, run>>

\* Every trial starts from its own copy of the shipped weights.
NextTrial ==
  /\ phase = "next"
  /\ phase' = "epochs"
  /\ trial' = trial + 1
  /\ network' = Untrained(trial + 1)
  /\ history' = <<>> /\ best' = NoBest /\ kept' = NoState /\ checkpoint' = NoState
  /\ drawn' = NothingDrawn
  /\ UNCHANGED <<job, trials>>

\* max by score, then by the lowest number.
BestTrial ==
  CHOOSE t \in DOMAIN trials : \A u \in DOMAIN trials \ {t} :
    trials[u].score <= trials[t].score /\ (trials[u].score = trials[t].score => t < u)

Next ==
  \/ \E val \in Scores : Epoch(val) \/ Score(val)
  \/ Restore \/ FineTune \/ NextTrial

Spec == Init /\ [][Next]_vars
-----------------------------------------------------------------------------
\* What a training returns is what it says: the state after the earliest epoch
\* with the best validation, which is also in the checkpoint, fine-tuned or not;
\* and every crop of the stream was drawn once, at the strength of its epoch.
ReturnsTheBest ==
  phase \in {"trained", "next", "done"} /\ Epochs > 0 =>
    /\ \A e \in 1 .. Epochs : e - 1 # best.epoch =>
         history[e].val <= best.val /\ (history[e].val = best.val => best.epoch < e - 1)
    /\ history[best.epoch + 1].val = best.val
    /\ checkpoint = [trial |-> trial, synthetic |-> best.epoch + 1, tuned |-> 0]
    /\ [network EXCEPT !.tuned = 0] = checkpoint
    /\ network.tuned \in {0, TuneEpochs}
    /\ \A i \in Stream : drawn[i] = 1 /\ Strength(i) = history[i \div EpochSize + 1].strength
=============================================================================
