------------------------------- MODULE Decode -------------------------------
(***************************************************************************)
(* CTC decoding of the frames of a photo (plate_reader/crnn/decode.py).    *)
(* Class BLANK is 0 and class c is symbol c.  A row gives the probability  *)
(* of every class as a weight, so that masses are exact: the code's sums   *)
(* of logarithms are products here, its log-add is +, its -inf is 0.       *)
(***************************************************************************)
EXTENDS Grammar

CONSTANT Code  \* the code point of a symbol: strings are ordered by it

ASSUME CodeAssumption ==
  /\ \A c \in Symbols : Code[c] \in Nat
  /\ \A c, d \in Symbols : Code[c] = Code[d] => c = d

BLANK == 0

Product(weights) ==
  LET product[n \in 0 .. Len(weights)] == IF n = 0 THEN 1 ELSE product[n - 1] * weights[n]
  IN  product[Len(weights)]

Sum(weights) ==
  LET sum[n \in 0 .. Len(weights)] == IF n = 0 THEN 0 ELSE sum[n - 1] + weights[n]
  IN  sum[Len(weights)]

\* The elements of a finite set, in a strict total order.
InOrder(S, ahead(_, _)) ==
  [i \in 1 .. Cardinality(S) |-> CHOOSE x \in S : Cardinality({y \in S : ahead(y, x)}) = i - 1]

Ascending(indices) == InOrder(indices, LAMBDA i, j : i < j)

\* The elements of a sequence at some indices, in their order.
Picked(seq, indices) ==
  LET at == Ascending(indices)
  IN  [n \in DOMAIN at |-> seq[at[n]]]

\* The order of Python strings.
Before(v, w) ==
  \/ IsStrictPrefix(v, w)
  \/ \E i \in 1 .. Len(v) :
       /\ i <= Len(w) /\ Code[v[i]] < Code[w[i]]
       /\ \A k \in 1 .. i - 1 : v[k] = w[k]

-----------------------------------------------------------------------------
(***************************************************************************)
(* Prefix beam search.  A beam has the mass of the alignments that end in  *)
(* a blank and of those that end in its last symbol, and the automaton's   *)
(* state, which only the constrained search advances.                      *)
(***************************************************************************)
Total(beam) == beam.blank + beam.symbol

FirstBeams == <<[prefix |-> <<>>, blank |-> 1, symbol |-> 0, state |-> 1]>>

\* The prefix is unchanged: a blank, or its last symbol once more.
Stay(beam, row) ==
  [beam EXCEPT !.blank  = Total(beam) * row[BLANK],
               !.symbol = IF beam.prefix = <<>> THEN 0 ELSE beam.symbol * row[Last(beam.prefix)]]

\* Mutant: a repeated symbol counts twice without a blank in between.
Source_Total(beam, c) == Total(beam)

\* A repeated symbol needs a blank in between to count twice.
Source(beam, c) ==
  IF beam.prefix # <<>> /\ c = Last(beam.prefix) THEN beam.blank ELSE Total(beam)

StateAfter(beam, c, constrained) == IF constrained THEN StepTo(beam.state, c) ELSE beam.state

Extended(beam, c, row, constrained) ==
  [prefix |-> Append(beam.prefix, c), blank |-> 0, symbol |-> Source(beam, c) * row[c],
   state |-> StateAfter(beam, c, constrained)]

Grows(beam, c, row, constrained, prune) ==
  row[c] > prune /\ StateAfter(beam, c, constrained) # DEAD

\* What an alignment adds to the slot of its prefix, a new one for a new prefix.
Slot(table, part) ==
  LET same == {k \in DOMAIN table : table[k].prefix = part.prefix}
  IN  IF same = {} THEN Append(table, part)
      ELSE [k \in DOMAIN table |->
              IF k \in same THEN [table[k] EXCEPT !.blank = @ + part.blank, !.symbol = @ + part.symbol]
              ELSE table[k]]

\* One turn over the beams: the beam's own slot, then those of the prefixes it extends to.
Turn(table, beam, row, constrained, prune) ==
  LET filled[c \in {BLANK} \cup Symbols] ==
        IF c = BLANK THEN Slot(table, Stay(beam, row))
        ELSE IF Grows(beam, c, row, constrained, prune)
             THEN Slot(filled[c - 1], Extended(beam, c, row, constrained))
             ELSE filled[c - 1]
  IN  filled[Cardinality(Symbols)]

\* The table of the next frame, a slot for every prefix in the order of first use.
NextTable(beams, row, constrained, prune) ==
  LET table[n \in 0 .. Len(beams)] ==
        IF n = 0 THEN <<>> ELSE Turn(table[n - 1], beams[n], row, constrained, prune)
  IN  table[Len(beams)]

\* A stable sort, heaviest first.
Ranked(beams) ==
  LET ahead(i, j) == \/ Total(beams[i]) > Total(beams[j])
                     \/ Total(beams[i]) = Total(beams[j]) /\ i < j
      ranks == InOrder(DOMAIN beams, ahead)
  IN  [i \in DOMAIN ranks |-> beams[ranks[i]]]

NextBeams(beams, row, constrained, width, prune) ==
  LET ranked == Ranked(NextTable(beams, row, constrained, prune))
  IN  SubSeq(ranked, 1, IF width < Len(ranked) THEN width ELSE Len(ranked))

\* The hypotheses: prefixes with their masses, best first, ties by text; the
\* constrained search returns only accepted ones.
ByMass(g, h) ==
  \/ g.mass > h.mass
  \/ g.mass = h.mass /\ Before(g.tokens, h.tokens)

\* Mutant: the alignments that end in a blank are forgotten at the end.
Hypotheses_BySymbol(beams, constrained) ==
  LET returned == {b \in Range(beams) : /\ b.prefix # <<>>
                                        /\ constrained => AcceptingFormats(b.state) # {}}
  IN  InOrder({[tokens |-> b.prefix, mass |-> b.symbol] : b \in returned}, ByMass)

Hypotheses(beams, constrained) ==
  LET returned == {b \in Range(beams) : /\ b.prefix # <<>>
                                        /\ constrained => AcceptingFormats(b.state) # {}}
  IN  InOrder({[tokens |-> b.prefix, mass |-> Total(b)] : b \in returned}, ByMass)

-----------------------------------------------------------------------------
(***************************************************************************)
(* Greedy decoding: the heaviest class of every frame, the first of equal  *)
(* ones; repeats collapse and blanks are dropped.                          *)
(***************************************************************************)
Classes == {BLANK} \cup Symbols

Heaviest(row) ==
  CHOOSE c \in Classes : \A d \in Classes \ {c} : row[d] <= row[c] /\ (row[d] = row[c] => c < d)

Collapsed(path) ==
  Picked(path, {i \in DOMAIN path : path[i] # BLANK /\ (i > 1 => path[i - 1] # path[i])})

PathMass(frames, path) == Product([t \in DOMAIN path |-> frames[t][path[t]]])

Greedy(frames) ==
  LET best == [t \in DOMAIN frames |-> Heaviest(frames[t])]
  IN  [tokens |-> Collapsed(best), mass |-> PathMass(frames, best)]

-----------------------------------------------------------------------------
(***************************************************************************)
(* ctc_log_likelihood: the forward algorithm over the tokens with blanks   *)
(* around and between them.  alpha[s] is the mass of the alignments of the *)
(* frames so far that end at position s.                                   *)
(***************************************************************************)
Surrounded(tokens) ==
  [s \in 1 .. 2 * Len(tokens) + 1 |-> IF s % 2 = 1 THEN BLANK ELSE tokens[s \div 2]]

Jumps(extended, s) == s > 2 /\ extended[s] # BLANK /\ extended[s] # extended[s - 2]

Onward(alpha, row, extended) ==
  [s \in DOMAIN extended |->
    row[extended[s]] * (alpha[s] + (IF s > 1 THEN alpha[s - 1] ELSE 0)
                                 + (IF Jumps(extended, s) THEN alpha[s - 2] ELSE 0))]

Forward(frames, tokens) ==
  LET extended == Surrounded(tokens)
      first    == [s \in DOMAIN extended |-> IF s <= 2 THEN frames[1][extended[s]] ELSE 0]
      alpha[t \in 0 .. Len(frames) - 1] ==
        IF t = 0 THEN first ELSE Onward(alpha[t - 1], frames[t + 1], extended)
  IN  alpha[Len(frames) - 1]

Likelihood(frames, tokens) ==
  LET alpha == Forward(frames, tokens)
  IN  alpha[2 * Len(tokens) + 1] + (IF tokens = <<>> THEN 0 ELSE alpha[2 * Len(tokens)])

(***************************************************************************)
(* The definition behind both: all paths through the classes that collapse *)
(* to the tokens.                                                          *)
(***************************************************************************)
AlignedMass(frames, tokens) ==
  LET paths == {p \in [DOMAIN frames -> Classes] : Collapsed(p) = tokens}
  IN  MapThenSumSet(LAMBDA p : PathMass(frames, p), paths)
=============================================================================
