------------------------------ MODULE Grammar ------------------------------
(***************************************************************************)
(* PlateGrammar (plate_reader/grammar.py): plate formats, declared as      *)
(* sequences of fields, are compiled into an automaton by the subset       *)
(* construction and minimised by partition refinement.  A symbol is a      *)
(* number, its index in SYMBOLS; states are numbered from 1, as sequences  *)
(* are, and DEAD is 0 (the code numbers from 0 and uses -1).               *)
(***************************************************************************)
EXTENDS Integers, Sequences, FiniteSets, SequencesExt

CONSTANTS
  Symbols,      \* the indices of SYMBOLS, 1 .. their number
  Members,      \* the symbols of every symbol class
  Declarations, \* the tuples of formats that compile may be given
  MaxOdd        \* states whose names may be spelled in another order

ASSUME SymbolsAssumption ==
  /\ MaxOdd \in Nat
  /\ Cardinality(Symbols) \in Nat \ {0} /\ Symbols = 1 .. Cardinality(Symbols)
  /\ \A class \in DOMAIN Members : Members[class] \subseteq Symbols /\ Members[class] # {}

\* A Field raises ValueError unless 0 <= min <= max and max > 0.
Field == {field \in [class : DOMAIN Members, min : Nat, max : Nat \ {0}] : field.min <= field.max}

\* A name stands for its place in the alphabet.
PlateFormat == [name : Nat, fields : Seq(Field)]

ASSUME DeclarationsAssumption == \A declared \in Declarations : declared \in Seq(PlateFormat)

VARIABLES
  formats,    \* the declared formats
  pc,         \* the step of compile, "compiled" or "rejected" at its end
  order,      \* the sets of NFA states found, numbered by position
  delta,      \* the rows of the automaton of these sets, one per processed set
  filling,    \* the row that is being filled, symbol by symbol
  block,      \* the block of every live state during the refinement
  numbered,   \* the blocks in the order they are given new numbers
  automaton   \* the minimal automaton

compileVars == <<formats, pc, order, delta, filling, block, numbered, automaton>>

DEAD == 0

-----------------------------------------------------------------------------
(***************************************************************************)
(* The NFA.  A state <<f, i, c>> has consumed c symbols of field i of      *)
(* format f; past the last field the format is complete.                   *)
(***************************************************************************)
Fields(f) == formats[f].fields

\* Mutant: only the next field is reached, not those behind fields that may be empty.
Exits_NextOnly(s) ==
  {<<s[1], k, 0>> : k \in {k \in {s[2] + 1} :
     s[2] <= Len(Fields(s[1])) /\ s[3] >= Fields(s[1])[s[2]].min}}

\* What <<f, i, c>> reaches without a symbol: the next field once the current
\* one is long enough, and on through fields that may be empty.
Exits(s) ==
  LET fields == Fields(s[1])
  IN  {<<s[1], k, 0>> : k \in {k \in s[2] + 1 .. Len(fields) + 1 :
         /\ s[3] >= fields[s[2]].min
         /\ \A i \in s[2] + 1 .. k - 1 : fields[i].min = 0}}

Closure(states) == states \cup UNION {Exits(s) : s \in states}

Move(states, symbol) ==
  LET moving == {s \in states : s[2] <= Len(Fields(s[1]))
                                /\ s[3] < Fields(s[1])[s[2]].max
                                /\ symbol \in Members[Fields(s[1])[s[2]].class]}
  IN  Closure({<<s[1], s[2], s[3] + 1>> : s \in moving})

-----------------------------------------------------------------------------
(***************************************************************************)
(* Both the subset construction and the renumbering are breadth-first      *)
(* searches: a target that is not yet known gets the next number.  A list  *)
(* of sets found is its own queue: those past the last row are waiting.      *)
(***************************************************************************)
Listed(known, target) == \E i \in 1 .. Len(known) : known[i] = target

Enlisted(known, target) ==
  IF target = {} \/ Listed(known, target) THEN known ELSE Append(known, target)

Place(known, target) ==
  IF target = {} THEN DEAD ELSE CHOOSE i \in 1 .. Len(known) : known[i] = target

CompileInit ==
  /\ formats \in Declarations
  /\ pc = "check"
  /\ order = <<>> /\ delta = <<>> /\ filling = <<>>
  /\ block = <<>> /\ numbered = <<>>
  /\ automaton = [delta |-> <<>>, accepting |-> <<>>, possible |-> <<>>]

Names == {formats[f].name : f \in DOMAIN formats}

\* compile raises ValueError without formats and for a repeated name.
Reject ==
  /\ pc = "check"
  /\ formats = <<>> \/ Cardinality(Names) < Len(formats)
  /\ pc' = "rejected"
  /\ UNCHANGED <<formats, order, delta, filling, block, numbered, automaton>>

Start ==
  /\ pc = "check"
  /\ formats # <<>> /\ Cardinality(Names) = Len(formats)
  /\ order' = <<Closure({<<f, 1, 0>> : f \in DOMAIN formats})>>
  /\ pc' = "determinise"
  /\ UNCHANGED <<formats, delta, filling, block, numbered, automaton>>

RowIsFull == Len(filling) = Cardinality(Symbols)

\* The worklist: the next symbol of the first set that has no row yet.
Determinise ==
  /\ pc = "determinise" /\ Len(delta) < Len(order) /\ ~RowIsFull
  /\ LET target == Move(order[Len(delta) + 1], Len(filling) + 1)
     IN  /\ order' = Enlisted(order, target)
         /\ filling' = Append(filling, Place(order', target))
  /\ UNCHANGED <<formats, pc, delta, block, numbered, automaton>>

EndRow ==
  /\ pc = "determinise" /\ RowIsFull
  /\ delta' = Append(delta, filling) /\ filling' = <<>>
  /\ UNCHANGED <<formats, pc, order, block, numbered, automaton>>

Accepting(s) == {formats[q[1]].name : q \in {q \in order[s] : q[2] = Len(Fields(q[1])) + 1}}

Possible(s) == {formats[q[1]].name : q \in order[s]}

\* States from which acceptance can be reached.
Live ==
  LET found == 1 .. Len(delta)
      reach[n \in 0 .. Len(delta)] ==
        IF n = 0 THEN {s \in found : Accepting(s) # {}}
        ELSE LET near == reach[n - 1]
             IN  near \cup {s \in found : \E c \in Symbols : delta[s][c] \in near}
  IN  reach[Len(delta)]

(***************************************************************************)
(* _minimise compares states by repr.  The repr of a frozenset lists it in *)
(* an order that depends on string hashes, new in every process, and on    *)
(* the order of insertion: equal sets of several names may be spelled      *)
(* differently.  The odd states are those with another spelling.           *)
(***************************************************************************)
Spellings ==
  LET shared == {s \in 1 .. Len(delta) : Cardinality(Possible(s)) > 1}
  IN  {odd \in SUBSET shared : Cardinality(odd) <= MaxOdd}

\* The first partition: states that accept and can still become the same formats.
Partition ==
  /\ pc = "determinise" /\ Len(delta) = Len(order) /\ filling = <<>>
  /\ \E odd \in Spellings :
       LET live == Live
       IN  block' = [s \in live |-> {r \in live : /\ Accepting(r) = Accepting(s)
                                                  /\ Possible(r) = Possible(s)
                                                  /\ (r \in odd) = (s \in odd)}]
  /\ pc' = "refine"
  /\ UNCHANGED <<formats, order, delta, filling, numbered, automaton>>

\* The block that a live state goes to, none when the move is dead.
Target(s, c) == IF delta[s][c] \in DOMAIN block THEN block[delta[s][c]] ELSE {}

Refined == [s \in DOMAIN block |-> {r \in block[s] : \A c \in Symbols : Target(r, c) = Target(s, c)}]

\* One round of the refinement, until no block splits.
Refine ==
  /\ pc = "refine"
  /\ IF Cardinality(Range(Refined)) = Cardinality(Range(block))
     THEN pc' = "renumber" /\ numbered' = <<block[1]>> /\ UNCHANGED block
     ELSE block' = Refined /\ UNCHANGED <<pc, numbered>>
  /\ UNCHANGED <<formats, order, delta, filling, automaton>>

\* The state that stands for a block is its smallest.
Representative(b) == CHOOSE s \in b : \A r \in b : s <= r

\* The next symbol of the first block that has no row yet.
Renumber ==
  /\ pc = "renumber" /\ Len(automaton.delta) < Len(numbered) /\ ~RowIsFull
  /\ LET rep    == Representative(numbered[Len(automaton.delta) + 1])
         target == Target(rep, Len(filling) + 1)
     IN  /\ numbered' = Enlisted(numbered, target)
         /\ filling' = Append(filling, Place(numbered', target))
  /\ UNCHANGED <<formats, pc, order, delta, block, automaton>>

EndBlock ==
  /\ pc = "renumber" /\ RowIsFull
  /\ LET rep == Representative(numbered[Len(automaton.delta) + 1])
     IN  automaton' = [delta     |-> Append(automaton.delta, filling),
                       accepting |-> Append(automaton.accepting, Accepting(rep)),
                       possible  |-> Append(automaton.possible, Possible(rep))]
  /\ filling' = <<>>
  /\ UNCHANGED <<formats, pc, order, delta, block, numbered>>

\* The construction is over: PlateGrammar(formats, delta, accepting, possible).
Finish ==
  /\ pc = "renumber" /\ Len(automaton.delta) = Len(numbered) /\ filling = <<>>
  /\ pc' = "compiled"
  /\ UNCHANGED <<formats, order, delta, filling, block, numbered, automaton>>

CompileNext ==
  \/ Reject \/ Start \/ Determinise \/ EndRow \/ Partition
  \/ Refine \/ Renumber \/ EndBlock \/ Finish

Compile == CompileInit /\ [][CompileNext]_compileVars

-----------------------------------------------------------------------------
(***************************************************************************)
(* Queries on the compiled automaton.                                      *)
(***************************************************************************)
States == 1 .. Len(automaton.delta)

\* A symbol outside the alphabet and the dead state lead to DEAD.
StepTo(state, symbol) ==
  IF state = DEAD \/ symbol \notin Symbols THEN DEAD ELSE automaton.delta[state][symbol]

RunFrom(state, tokens) ==
  LET run[i \in 0 .. Len(tokens)] == IF i = 0 THEN state ELSE StepTo(run[i - 1], tokens[i])
  IN  run[Len(tokens)]

RunOf(tokens) == RunFrom(1, tokens)

AcceptingFormats(state) == IF state = DEAD THEN {} ELSE automaton.accepting[state]

PossibleFormats(state) == IF state = DEAD THEN {} ELSE automaton.possible[state]

Accepts(tokens) == AcceptingFormats(RunOf(tokens)) # {}

Allowed(state) == {c \in Symbols : StepTo(state, c) # DEAD}

(***************************************************************************)
(* segment tries the formats in order and, for each field, the longest     *)
(* length first; it backtracks when the rest does not fit.  So it returns  *)
(* the lexicographically greatest lengths that fit.                        *)
(***************************************************************************)
\* The symbols before field i.
Offset(lengths, i) ==
  LET before[k \in 0 .. Len(lengths)] == IF k = 0 THEN 0 ELSE before[k - 1] + lengths[k]
  IN  before[i - 1]

Fits(f, lengths, tokens) ==
  /\ Offset(lengths, Len(lengths) + 1) = Len(tokens)
  /\ \A i \in DOMAIN lengths :
       /\ lengths[i] \in Fields(f)[i].min .. Fields(f)[i].max
       /\ \A k \in 1 .. lengths[i] :
            tokens[Offset(lengths, i) + k] \in Members[Fields(f)[i].class]

Splits(f, tokens) ==
  LET longest == Max({Fields(f)[i].max : i \in DOMAIN Fields(f)})
  IN  {lengths \in [DOMAIN Fields(f) -> 0 .. longest] : Fits(f, lengths, tokens)}

Later(a, b) == \E i \in DOMAIN a : a[i] > b[i] /\ \A k \in 1 .. i - 1 : a[k] = b[k]

NoSegment == [format |-> 0, lengths |-> <<>>]

Segment(tokens) ==
  LET fitting == {f \in DOMAIN formats : Splits(f, tokens) # {}}
  IN  IF fitting = {} THEN NoSegment
      ELSE LET f == CHOOSE f \in fitting : \A g \in fitting : f <= g
           IN  [format  |-> formats[f].name,
                lengths |-> CHOOSE a \in Splits(f, tokens) :
                              \A b \in Splits(f, tokens) : a = b \/ Later(a, b)]

(***************************************************************************)
(* The whole language.  The automaton of a finite language has no cycle,   *)
(* so no word is longer than the number of its states.                     *)
(***************************************************************************)
Moves(state) == SelectSeq([c \in Symbols |-> c], LAMBDA c : StepTo(state, c) # DEAD)

CountCompletions(state) ==
  LET count[s \in States] ==
        FoldLeft(LAMBDA sum, c : sum + count[StepTo(s, c)],
                 IF AcceptingFormats(s) = {} THEN 0 ELSE 1, Moves(s))
  IN  IF state = DEAD THEN 0 ELSE count[state]

\* The frontier of the queue, one length after the other, and what it yields.
EnumerateCompletions(prefix, limit) ==
  LET after(entry) == LET moves == Moves(RunOf(entry))
                      IN  [i \in DOMAIN moves |-> Append(entry, moves[i])]
      frontier[n \in Nat] ==
        IF n = 0 THEN <<prefix>>
        ELSE FoldLeft(LAMBDA all, entry : all \o after(entry), <<>>, frontier[n - 1])
      yielded == FoldLeft(LAMBDA all, n : all \o SelectSeq(frontier[n],
                            LAMBDA entry : AcceptingFormats(RunOf(entry)) # {}),
                          <<>>, [n \in 1 .. Len(automaton.delta) |-> n - 1])
  IN  IF RunOf(prefix) = DEAD THEN <<>>
      ELSE SubSeq(yielded, 1, IF limit < Len(yielded) THEN limit ELSE Len(yielded))

\* What random_tokens may draw of a field and of a format: a number does not start with the
\* first of the digits.
Draws(field) ==
  {w \in UNION {[1 .. n -> Members[field.class]] : n \in field.min .. field.max} :
     field.class = "digit" /\ w # <<>> => w[1] # Min(Members["digit"])}

RandomTokens(f) ==
  FoldLeft(LAMBDA texts, field : {p[1] \o p[2] : p \in texts \X Draws(field)}, {<<>>}, Fields(f))

-----------------------------------------------------------------------------
(***************************************************************************)
(* What the formats mean, without an automaton: the words of a format are  *)
(* the concatenations of words of its fields.                              *)
(***************************************************************************)
FieldWords(field) == UNION {[1 .. n -> Members[field.class]] : n \in field.min .. field.max}

FormatWords(f) ==
  LET upTo[i \in 0 .. Len(Fields(f))] ==
        IF i = 0 THEN {<<>>}
        ELSE {w[1] \o w[2] : w \in upTo[i - 1] \X FieldWords(Fields(f)[i])}
  IN  upTo[Len(Fields(f))]

Beginnings(words) == UNION {{SubSeq(w, 1, n) : n \in 0 .. Len(w)} : w \in words}

\* compile is right: after every beginning of a word, the automaton accepts exactly the formats
\* the word belongs to, knows exactly the formats it can still become, allows exactly the symbols
\* that continue it, and segment names one of the accepted formats (the only one if it is alone).
RecognisesTheFormats ==
  pc = "compiled" =>
    LET words   == [f \in DOMAIN formats |-> FormatWords(f)]
        begun   == [f \in DOMAIN formats |-> Beginnings(words[f])]
        viable  == UNION Range(begun)
        named(F) == {formats[f].name : f \in F}
    IN  \A w \in viable :
          LET state == RunOf(w)
              whole == named({f \in DOMAIN formats : w \in words[f]})
          IN  /\ AcceptingFormats(state) = whole
              /\ PossibleFormats(state) = named({f \in DOMAIN formats : w \in begun[f]})
              /\ Allowed(state) = {c \in Symbols : Append(w, c) \in viable}
              /\ IF whole = {} THEN Segment(w) = NoSegment ELSE Segment(w).format \in whole

SameFuture(s, r) ==
  LET futures == UNION {{SubSeq(w, n, Len(w)) : n \in 1 .. Len(w) + 1} :
                          w \in UNION {FormatWords(f) : f \in DOMAIN formats}}
  IN  \A w \in futures :
        /\ AcceptingFormats(RunFrom(s, w)) = AcceptingFormats(RunFrom(r, w))
        /\ PossibleFormats(RunFrom(s, w)) = PossibleFormats(RunFrom(r, w))

\* What the class says of itself: the automaton is minimal, no two states have the same future.
\* It does not hold when two formats have the same words and one state is spelled oddly.
Minimal == pc = "compiled" => \A s, r \in States : SameFuture(s, r) => s = r

\* What does hold: states are merged as long as at most one format is possible in them, and the
\* spelling of the others never changes what is recognised (RecognisesTheFormats).
MinimalUnlessShared ==
  pc = "compiled" => \A s, r \in States :
    Cardinality(PossibleFormats(s)) = 1 /\ SameFuture(s, r) => s = r

\* The words that the automaton counts and lists, after any beginning, are the words of the formats
\* that begin so: every one once although formats overlap and states are merged, the shortest first
\* and those of one length in the order of the symbols; whatever training draws is one of them.
LanguageIsListed ==
  pc = "compiled" =>
    LET words == UNION {FormatWords(f) : f \in DOMAIN formats}
    IN  /\ \A prefix \in Beginnings(words) :
             LET listed == EnumerateCompletions(prefix, 1000)
                 begun  == {w \in words : IsPrefix(prefix, w)}
             IN  /\ Len(listed) = Cardinality(begun) /\ Range(listed) = begun
                 /\ CountCompletions(RunOf(prefix)) = Len(listed)
                 /\ EnumerateCompletions(prefix, 1) = SubSeq(listed, 1, 1)
                 /\ \A i \in 2 .. Len(listed) :
                      \/ Len(listed[i - 1]) < Len(listed[i])
                      \/ Len(listed[i - 1]) = Len(listed[i]) /\ Later(listed[i], listed[i - 1])
        /\ \A f \in DOMAIN formats : \A w \in RandomTokens(f) :
             formats[f].name \in AcceptingFormats(RunOf(w))

\* The automaton that every search walks recognises the declared formats, all of them and
\* nothing else, and two of its states have the same future only where formats coincide.
AutomatonIsRight == RecognisesTheFormats /\ MinimalUnlessShared
=============================================================================
