------------------------------ MODULE Spelling ------------------------------
(***************************************************************************)
(* How a plate is spelled: its display form (grammar.py), and the plate    *)
(* that a raw text denotes (normalize.py).  A character is a symbol of the *)
(* grammar, the Space, or another code that Folding maps to one of them,   *)
(* to itself (a character that is kept) or to Removed.                     *)
(***************************************************************************)
EXTENDS Grammar

CONSTANTS
  Hyphen, Space,  \* SEP, and what str.split would split at
  Folding,        \* NFKD and _TRANSLATION, for the characters they change or drop
  Removed,        \* a diacritic or a control character
  Lookalikes,     \* _LOOKALIKE_DIGITS
  Spaced          \* the formats that are displayed with spaces

ASSUME SpellingAssumption ==
  /\ Hyphen \in Symbols /\ Space \notin Symbols /\ Removed \notin Symbols
  /\ \A d \in DOMAIN Lookalikes : Lookalikes[d] \in Members["digit"]

ClassOf(symbol) == CHOOSE class \in DOMAIN Members : symbol \in Members[class]

-----------------------------------------------------------------------------
(***************************************************************************)
(* Plate: the fields of a token string and its two spellings.              *)
(***************************************************************************)
\* Plate.from_tokens keeps the digits, the letter and the region.
FieldsOfPlate(tokens) ==
  LET found == Segment(tokens)
      f     == CHOOSE f \in DOMAIN formats : formats[f].name = found.format
      named == SelectSeq([i \in DOMAIN found.lengths |-> i],
                         LAMBDA i : Fields(f)[i].class \in {"digit", "letter"})
      slice(i) == SubSeq(tokens, Offset(found.lengths, i) + 1, Offset(found.lengths, i + 1))
  IN  IF found = NoSegment THEN <<>> ELSE [n \in DOMAIN named |-> slice(named[n])]

FormatOf(tokens) == Min(AcceptingFormats(RunOf(tokens)))

Display(tokens) ==
  IF tokens # <<>> /\ Segment(tokens).format \in Spaced
  THEN [i \in DOMAIN tokens |-> IF tokens[i] = Hyphen THEN Space ELSE tokens[i]]
  ELSE tokens

-----------------------------------------------------------------------------
(***************************************************************************)
(* normalize_text: characters are dropped and folded, a run of spaces and  *)
(* a run of hyphens become one, and both are stripped from the ends.       *)
(***************************************************************************)
Gap == {Space, Hyphen}

Folded(raw) ==
  LET fold(c) == IF c \in DOMAIN Folding THEN Folding[c] ELSE c
      kept    == SelectSeq(raw, LAMBDA c : fold(c) # Removed)
  IN  [i \in DOMAIN kept |-> fold(kept[i])]

Squeezed(text) ==
  LET kept == SelectSeq([i \in DOMAIN text |-> i],
                LAMBDA i : ~(i > 1 /\ text[i] \in Gap /\ text[i - 1] = text[i]))
  IN  [n \in DOMAIN kept |-> text[kept[n]]]

Stripped(text) ==
  LET solid == {i \in DOMAIN text : text[i] \notin Gap}
  IN  IF solid = {} THEN <<>> ELSE SubSeq(text, Min(solid), Max(solid))

NormalizeText(raw) == Stripped(Squeezed(Folded(raw)))

-----------------------------------------------------------------------------
(***************************************************************************)
(* _tokenise: a run of spaces and hyphens is one separator, soft if it is  *)
(* made of spaces only.  A soft one between two digits, or two marks, is a *)
(* gap that the OCR engine left, and is dropped.                           *)
(***************************************************************************)
Token(symbol, soft) == [symbol |-> symbol, class |-> ClassOf(symbol), soft |-> soft]

Foreign(c) == c \notin Symbols \cup {Space} \cup DOMAIN Lookalikes

AddToken(tokens, c) ==
  CASE c \notin Gap -> Append(tokens, Token(IF c \in DOMAIN Lookalikes THEN Lookalikes[c] ELSE c, FALSE))
    [] c \in Gap /\ tokens # <<>> /\ Last(tokens).symbol = Hyphen ->
         Append(Front(tokens), Token(Hyphen, Last(tokens).soft /\ c = Space))
    [] OTHER -> Append(tokens, Token(Hyphen, c = Space))

\* Mutant: every separator between two digits or two marks is dropped.
Merged_HardToo(tokens) ==
  LET splits(i) == /\ tokens[i].symbol = Hyphen
                   /\ 1 < i /\ i < Len(tokens)
                   /\ tokens[i - 1].class = tokens[i + 1].class
                   /\ tokens[i - 1].class \in {"digit", "mark"}
      kept      == SelectSeq([i \in DOMAIN tokens |-> i], LAMBDA i : ~splits(i))
  IN  [n \in DOMAIN kept |-> tokens[kept[n]]]

Merged(tokens) ==
  LET splits(i) == /\ tokens[i].symbol = Hyphen /\ tokens[i].soft
                   /\ 1 < i /\ i < Len(tokens)
                   /\ tokens[i - 1].class = tokens[i + 1].class
                   /\ tokens[i - 1].class \in {"digit", "mark"}
      kept      == SelectSeq([i \in DOMAIN tokens |-> i], LAMBDA i : ~splits(i))
  IN  [n \in DOMAIN kept |-> tokens[kept[n]]]

Tokenise(text) == Merged(FoldLeft(AddToken, <<>>, text))

-----------------------------------------------------------------------------
(***************************************************************************)
(* parse_plate: the automaton runs over every way of inserting the         *)
(* separators that may be missing between a digit and a letter or a mark.  *)
(***************************************************************************)
NeedsSeparator(before, token) ==
  LET boundary == {before.class, token.class}
  IN  "sep" \notin boundary /\ "digit" \in boundary /\ boundary \cap {"letter", "mark"} # {}

Advanced(paths, tokens, i) ==
  LET symbol == tokens[i].symbol
      direct == {[state |-> StepTo(p.state, symbol), out |-> Append(p.out, symbol)] : p \in paths}
      via    == IF i = 1 \/ ~NeedsSeparator(tokens[i - 1], tokens[i]) THEN {}
                ELSE {[state |-> StepTo(StepTo(p.state, Hyphen), symbol),
                       out   |-> p.out \o <<Hyphen, symbol>>] : p \in paths}
  IN  {p \in direct \cup via : p.state # DEAD}

Paths(tokens) ==
  FoldLeft(LAMBDA paths, i : Advanced(paths, tokens, i), {[state |-> 1, out |-> <<>>]},
           [i \in DOMAIN tokens |-> i])

\* The tokens of the plate, <<>> if the text denotes none.
ParsePlate(raw) ==
  LET text  == NormalizeText(raw)
      plates == {p.out : p \in {p \in Paths(Tokenise(text)) : AcceptingFormats(p.state) # {}}}
  IN  IF text = <<>> \/ (\E i \in DOMAIN text : Foreign(text[i])) \/ plates = {} THEN <<>>
      ELSE CHOOSE plate \in plates : TRUE

\* normalize: the display spelling, <<>> for None.
Normalize(raw) == LET plate == ParsePlate(raw) IN IF plate = <<>> THEN <<>> ELSE Display(plate)

-----------------------------------------------------------------------------
(***************************************************************************)
(* What a text denotes, said without a parser: it has the glyphs of the    *)
(* word in their order, and what stands between two of them is right.      *)
(***************************************************************************)
Glyphs(text) == SelectSeq([i \in DOMAIN text |-> i], LAMBDA i : text[i] \notin Gap)

Between(text, k) ==
  LET at == Glyphs(text) IN Range(SubSeq(text, at[k] + 1, at[k + 1] - 1))

Spells(text, word) ==
  LET glyph(c) == IF c \in DOMAIN Lookalikes THEN Lookalikes[c] ELSE c
      mine  == Glyphs(text)
      theirs == Glyphs(word)
  IN  /\ Len(mine) = Len(theirs)
      /\ \A k \in DOMAIN mine : glyph(text[mine[k]]) = word[theirs[k]]
      /\ \A k \in 1 .. Len(mine) - 1 :
           LET between == Between(text, k)
               classes == {ClassOf(word[theirs[k]]), ClassOf(word[theirs[k + 1]])}
           IN  IF Between(word, k) # {} THEN between # {} \/ "digit" \in classes
               ELSE between = {} \/ (between = {Space} /\ Cardinality(classes) = 1)

\* Raw text is read as the one plate it spells, or as none: hyphens may be missing at the border
\* of a number, one run of printed glyphs may be split by spaces, nothing else is guessed; and a
\* plate's own two spellings are read as that plate, so normalize is idempotent (normalize.py).
TextsDenote(texts) ==
  LET words == UNION {FormatWords(f) : f \in DOMAIN formats}
  IN  /\ \A raw \in texts :
           LET text == Stripped(Folded(raw))
               spelled == {w \in words : Spells(text, w)}
           IN  /\ Cardinality(spelled) <= 1
               /\ ParsePlate(raw) = IF spelled = {} THEN <<>> ELSE CHOOSE w \in spelled : TRUE
      /\ \A w \in words : ParsePlate(w) = w /\ ParsePlate(Display(w)) = w
                          /\ Normalize(Display(w)) = Display(w)
=============================================================================
