------------------------------ MODULE Suggestions ------------------------------
(***************************************************************************)
(* What `generate` suggests to expect of an answer                         *)
(* (src/src/cli/utils/expectationSuggester.ts).                            *)
(*                                                                         *)
(* A text is the sequence of the snippets found in it, one to a line, each *)
(* a record with the format it has.                                        *)
(***************************************************************************)
EXTENDS Integers, Sequences, SequencesExt

CONSTANTS
  MaxListed,   \* bold texts and pairs are suggested if there are at most so many (5)
  Shown        \* ... and then the first of them (3)

\* The formats with a pattern.  The others: "pair" (Key: value), "word" (a line of text),
\* "blank" (an empty line), "short" (a text of at most ten characters).
Formats == {"header", "date", "time", "temperature", "url", "email", "percentage",
            "currency", "bold", "list", "numbered", "phone", "ip"}

Of(text, format) == SelectSeq(text, LAMBDA snippet : snippet.format = format)

Listed(text, format) ==
  LET found == Of(text, format)
  IN IF Len(found) > MaxListed THEN <<>>
     ELSE SubSeq(found, 1, IF Len(found) < Shown THEN Len(found) ELSE Shown)

FirstLine(text) ==
  IF text = <<>> \/ Head(text).format = "blank" \/ (Len(text) = 1 /\ Head(text).format = "short")
    THEN <<>> ELSE <<Head(text)>>

\* suggestTextContains
TextContains(text) ==
  LET found == Of(text, "header") \o Listed(text, "bold") \o Listed(text, "pair")
  IN ToSet(IF found # <<>> THEN found ELSE FirstLine(text))

\* suggestRegexPatterns: the test of each format.
Patterns(text) == {format \in Formats : Of(text, format) # <<>>}

===============================================================================
