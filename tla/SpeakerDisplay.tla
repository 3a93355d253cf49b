---------------------------- MODULE SpeakerDisplay ----------------------------
(***************************************************************************)
(* Speakers' labels and names in the text of a summary                     *)
(* (speaker-display.ts).  A text is a sequence of symbols: "S" is the word *)
(* SPEAKER_, "0" and "1" are digits, "n" a letter of a name, "." a symbol  *)
(* that is part of no word.                                                *)
(***************************************************************************)
EXTENDS SequencesExt, Integers

Symbols == {"S", "0", "1", "."}

Digits == {"0", "1"}

IsWord(symbol) == symbol # "."

\* applySpeakerMap: the pattern's alternatives are tried at every place from the
\* left, the longest label first, between two places where no word goes on.
MatchesAt(text, i, labels) ==
  {l \in labels : /\ i + Len(l) - 1 <= Len(text)
                  /\ SubSeq(text, i, i + Len(l) - 1) = l
                  /\ i > 1 => ~IsWord(text[i - 1])
                  /\ i + Len(l) <= Len(text) => ~IsWord(text[i + Len(l)])}

LongestOf(labels) == CHOOSE l \in labels : \A k \in labels : Len(k) <= Len(l)

\* Variant: a label is replaced where a word goes on, too.
DisplayedInWords(text, names) ==
  LET at(i) == {l \in DOMAIN names : /\ i + Len(l) - 1 <= Len(text)
                                     /\ SubSeq(text, i, i + Len(l) - 1) = l}
      from[i \in 1 .. Len(text) + 1] ==
        IF i > Len(text) THEN << >>
        ELSE IF at(i) = {} THEN <<text[i]>> \o from[i + 1]
        ELSE names[LongestOf(at(i))] \o from[i + Len(LongestOf(at(i)))]
  IN  from[1]

\* `names` maps the labels that have a name to it.
Displayed(text, names) ==
  LET from[i \in 1 .. Len(text) + 1] ==
        LET found == MatchesAt(text, i, DOMAIN names)
        IN  IF i > Len(text) THEN << >>
            ELSE IF found = {} THEN <<text[i]>> \o from[i + 1]
            ELSE names[LongestOf(found)] \o from[i + Len(LongestOf(found))]
  IN  from[1]

\* extractSpeakerLabels: SPEAKER_ and all the digits that follow, anywhere.
Extracted(text) ==
  LET isLabel(i, j) ==
        /\ i < j /\ text[i] = "S" /\ \A k \in i + 1 .. j : text[k] \in Digits
        /\ j < Len(text) => text[j + 1] \notin Digits
  IN {SubSeq(text, span[1], span[2]) :
        span \in {s \in (DOMAIN text) \X (DOMAIN text) : isLabel(s[1], s[2])}}
=============================================================================
