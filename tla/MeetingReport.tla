----------------------------- MODULE MeetingReport -----------------------------
(***************************************************************************)
(* What is read of a meeting: the summary, the speakers of the transcript  *)
(* and their names, as the page shows them and as the Markdown export      *)
(* renders them (meeting-export.ts) from what the database has.            *)
(***************************************************************************)
EXTENDS SpeakerDisplay

CONSTANT MaxText  \* bound on the length of the summary's text

ASSUME TextAssumption == MaxText \in Nat

VARIABLE saved    \* the summary's text and the owner of its action item, the
                  \* labels of the transcript and what is said in a segment,
                  \* the names given to labels

Nobody == << >>

\* Labels one of which is the beginning of another, and names one of which is
\* another speaker's label.
Labels == {<<"S", "0">>, <<"S", "1">>, <<"S", "0", "1">>}

PersonNames == {<<"n">>, <<"S", "1">>}

Texts == UNION {[1 .. n -> Symbols] : n \in 0 .. MaxText}

\* SummaryActionItemOwner: a label, or a name the model took from the transcript.
NoOwner == [kind |-> "unknown", value |-> Nobody]

Owners == {NoOwner} \union [kind : {"speaker"}, value : {<<"S", "1">>}]
                    \union [kind : {"name"}, value : PersonNames]

Transcripts == {{}, {<<"S", "0">>, <<"S", "1">>}, {<<"S", "0">>, <<"S", "0", "1">>}}

\* What is said may be a label, too.
Sayings == {<< >>, <<".">>, <<".", "S", "1">>}

ReportInit ==
  saved = [text |-> << >>, owner |-> NoOwner, heard |-> {}, said |-> << >>,
           names |-> << >>]

\* A transcription, also one after a retry: names given before stay.
Transcribes ==
  /\ saved.text = << >>
  /\ \E labels \in Transcripts \ {{}}, said \in Sayings \ {<< >>} :
       saved' = [saved EXCEPT !.heard = labels, !.said = said]

\* The model's text and owners are its own: any label may occur in them.
Summarizes ==
  /\ saved.text = << >> /\ saved.heard # {}
  /\ \E text \in Texts \ {<< >>}, owner \in Owners :
       saved' = [saved EXCEPT !.text = text, !.owner = owner]

\* saveSpeakerMapping: only a label of the transcript is given a name.
NamesSpeaker ==
  \E label \in saved.heard, name \in PersonNames :
    saved' = [saved EXCEPT !.names =
                [l \in DOMAIN saved.names \union {label} |->
                   IF l = label THEN name ELSE saved.names[l]]]

\* An empty name.
ForgetsSpeaker ==
  \E label \in saved.heard \intersect DOMAIN saved.names :
    saved' = [saved EXCEPT !.names = [l \in DOMAIN saved.names \ {label} |->
                                    saved.names[l]]]

ReportStep == Transcribes \/ Summarizes \/ NamesSpeaker \/ ForgetsSpeaker

-----------------------------------------------------------------------------
\* The text, as page and export show it.
ShownText == Displayed(saved.text, saved.names)

\* formatSpeakerDisplayOwner: a name is shown as it is; Nobody is "Unassigned".
ShownOwner ==
  IF saved.owner.kind = "speaker" THEN Displayed(saved.owner.value, saved.names)
  ELSE saved.owner.value

\* Speaker and text of every segment of the transcript.
ShownTranscript ==
  [speaker : {Displayed(label, saved.names) : label \in saved.heard},
   text : {Displayed(saved.said, saved.names)}]

\* Variant: the text is not searched for labels.
CollectedFromTranscript == DOMAIN saved.names \union saved.heard

\* collectSpeakerLabels: neither named owners nor what is said in a segment.
CollectedLabels ==
  DOMAIN saved.names \union saved.heard \union Extracted(saved.text)
    \union (IF saved.owner.kind = "speaker" THEN {saved.owner.value} ELSE {})

\* formatSpeakerDisplayList: the export's line of speakers.
SpeakersLine == {Displayed(label, saved.names) : label \in CollectedLabels}

Flavors == {"summary", "full"}

\* renderMeetingMarkdownExport: only the full export has the transcript.
Exported(flavor) ==
  [speakers |-> SpeakersLine, text |-> ShownText, owner |-> ShownOwner,
   transcript |-> IF flavor = "full" THEN ShownTranscript ELSE {}]

-----------------------------------------------------------------------------
\* The k-th of a set of numbers, from the smallest.
Nth(S, k) == CHOOSE x \in S : Cardinality({y \in S : y <= x}) = k

\* Where a word begins or ends.
Starts(text) ==
  {i \in 1 .. Len(text) : i = 1 \/ IsWord(text[i]) # IsWord(text[i - 1])}

\* The words of a text, and what is between them.
Pieces(text) ==
  LET from(k) == Nth(Starts(text) \union {Len(text) + 1}, k)
  IN  [k \in 1 .. Cardinality(Starts(text)) |-> SubSeq(text, from(k), from(k + 1) - 1)]

NameOf(piece) == IF piece \in DOMAIN saved.names THEN saved.names[piece] ELSE piece

Renamed(text) ==
  LET pieces == Pieces(text)
  IN  FlattenSeq([k \in DOMAIN pieces |-> NameOf(pieces[k])])

ReportTypeOK ==
  /\ saved.text \in Texts /\ saved.owner \in Owners
  /\ saved.heard \in Transcripts /\ saved.said \in Sayings
  /\ DOMAIN saved.names \subseteq Labels /\ Range(saved.names) \subseteq PersonNames

\* A text, of the summary or of a segment of the transcript, is shown with names in
\* place of the labels that are words of it, and is otherwise as it was: a label in
\* a longer word or in a name stays (speaker-display.ts, applySpeakerMap).
NamesReplaceWords ==
  /\ \A flavor \in Flavors : Exported(flavor).text = Renamed(saved.text)
  /\ \A segment \in Exported("full").transcript : segment.text = Renamed(saved.said)

\* Every speaker an export shows, as a label of its summary, as the owner of an
\* action item or of a segment of its transcript, is in its line of speakers under
\* the same name; that excludes owners the model gave by name, which are shown as
\* they are, and labels said in a segment (speaker-display.ts, meeting-export.ts).
SpeakersLineIsComplete ==
  LET pieces == Pieces(saved.text)
      spoken == {k \in DOMAIN pieces : pieces[k] \in Extracted(pieces[k])}
  IN  \A flavor \in Flavors :
        LET export == Exported(flavor)
        IN  /\ {NameOf(pieces[k]) : k \in spoken} \subseteq export.speakers
            /\ saved.owner.kind = "speaker" => export.owner \in export.speakers
            /\ {segment.speaker : segment \in export.transcript} \subseteq export.speakers
=============================================================================
