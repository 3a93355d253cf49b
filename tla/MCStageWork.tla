----------------------------- MODULE MCStageWork -----------------------------
\* Times in units of half a second.
EXTENDS StageWork

MCDelays == <<1, 5, 25>>

\* Two speakers in short turns, one longer turn each, one turn without a length
\* and one without a label.
MCTurns ==
  {[start |-> i, end |-> i + 1, label |-> l] : i \in {0, 1}, l \in {1, 2}}
    \union {[start |-> 0, end |-> 2, label |-> 1], [start |-> 2, end |-> 4, label |-> 2],
            [start |-> 1, end |-> 1, label |-> 1], [start |-> 0, end |-> 2, label |-> 0]}
=============================================================================
