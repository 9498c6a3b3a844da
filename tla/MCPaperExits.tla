---------------------------- MODULE MCPaperExits ----------------------------
(* Small instances of PaperExits for TLC. *)
EXTENDS PaperExits

Live == {"live"}
\* the live pipeline and the browser watcher, which only handles alerts
LiveAndBrowser == {"live", "browser"}

OnePosition == {1}
TwoPositions == {1, 2}
OneShadow == {1}
TwoShadows == {1, 2}

Two   == <<2>>
Three == <<3>>
TwoAndOne == <<2, 1>>

Take80  == <<80>>
Take80And120 == <<80, 120>>
Stop35 == <<35>>
Stop35And35 == <<35, 35>>

\* each position follows, and is tracked by, the shadow of its own alert
OwnShadow == <<{1}>>
\* of two positions in one contract, the second also follows the first one's shadow
FirstFollowedTwice == <<{1}, {1, 2}>>
OwnShadows == <<{1}, {2}>>

\* flat, at the stop or past the rungs
TwoRungMarks == {-35, 0, 80, 130}
FlatAndTwoRungs == {0, 130}

Alert(id, about, contracts) ==
  [id |-> id, wide |-> about, narrow |-> {}, contracts |-> contracts,
   bucket |-> id, priced |-> TRUE]

SellsOneTwice == {Alert(1, {1}, 1), Alert(2, {1}, 1)}
\* names the strike of shadow 1, and a ticker that both have
SellsOne == {[Alert(1, {1, 2}, 1) EXCEPT !.narrow = {1}]}

=============================================================================
