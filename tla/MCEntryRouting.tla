--------------------------- MODULE MCEntryRouting ---------------------------
(* Small instances of EntryRouting for TLC. *)
EXTENDS EntryRouting, TLC

CONSTANTS live, browser, banner, page, late

Live == {live}
LiveAndBrowser == {live, browser}

\* the notification banner and the browser page of one alert, and a late capture
Twins == {banner, page}
TwinsAndLate == {banner, page, late}
EntryOfTwins == [r \in Twins |-> "alert"]
EntryOfLate == [r \in TwinsAndLate |-> "alert"]
LateOnly == {late}
NoneStale == {}

=============================================================================
