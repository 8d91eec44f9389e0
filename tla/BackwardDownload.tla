-------------------------- MODULE BackwardDownload --------------------------
(***************************************************************************)
(* What a paged download promises whoever saves its pages: they come from  *)
(* new to old and never overlap, and where the exchange answers with the   *)
(* newest candles they leave nothing out.  So at any moment, after a       *)
(* failure too, a writer can go on from the oldest candle it has.          *)
(***************************************************************************)
EXTENDS SortedSets

VARIABLES
    market,       \* the candles there are to download
    gapless,      \* whether answers have the newest candles of what is asked for
    saved,        \* the candles the writer was given, oldest first
    status        \* "running", "done", "thrown"

vars == <<market, gapless, saved, status>>

Init == saved = <<>> /\ status = "running"

\* A longer list ends with the one before.
Extends(longer, list) ==
    \A i \in 1 .. Len(list) : longer[Len(longer) - Len(list) + i] = list[i]

\* All that is newer than a candle of the list is in the list.
NoHole(list, all) ==
    \A c \in Elements(list), d \in all : c < d => d \in Elements(list)

Page ==
    /\ status = "running"
    /\ Len(saved') > Len(saved) /\ Extends(saved', saved)
    /\ Ascending(saved') /\ Elements(saved') \subseteq market
    /\ gapless => NoHole(saved', market)
    /\ UNCHANGED <<market, gapless, status>>

End == status = "running" /\ status' \in {"done", "thrown"} /\ UNCHANGED <<market, gapless, saved>>

\* The exchange trades on until the first answer is there.
Trade == saved = <<>> /\ UNCHANGED <<gapless, saved, status>>

Next == Page \/ End \/ Trade

Spec == Init /\ [][Next]_vars
=============================================================================
