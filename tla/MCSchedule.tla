----------------------------- MODULE MCSchedule -----------------------------
(* Instances of Schedule for TLC.                                          *)
EXTENDS Schedule

CONSTANTS a, b, promo

TheFiller == <<promo>>
TheLineup == <<a, b>>
TheLayouts == {<<[media |-> a, offset |-> 0, dur |-> 1], [media |-> promo, offset |-> 1, dur |-> 1]>>,
               <<[media |-> b, offset |-> 1, dur |-> 1]>>}
TheDurations == (a :> 1) @@ (b :> 2) @@ (promo :> 3)

=============================================================================
