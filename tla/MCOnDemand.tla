------------------------------ MODULE MCOnDemand ------------------------------
(***************************************************************************)
(* OnDemandManager on a small instance, what it promises playback as an    *)
(* EncodingFeed, and its properties.                                       *)
(***************************************************************************)
EXTENDS OnDemandManager

CONSTANTS c1, c2, e1, e2, plain, eng

MCChannelOf == e1 :> c1 @@ e2 :> c2
MCStartOf == e1 :> 0 @@ e2 :> 0
MCLength == e1 :> 2 @@ e2 :> 1
MCShort == e1 :> 1 @@ e2 :> 1

==============================================================================
