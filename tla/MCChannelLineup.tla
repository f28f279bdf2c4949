--------------------------- MODULE MCChannelLineup ---------------------------
(* Instances of ChannelLineup for TLC: media are interchangeable.          *)
EXTENDS ChannelLineup, TLC

MediaSymmetry == Permutations(Media)

=============================================================================
