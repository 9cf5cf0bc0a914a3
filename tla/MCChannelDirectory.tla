------------------------- MODULE MCChannelDirectory -------------------------
(***************************************************************************)
(* Values of the constants of ChannelDirectory for TLC.                    *)
(***************************************************************************)
EXTENDS ChannelDirectory, TLC

CONSTANTS Ann, Bob, Eve

\* Ann before Bob before Eve.
MCUserLess == {<<Ann, Bob>>, <<Ann, Eve>>, <<Bob, Eve>>}
=============================================================================
