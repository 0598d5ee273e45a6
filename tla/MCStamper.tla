----------------------------- MODULE MCStamper -----------------------------
(* Two streams that share a file, reads of two characters at most, three   *)
(* characters in all: lines are cut by reads, reads hold several lines,    *)
(* and the streams end in all orders.  The build with one stream is the    *)
(* case in which the other ends without a character.                       *)
EXTENDS Stamper

MCStreams == <<"o", "e">>
=============================================================================
