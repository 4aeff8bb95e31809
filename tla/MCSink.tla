------------------------------- MODULE MCSink -------------------------------
(***************************************************************************)
(* Small instances of Sink: a header of two bytes and frames of at most     *)
(* four, so that a chunk of up to MaxFeed bytes can hold part of a frame,   *)
(* one frame, or several with the start of the next.                        *)
(***************************************************************************)
EXTENDS Sink

MCFrame(n, kind) == [size |-> n, declared |-> n, kind |-> kind]
MCDeclares(n, d) == [size |-> n, declared |-> d, kind |-> "unparsable"]

\* Good frames of every length; a frame that does not parse between good ones;
\* a header with a bad marker; lengths below the header and above the maximum.
MCStreams ==
  {<<MCFrame(2, "good"), MCFrame(4, "good"), MCFrame(3, "good"), MCFrame(2, "good"), MCFrame(2, "good")>>,
   <<MCFrame(2, "good"), MCFrame(3, "unparsable"), MCFrame(2, "good"), MCFrame(3, "good")>>,
   <<MCFrame(3, "good"), MCFrame(2, "marker"), MCFrame(2, "good"), MCFrame(2, "good")>>,
   <<MCFrame(2, "good"), MCDeclares(2, 1), MCFrame(2, "good"), MCFrame(2, "good")>>,
   <<MCFrame(2, "good"), MCDeclares(6, 6), MCFrame(3, "good")>>}
=============================================================================
