----------------------------- MODULE MCAppRelay -----------------------------
(* Model checking of AppRelay: one stream with traffic both ways.  Streams *)
(* share nothing but the link and the process.                             *)
EXTENDS AppRelay

CONSTANTS a, FramesPerStream, RepliesPerStream

MCFramesOf  == [i \in Streams |-> FramesPerStream]
MCRepliesOf == [i \in Streams |-> RepliesPerStream]
=============================================================================
