---------------------------- MODULE ServiceRelay ----------------------------
(***************************************************************************)
(* What the agent promises of one stream between the gateway and a service *)
(* of the cluster, a TCP tunnel or the WebSocket of an application: it is  *)
(* dialled once and listed once; a goroutine reads the service and passes  *)
(* on what it read, chunk after chunk, each once, and nothing before it    *)
(* was listed or after it returned.                                        *)
(*                                                                         *)
(* There are two ways to end.  A stream that ClosesFirst keeps its entry   *)
(* while its connection is open, so that it can be found, reads only       *)
(* meanwhile, and returns only when both are gone.  The other loses its    *)
(* entry first, and that is the end of what the gateway is sent.           *)
(***************************************************************************)
EXTENDS Naturals, Sequences

CONSTANT ClosesFirst

VARIABLES
  entry,    \* its entry in the map: none yet, listed, or gone for good
  conn,     \* the connection to the service
  reader,   \* the goroutine that reads the service
  taken,    \* number of chunks read
  sent      \* chunks the gateway was sent

relay == <<entry, conn, reader, taken, sent>>

Init ==
  /\ entry = "none" /\ conn = "none" /\ reader = "none"
  /\ taken = 0 /\ sent = <<>>

Dial ==
  /\ conn = "none" /\ conn' = "open"
  /\ UNCHANGED <<entry, reader, taken, sent>>

List ==
  /\ entry = "none" /\ conn # "none"
  /\ entry' = "listed"
  /\ IF ClosesFirst THEN conn = "open" /\ reader' = "on" ELSE UNCHANGED reader
  /\ UNCHANGED <<conn, taken, sent>>

Serve ==
  /\ reader = "none" /\ entry = "listed"
  /\ reader' = "on"
  /\ UNCHANGED <<entry, conn, taken, sent>>

Read ==
  /\ reader = "on" /\ conn = "open" /\ taken = Len(sent)
  /\ ClosesFirst => entry = "listed"
  /\ taken' = taken + 1
  /\ UNCHANGED <<entry, conn, reader, sent>>

Pass ==
  /\ reader = "on" /\ taken = Len(sent) + 1
  /\ entry = "listed" \/ ClosesFirst
  /\ sent' = Append(sent, taken)
  /\ UNCHANGED <<entry, conn, reader, taken>>

HangUp ==
  /\ conn = "open" /\ conn' = "closed"
  /\ UNCHANGED entry \/ (entry = "listed" /\ entry' = "gone")
  /\ UNCHANGED <<reader, taken, sent>>

Unlist ==
  /\ entry = "listed" /\ entry' = "gone"
  /\ ClosesFirst => conn = "closed"
  /\ UNCHANGED <<conn, reader, taken, sent>>

Return ==
  /\ reader = "on" /\ reader' = "done"
  /\ IF ClosesFirst THEN conn = "closed" /\ entry' = "gone" ELSE UNCHANGED entry
  /\ UNCHANGED <<conn, taken, sent>>

Next == Dial \/ List \/ Serve \/ Read \/ Pass \/ HangUp \/ Unlist \/ Return

Spec == Init /\ [][Next]_relay
=============================================================================
