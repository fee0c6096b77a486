---------------------------- MODULE LinkOwnership ----------------------------
(***************************************************************************)
(* What WebSocketClient promises about its control connection: connecting  *)
(* is a critical section, entered by one goroutine at a time; the          *)
(* connection is replaced only inside it, by a newer one; and once the     *)
(* client is shut no new dial starts, although a dial in flight may still  *)
(* deliver its connection.                                                 *)
(***************************************************************************)
EXTENDS Naturals

CONSTANT Link                   \* connection numbers, 0 for none

VARIABLES
  phase,   \* the critical section: idle, held (asleep or finishing),
           \* dialing, or carrying a fresh connection
  link,    \* the connection in use
  shut     \* Close has begun

ownerVars == <<phase, link, shut>>

Init == phase = "dialing" /\ link = 0 /\ shut = FALSE

Enter   == phase = "idle" /\ phase' = "held" /\ UNCHANGED <<link, shut>>
Leave   == phase = "held" /\ phase' = "idle" /\ UNCHANGED <<link, shut>>
Dial    == phase = "held" /\ ~shut /\ phase' = "dialing" /\ UNCHANGED <<link, shut>>
Fail    == phase = "dialing" /\ phase' \in {"held", "idle"} /\ UNCHANGED <<link, shut>>
Obtain  == phase = "dialing" /\ phase' = "carrying" /\ UNCHANGED <<link, shut>>
Replace == /\ phase = "carrying" /\ phase' = "held"
           /\ link' \in Link /\ link' > link
           /\ UNCHANGED shut
Shut    == ~shut /\ shut' = TRUE /\ UNCHANGED <<phase, link>>
Unlink  == shut /\ link' = 0 /\ UNCHANGED <<phase, shut>>

Next == Enter \/ Leave \/ Dial \/ Fail \/ Obtain \/ Replace \/ Shut \/ Unlink

Spec == Init /\ [][Next]_ownerVars
=============================================================================
