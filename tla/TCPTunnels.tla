----------------------------- MODULE TCPTunnels -----------------------------
(***************************************************************************)
(* The TCP tunnels of the JSON protocol: agent/tcp_tunnel.go and the TCP   *)
(* half of agent/tunnel_manager.go.                                        *)
(*                                                                         *)
(* The gateway names every client connection by a request id of its own    *)
(* and sends a start, data and a close for it.  The WebSocket reader runs  *)
(* the handler of each message in a goroutine of its own.  A start dials   *)
(* the service, registers the tunnel and starts the forwarder, which       *)
(* copies what the service says to the gateway.  The forwarder, a data     *)
(* handler whose write failed, the handler of a close, the sweep of idle   *)
(* tunnels and Stop may all close one tunnel.                              *)
(*                                                                         *)
(* A request id is an element of Conns.  A chunk of data is its number     *)
(* within its connection and direction.                                    *)
(***************************************************************************)
EXTENDS Naturals, Sequences, FiniteSets

CONSTANTS
  Conns,      \* request ids
  MaxConns,   \* TCPMaxConnections
  DataOf,     \* bound: chunks the client of each connection sends
  RepliesOf   \* bound: chunks the service of each connection sends

ASSUME TunnelsAssumption ==
  /\ IsFiniteSet(Conns)
  /\ MaxConns \in Nat
  /\ DataOf \in [Conns -> Nat]
  /\ RepliesOf \in [Conns -> Nat]

VARIABLES
  tcp,        \* the keys of tcpConnections
  conn,       \* tunnel.ServiceConn
  starter,    \* HandleTCPTunnelStart
  forwarder,  \* forwardServiceToGateway
  writer,     \* HandleTCPTunnelData: the goroutine of each chunk
  ender,      \* HandleTCPTunnelClose
  written,    \* chunks written to the service
  taken,      \* number of chunks read from the service
  sent,       \* chunks sent to the gateway
  told,       \* the gateway was sent a tcp_tunnel_close
  stopped,    \* TunnelManager.Stop was called
  link        \* the WebSocket: never lost, lost, or connected again

vars == <<tcp, conn, starter, forwarder, writer, ender, written, taken, sent,
          told, stopped, link>>

Starting   == {"none", "dial", "register", "done"}
Forwarding == {"none", "read", "send", "shut", "remove", "done"}
Writing    == {"get", "write", "shut", "remove", "done"}
Ending     == {"none", "get", "shut", "remove", "done"}

TypeOK ==
  /\ tcp \subseteq Conns
  /\ Cardinality(tcp) <= MaxConns
  /\ conn \in [Conns -> {"none", "open", "closed"}]
  /\ starter \in [Conns -> Starting]
  /\ forwarder \in [Conns -> Forwarding]
  /\ writer \in [Conns -> Seq(Writing)]
  /\ ender \in [Conns -> Ending]
  /\ written \in [Conns -> Seq(Nat)]
  /\ taken \in [Conns -> Nat]
  /\ sent \in [Conns -> Seq(Nat)]
  /\ told \in [Conns -> BOOLEAN]
  /\ stopped \in BOOLEAN
  /\ link \in {"up", "lost", "back"}

Init ==
  /\ tcp = {}
  /\ conn = [i \in Conns |-> "none"]
  /\ starter = [i \in Conns |-> "none"]
  /\ forwarder = [i \in Conns |-> "none"]
  /\ writer = [i \in Conns |-> <<>>]
  /\ ender = [i \in Conns |-> "none"]
  /\ written = [i \in Conns |-> <<>>]
  /\ taken = [i \in Conns |-> 0]
  /\ sent = [i \in Conns |-> <<>>]
  /\ told = [i \in Conns |-> FALSE]
  /\ stopped = FALSE
  /\ link = "up"

Linked == link # "lost"

(* TCPTunnel.Close of every tunnel in S: cancel its context, close its     *)
(* connection.  Each tunnel is closed as often as it is called for.        *)
CloseTunnels(S) ==
  conn' = [i \in Conns |-> IF i \in S THEN "closed" ELSE conn[i]]

(* RemoveTCPConnection *)
Remove(i) == tcp' = tcp \ {i}

(* sendTCPTunnelClose: it is not repeated if the WebSocket is down.  What  *)
(* a goroutine sends last is part of its last step: only the link sees it. *)
Tell(i) == told' = [told EXCEPT ![i] = @ \/ Linked]

-----------------------------------------------------------------------------
(* The messages of the gateway.  It may send data at once: nothing tells   *)
(* it that a tunnel is open.                                               *)
HandleStart(i) ==
  /\ Linked
  /\ starter[i] = "none"
  /\ starter' = [starter EXCEPT ![i] = "dial"]
  /\ UNCHANGED <<tcp, conn, forwarder, writer, ender, written, taken, sent,
                 told, stopped, link>>

HandleData(i) ==
  /\ Linked
  /\ starter[i] # "none"
  /\ ender[i] = "none"
  /\ Len(writer[i]) < DataOf[i]
  /\ writer' = [writer EXCEPT ![i] = Append(@, "get")]
  /\ UNCHANGED <<tcp, conn, starter, forwarder, ender, written, taken, sent,
                 told, stopped, link>>

HandleClose(i) ==
  /\ Linked
  /\ starter[i] # "none"
  /\ ender[i] = "none"
  /\ ender' = [ender EXCEPT ![i] = "get"]
  /\ UNCHANGED <<tcp, conn, starter, forwarder, writer, written, taken, sent,
                 told, stopped, link>>

-----------------------------------------------------------------------------
(* HandleTCPTunnelStart *)
StarterOnly == UNCHANGED <<writer, ender, written, taken, sent, stopped, link>>

Dial(i) ==
  /\ starter[i] = "dial"
  /\ \/ /\ conn' = [conn EXCEPT ![i] = "open"]
        /\ starter' = [starter EXCEPT ![i] = "register"]
        /\ UNCHANGED told
     \/ /\ Tell(i)                                      \* connection_failed
        /\ starter' = [starter EXCEPT ![i] = "done"]
        /\ UNCHANGED conn
  /\ StarterOnly /\ UNCHANGED <<tcp, forwarder>>

Full == Cardinality(tcp) >= MaxConns

Register(i) ==
  /\ starter[i] = "register"
  /\ ~Full /\ i \notin tcp
  /\ tcp' = tcp \cup {i}
  /\ forwarder' = [forwarder EXCEPT ![i] = "read"]
  /\ starter' = [starter EXCEPT ![i] = "done"]
  /\ StarterOnly /\ UNCHANGED <<conn, told>>

(* Mutant: a start that was refused is not reported.                       *)
RefuseQuietly(i) ==
  /\ starter[i] = "register"
  /\ Full \/ i \in tcp
  /\ CloseTunnels({i})
  /\ starter' = [starter EXCEPT ![i] = "done"]
  /\ StarterOnly /\ UNCHANGED <<tcp, forwarder, told>>

Refuse(i) ==
  /\ starter[i] = "register"
  /\ Full \/ i \in tcp
  /\ CloseTunnels({i})
  /\ Tell(i)                                            \* registration_failed
  /\ starter' = [starter EXCEPT ![i] = "done"]
  /\ StarterOnly /\ UNCHANGED <<tcp, forwarder>>

-----------------------------------------------------------------------------
(* forwardServiceToGateway *)
ForwarderOnly == UNCHANGED <<starter, writer, ender, written, stopped, link>>

At(i, here, next) ==
  /\ forwarder[i] = here
  /\ forwarder' = [forwarder EXCEPT ![i] = next]

(* A closed tunnel fails the read; looking at its context first changes    *)
(* nothing, for TCPTunnel.Close cancels the one and closes the other.      *)
ReadChunk(i) ==
  /\ conn[i] = "open"
  /\ taken[i] < RepliesOf[i]
  /\ At(i, "read", "send")
  /\ taken' = [taken EXCEPT ![i] = @ + 1]
  /\ ForwarderOnly /\ UNCHANGED <<tcp, conn, sent, told>>

(* The service hung up or the read deadline passed.                        *)
ReadEnds(i) ==
  /\ conn[i] = "open"
  /\ At(i, "read", "shut")
  /\ ForwarderOnly /\ UNCHANGED <<tcp, conn, taken, sent, told>>

(* Mutant: every read error is taken for a timeout and read on from.       *)
ReadFailsOn(i) ==
  /\ conn[i] = "closed"
  /\ At(i, "read", "read")
  /\ ForwarderOnly /\ UNCHANGED <<tcp, conn, taken, sent, told>>

(* The connection was closed under the read.                               *)
ReadFails(i) ==
  /\ conn[i] = "closed"
  /\ At(i, "read", "shut")
  /\ ForwarderOnly /\ UNCHANGED <<tcp, conn, taken, sent, told>>

(* Mutant: a chunk that could not be sent is skipped.                      *)
SendAnyway(i) ==
  /\ At(i, "send", "read")
  /\ sent' = IF Linked THEN [sent EXCEPT ![i] = Append(@, taken[i])] ELSE sent
  /\ ForwarderOnly /\ UNCHANGED <<tcp, conn, taken, told>>

Send(i) ==
  /\ \/ /\ Linked
        /\ At(i, "send", "read")
        /\ sent' = [sent EXCEPT ![i] = Append(@, taken[i])]
     \/ /\ ~Linked
        /\ At(i, "send", "shut")
        /\ UNCHANGED sent
  /\ ForwarderOnly /\ UNCHANGED <<tcp, conn, taken, told>>

(* Mutant: the clean-up trusts that whoever ended the read has closed the  *)
(* connection.                                                             *)
ShutNothing(i) ==
  /\ At(i, "shut", "remove")
  /\ ForwarderOnly /\ UNCHANGED <<tcp, conn, taken, sent, told>>

(* The deferred clean-up. *)
Shut(i) ==
  /\ At(i, "shut", "remove")
  /\ CloseTunnels({i})
  /\ ForwarderOnly /\ UNCHANGED <<tcp, taken, sent, told>>

Unregister(i) ==
  /\ At(i, "remove", "done")
  /\ Remove(i)
  /\ Tell(i)                                            \* service_closed
  /\ ForwarderOnly /\ UNCHANGED <<conn, taken, sent>>

-----------------------------------------------------------------------------
(* HandleTCPTunnelData: the handler of chunk n.                            *)
WriterOnly == UNCHANGED <<starter, forwarder, ender, taken, sent, stopped, link>>

Writes(i, n, here, next) ==
  /\ writer[i][n] = here
  /\ writer' = [writer EXCEPT ![i][n] = next]

GetForData(i, n) ==
  /\ Writes(i, n, "get", IF i \in tcp THEN "write" ELSE "done")
  /\ WriterOnly /\ UNCHANGED <<tcp, conn, written, told>>

Write(i, n) ==
  /\ conn[i] = "open"
  /\ Writes(i, n, "write", "done")
  /\ written' = [written EXCEPT ![i] = Append(@, n)]
  /\ WriterOnly /\ UNCHANGED <<tcp, conn, told>>

(* The connection is closed, or the service has hung up.                   *)
WriteFails(i, n) ==
  /\ Writes(i, n, "write", "shut")
  /\ WriterOnly /\ UNCHANGED <<tcp, conn, written, told>>

ShutByWriter(i, n) ==
  /\ Writes(i, n, "shut", "remove")
  /\ CloseTunnels({i})
  /\ WriterOnly /\ UNCHANGED <<tcp, written, told>>

RemoveByWriter(i, n) ==
  /\ Writes(i, n, "remove", "done")
  /\ Remove(i)
  /\ Tell(i)                                            \* write_error
  /\ WriterOnly /\ UNCHANGED <<conn, written>>

-----------------------------------------------------------------------------
(* HandleTCPTunnelClose.  It sends nothing.                                *)
EnderOnly == UNCHANGED <<starter, forwarder, writer, written, taken, sent,
                         told, stopped, link>>

Ends(i, here, next) ==
  /\ ender[i] = here
  /\ ender' = [ender EXCEPT ![i] = next]

GetForClose(i) ==
  /\ Ends(i, "get", IF i \in tcp THEN "shut" ELSE "done")
  /\ EnderOnly /\ UNCHANGED <<tcp, conn>>

ShutByEnder(i) ==
  /\ Ends(i, "shut", "remove")
  /\ CloseTunnels({i})
  /\ EnderOnly /\ UNCHANGED tcp

RemoveByEnder(i) ==
  /\ Ends(i, "remove", "done")
  /\ Remove(i)
  /\ EnderOnly /\ UNCHANGED conn

-----------------------------------------------------------------------------
(* cleanupIdleTCP: the sweep of the cleanup loop, under the lock.          *)
Sweep ==
  /\ ~stopped
  /\ \E idle \in SUBSET tcp \ {{}} :
       /\ CloseTunnels(idle)
       /\ tcp' = tcp \ idle
  /\ UNCHANGED <<starter, forwarder, writer, ender, written, taken, sent,
                 told, stopped, link>>

(* TunnelManager.Stop: it ends the cleanup loop and closes what is         *)
(* registered, and does not keep later starts from registering.            *)
Stop ==
  /\ ~stopped
  /\ stopped' = TRUE
  /\ CloseTunnels(tcp)
  /\ tcp' = {}
  /\ UNCHANGED <<starter, forwarder, writer, ender, written, taken, sent,
                 told, link>>

(* The WebSocket is lost and, once, comes back.  Tunnels outlive it.       *)
LinkLost == link = "up" /\ link' = "lost"
LinkBack == link = "lost" /\ link' = "back"

LinkChanges ==
  /\ LinkLost \/ LinkBack
  /\ UNCHANGED <<tcp, conn, starter, forwarder, writer, ender, written, taken,
                 sent, told, stopped>>

-----------------------------------------------------------------------------
Gateway(i) == HandleStart(i) \/ HandleData(i) \/ HandleClose(i)
Starter(i) == Dial(i) \/ Register(i) \/ Refuse(i)
Forwarder(i) ==
  ReadChunk(i) \/ ReadEnds(i) \/ ReadFails(i) \/ Send(i) \/ Shut(i)
               \/ Unregister(i)
Writer(i, n) ==
  GetForData(i, n) \/ Write(i, n) \/ WriteFails(i, n) \/ ShutByWriter(i, n)
                   \/ RemoveByWriter(i, n)
Ender(i) == GetForClose(i) \/ ShutByEnder(i) \/ RemoveByEnder(i)

Next ==
  \/ \E i \in Conns : Gateway(i) \/ Starter(i) \/ Forwarder(i) \/ Ender(i)
  \/ \E i \in Conns : \E n \in DOMAIN writer[i] : Writer(i, n)
  \/ Sweep \/ Stop \/ LinkChanges

Spec == Init /\ [][Next]_vars

(* A dial returns within 30 seconds, and a forwarder that can go on does.  *)
(* Nothing is asked of the gateway, of the service (a read may block for   *)
(* ever while its connection is open, and so may a write), of the          *)
(* handlers, of the sweep or of the link.                                  *)
Fairness ==
  \A i \in Conns :
    /\ WF_vars(Starter(i))
    /\ WF_vars(ReadFails(i) \/ Send(i) \/ Shut(i) \/ Unregister(i))

FairSpec == Spec /\ Fairness

-----------------------------------------------------------------------------
(* A connection to a service is never left open out of the map, where      *)
(* neither the gateway's data and close nor the sweep nor Stop would find  *)
(* it, except while its start is about to register it: each clean-up       *)
(* closes first and removes then.                                          *)
Reachable ==
  \A i \in Conns :
    conn[i] = "open" => i \in tcp \/ starter[i] = "register"

(* A slot of the manager is held only by a tunnel whose forwarder has not  *)
(* removed it yet: whichever of the five parties closes a tunnel, its slot *)
(* is free by the time the gateway is told.                                *)
SlotFreed ==
  \A i \in tcp : forwarder[i] \in {"read", "send", "shut", "remove"}

(* The map and the open connections agree, through all five clean-ups.     *)
Listed == Reachable /\ SlotFreed

(* What the gateway is sent of a connection is what the service said, in   *)
(* order and without a hole, through lost links and clean-ups.             *)
RepliesInOrder ==
  \A i \in Conns : \A k \in 1..Len(sent[i]) : sent[i][k] = k

(* The client's bytes reach the service in order and without a hole.       *)
(* controlplane/types.go numbers the chunks "for ordering"; the agent      *)
(* neither sends nor reads that number.                                    *)
DataInOrder ==
  \A i \in Conns : \A k \in 1..Len(written[i]) : written[i][k] = k

(* A start that failed and a tunnel that was closed, by whomever, is       *)
(* reported to the gateway, unless the WebSocket was lost.                 *)
EndTold ==
  \A i \in Conns :
    (starter[i] = "done" /\ conn[i] # "open") ~> (told[i] \/ link # "up")

(* A tunnel that was closed, by whomever, leaves the map and ends its      *)
(* forwarder: a goroutine blocked in a read or write is always released.   *)
Unwinds ==
  \A i \in Conns :
    conn[i] = "closed" ~> (i \notin tcp /\ forwarder[i] \in {"none", "done"})

-----------------------------------------------------------------------------
(* Tunnel i as a ServiceRelay: its entry is gone when the forwarder exists *)
(* and tcpConnections no longer lists it.                                  *)
Entry(i) ==
  IF i \in tcp THEN "listed"
  ELSE IF forwarder[i] = "none" THEN "none" ELSE "gone"

Reading(i) == IF forwarder[i] \in {"none", "done"} THEN forwarder[i] ELSE "on"

Life(i) == INSTANCE ServiceRelay WITH
  ClosesFirst <- TRUE, entry <- Entry(i), conn <- conn[i],
  reader <- Reading(i), taken <- taken[i], sent <- sent[i]

(* However starts, forwarder, handlers, sweep and Stop interleave, a       *)
(* tunnel lives once: dialled, listed, read and passed on chunk by chunk,  *)
(* closed, and only then unlisted.  It is Life(i)!Spec of every i, in the  *)
(* form TLC evaluates.                                                     *)
OneLife ==
  /\ \A i \in Conns : Life(i)!Init
  /\ [][\A i \in Conns : [Life(i)!Next]_(Life(i)!relay)]_vars
=============================================================================
