-------------------------- MODULE TCPTunnelsProofs --------------------------
(***************************************************************************)
(* Proofs about TCPTunnels, for any connections, limit and traffic.  The   *)
(* safety of the map rests on two facts: everybody who may close a tunnel  *)
(* found it in the map, so its forwarder was started (Found), and whoever  *)
(* is about to remove a tunnel has closed it (Shuts).  The same two make   *)
(* every tunnel a ServiceRelay.                                            *)
(***************************************************************************)
EXTENDS TCPTunnels, FiniteSetTheorems, SequenceTheorems, TLAPS

(* How far a start has come, and what exists by then.                      *)
Started ==
  \A i \in Conns :
    /\ starter[i] \in {"none", "dial"}
         => conn[i] = "none" /\ forwarder[i] = "none"
    /\ starter[i] = "register" => conn[i] = "open" /\ forwarder[i] = "none"
    /\ forwarder[i] # "none" => starter[i] = "done" /\ conn[i] # "none"

(* Handlers that go on have found a tunnel with a forwarder.               *)
Found ==
  \A i \in Conns :
    /\ i \in tcp => forwarder[i] # "none"
    /\ ender[i] \in {"shut", "remove"} => forwarder[i] # "none"
    /\ \A n \in 1..Len(writer[i]) :
         writer[i][n] \in {"write", "shut", "remove"} => forwarder[i] # "none"

(* A tunnel is closed before it is removed.                                *)
Shuts ==
  \A i \in Conns :
    /\ forwarder[i] \in {"remove", "done"} => conn[i] = "closed"
    /\ ender[i] = "remove" => conn[i] = "closed"
    /\ \A n \in 1..Len(writer[i]) :
         writer[i][n] = "remove" => conn[i] = "closed"

(* What was read from a service was sent, except the chunk in hand.        *)
Relayed ==
  \A i \in Conns :
    /\ forwarder[i] \in {"none", "read"} => taken[i] = Len(sent[i])
    /\ forwarder[i] = "send" => taken[i] = Len(sent[i]) + 1

Inv ==
  /\ TypeOK /\ Started /\ Found /\ Shuts
  /\ Reachable /\ SlotFreed /\ Relayed /\ RepliesInOrder

-----------------------------------------------------------------------------
(* The types of everything but the map and the sequences.                  *)
Data ==
  /\ conn \in [Conns -> {"none", "open", "closed"}]
  /\ starter \in [Conns -> Starting]
  /\ forwarder \in [Conns -> Forwarding]
  /\ ender \in [Conns -> Ending]
  /\ taken \in [Conns -> Nat]
  /\ link \in {"up", "lost", "back"}

Flags == told \in [Conns -> BOOLEAN] /\ stopped \in BOOLEAN

Map == tcp \subseteq Conns /\ Cardinality(tcp) <= MaxConns

Sequences ==
  /\ writer \in [Conns -> Seq(Writing)]
  /\ written \in [Conns -> Seq(Nat)]
  /\ sent \in [Conns -> Seq(Nat)]

(* A sequence of elements of S keeps its type when one is replaced or      *)
(* added, and so does every function of such sequences.                    *)
LEMMA Replaced ==
  ASSUME NEW S, NEW f \in [Conns -> Seq(S)], NEW i \in Conns,
         NEW n \in DOMAIN f[i], NEW e \in S
  PROVE  /\ [f EXCEPT ![i][n] = e] \in [Conns -> Seq(S)]
         /\ \A j \in Conns : Len([f EXCEPT ![i][n] = e][j]) = Len(f[j])
         /\ \A j \in Conns : \A m \in 1..Len(f[j]) :
              [f EXCEPT ![i][n] = e][j][m]
                = IF j = i /\ m = n THEN e ELSE f[j][m]
<1> DEFINE s == [f[i] EXCEPT ![n] = e]
<1>1. f[i] \in Seq(S) /\ n \in 1..Len(f[i])
  OBVIOUS
<1>2. /\ s \in Seq(S) /\ Len(s) = Len(f[i])
      /\ \A m \in 1..Len(f[i]) : s[m] = IF m = n THEN e ELSE f[i][m]
  BY <1>1, ExceptSeq
<1>3. [f EXCEPT ![i][n] = e] = [f EXCEPT ![i] = s]
  OBVIOUS
<1> HIDE DEF s
<1>4. QED
  BY <1>1, <1>2, <1>3

(* The same for an element added at the end.                               *)
LEMMA Added ==
  ASSUME NEW S, NEW f \in [Conns -> Seq(S)], NEW i \in Conns, NEW e \in S
  PROVE  LET g == [f EXCEPT ![i] = Append(@, e)] IN
           /\ g \in [Conns -> Seq(S)]
           /\ Len(f[i]) \in Nat /\ Len(g[i]) = Len(f[i]) + 1
           /\ \A m \in 1..Len(f[i]) : g[i][m] = f[i][m]
           /\ g[i][Len(f[i]) + 1] = e
           /\ \A j \in Conns : j # i => g[j] = f[j]
<1> DEFINE s == Append(f[i], e)
<1>1. f[i] \in Seq(S)
  OBVIOUS
<1>2. /\ s \in Seq(S) /\ Len(s) = Len(f[i]) + 1
      /\ \A m \in 1..Len(f[i]) : s[m] = f[i][m]
      /\ s[Len(f[i]) + 1] = e
  BY <1>1, AppendProperties
<1> HIDE DEF s
<1>3. [f EXCEPT ![i] = s] \in [Conns -> Seq(S)] /\ [f EXCEPT ![i] = s][i] = s
  BY <1>2
<1>4. \A j \in Conns : j # i => [f EXCEPT ![i] = s][j] = f[j]
  OBVIOUS
<1>5. [f EXCEPT ![i] = Append(@, e)] = [f EXCEPT ![i] = s]
  BY DEF s
<1>6. QED
  BY <1>1, <1>2, <1>3, <1>4, <1>5

-----------------------------------------------------------------------------
(* Stages and counters keep their types. *)
LEMMA DataStep == TypeOK /\ [Next]_vars => Data'
<1> SUFFICES ASSUME TypeOK, [Next]_vars PROVE Data'
  OBVIOUS
<1> USE DEF TypeOK, Data, Starting, Forwarding, Ending
<1>1. ASSUME NEW i \in Conns,
             HandleStart(i) \/ HandleData(i) \/ HandleClose(i)
      PROVE  Data'
  BY <1>1
     DEF HandleStart, HandleData, HandleClose
<1>2. ASSUME NEW i \in Conns,
             Dial(i) \/ Register(i) \/ Refuse(i)
      PROVE  Data'
  <2>1. CASE Dial(i)
    BY <2>1 DEF Dial, StarterOnly
  <2>2. CASE Register(i)
    BY <2>2 DEF Register, StarterOnly
  <2>3. CASE Refuse(i)
    BY <2>3 DEF Refuse, StarterOnly, CloseTunnels
  <2>4. QED
    BY <1>2, <2>1, <2>2, <2>3
<1>3. ASSUME NEW i \in Conns,
             ReadChunk(i)
      PROVE  Data'
  BY <1>3
     DEF ReadChunk, ForwarderOnly, At
<1>4. ASSUME NEW i \in Conns,
             ReadEnds(i) \/ ReadFails(i)
      PROVE  Data'
  BY <1>4
     DEF ReadEnds, ForwarderOnly, At, ReadFails
<1>5. ASSUME NEW i \in Conns,
             Send(i)
      PROVE  Data'
  BY <1>5
     DEF Send, ForwarderOnly, At
<1>6. ASSUME NEW i \in Conns,
             Shut(i) \/ Unregister(i)
      PROVE  Data'
  <2>1. CASE Shut(i)
    BY <2>1 DEF Shut, ForwarderOnly, At, CloseTunnels, Remove
  <2>2. CASE Unregister(i)
    BY <2>2 DEF Unregister, ForwarderOnly, At, CloseTunnels, Remove
  <2>3. QED
    BY <1>6, <2>1, <2>2
<1>7. ASSUME NEW i \in Conns,
             GetForClose(i) \/ ShutByEnder(i) \/ RemoveByEnder(i)
      PROVE  Data'
  <2>1. CASE GetForClose(i)
    BY <2>1 DEF GetForClose, EnderOnly, Ends, CloseTunnels, Remove
  <2>2. CASE ShutByEnder(i)
    BY <2>2 DEF ShutByEnder, EnderOnly, Ends, CloseTunnels, Remove
  <2>3. CASE RemoveByEnder(i)
    BY <2>3 DEF RemoveByEnder, EnderOnly, Ends, CloseTunnels, Remove
  <2>4. QED
    BY <1>7, <2>1, <2>2, <2>3
<1>8. ASSUME NEW i \in Conns, NEW n \in DOMAIN writer[i],
             GetForData(i, n) \/ Write(i, n) \/ WriteFails(i, n) \/
             ShutByWriter(i, n) \/ RemoveByWriter(i, n)
      PROVE  Data'
  BY <1>8
     DEF GetForData, WriterOnly, Writes, Write, WriteFails, ShutByWriter,
         CloseTunnels, RemoveByWriter, Remove
<1>9. ASSUME Sweep \/ Stop \/ LinkChanges
      PROVE  Data'
  BY <1>9
     DEF Sweep, CloseTunnels, Stop, LinkChanges, LinkLost, LinkBack
<1>10. CASE UNCHANGED vars
  BY <1>10 DEF vars
<1>11. QED
  BY <1>1, <1>2, <1>3, <1>4, <1>5, <1>6, <1>7, <1>8, <1>9, <1>10
     DEF Next, Gateway, Starter, Forwarder, Writer, Ender

(* A notice leaves the flags Boolean.                                      *)
LEMMA TellFlag ==
  ASSUME TypeOK, NEW i \in Conns, Tell(i)
  PROVE  told' \in [Conns -> BOOLEAN]
<1>1. (told[i] \/ Linked) \in BOOLEAN
  BY Zenon DEF TypeOK
<1>2. told \in [Conns -> BOOLEAN]
  BY DEF TypeOK
<1>3. QED
  BY <1>1, <1>2, Zenon DEF Tell

(* The flags stay Boolean. *)
LEMMA FlagStep == TypeOK /\ [Next]_vars => Flags'
<1> SUFFICES ASSUME TypeOK, [Next]_vars PROVE Flags'
  OBVIOUS
<1> USE DEF TypeOK, Flags
<1>1. ASSUME NEW i \in Conns,
             HandleStart(i) \/ HandleData(i) \/ HandleClose(i)
      PROVE  Flags'
  BY <1>1
     DEF HandleStart, HandleData, HandleClose
<1>2. ASSUME NEW i \in Conns,
             Dial(i) \/ Register(i) \/ Refuse(i)
      PROVE  Flags'
  BY <1>2, TellFlag
     DEF Dial, StarterOnly, Register, Refuse, CloseTunnels
<1>3. ASSUME NEW i \in Conns,
             ReadChunk(i) \/ ReadEnds(i) \/ ReadFails(i) \/ Send(i) \/
             Shut(i) \/ Unregister(i)
      PROVE  Flags'
  BY <1>3, TellFlag
     DEF ReadChunk, ForwarderOnly, At, ReadEnds, ReadFails, Send, Shut,
         CloseTunnels, Unregister, Remove
<1>4. ASSUME NEW i \in Conns,
             GetForClose(i) \/ ShutByEnder(i) \/ RemoveByEnder(i)
      PROVE  Flags'
  BY <1>4
     DEF GetForClose, EnderOnly, Ends, ShutByEnder, CloseTunnels,
         RemoveByEnder, Remove
<1>5. ASSUME NEW i \in Conns, NEW n \in DOMAIN writer[i],
             GetForData(i, n) \/ Write(i, n) \/ WriteFails(i, n) \/
             ShutByWriter(i, n) \/ RemoveByWriter(i, n)
      PROVE  Flags'
  BY <1>5, TellFlag
     DEF GetForData, WriterOnly, Writes, Write, WriteFails, ShutByWriter,
         CloseTunnels, RemoveByWriter, Remove
<1>6. ASSUME Sweep \/ Stop \/ LinkChanges
      PROVE  Flags'
  BY <1>6
     DEF Sweep, CloseTunnels, Stop, LinkChanges, LinkLost, LinkBack
<1>7. CASE UNCHANGED vars
  BY <1>7 DEF vars
<1>8. QED
  BY <1>1, <1>2, <1>3, <1>4, <1>5, <1>6, <1>7
     DEF Next, Gateway, Starter, Forwarder, Writer, Ender

(* A subset of the registered tunnels is within the limit as well.         *)
LEMMA Fewer ==
  ASSUME TypeOK, NEW T \in SUBSET tcp
  PROVE  T \subseteq Conns /\ Cardinality(T) <= MaxConns
<1>1. IsFiniteSet(tcp)
  BY TunnelsAssumption, FS_Subset DEF TypeOK
<1>2. /\ Cardinality(T) <= Cardinality(tcp)
      /\ Cardinality(T) \in Nat /\ Cardinality(tcp) \in Nat
  BY <1>1, FS_Subset, FS_CardinalityType
<1>3. QED
  BY <1>2, TunnelsAssumption DEF TypeOK

(* No step registers more than MaxConns tunnels.                           *)
LEMMA MapStep == TypeOK /\ [Next]_vars => Map'
<1> SUFFICES ASSUME TypeOK, [Next]_vars PROVE Map'
  OBVIOUS
<1>1. ASSUME NEW i \in Conns, Register(i) PROVE Map'
  <2>1. IsFiniteSet(tcp) /\ i \notin tcp /\ tcp' = tcp \cup {i}
    BY <1>1, TunnelsAssumption, FS_Subset DEF TypeOK, Register
  <2>2. /\ Cardinality(tcp') = Cardinality(tcp) + 1
        /\ Cardinality(tcp) \in Nat
    BY <2>1, FS_AddElement, FS_CardinalityType
  <2>3. Cardinality(tcp) < MaxConns
    BY <1>1, <2>2, TunnelsAssumption DEF Register, Full
  <2>4. QED
    BY <2>1, <2>2, <2>3, TunnelsAssumption DEF Map, TypeOK
<1>2. ASSUME tcp' \in SUBSET tcp PROVE Map'
  BY <1>2, Fewer DEF Map
<1>3. ASSUME NEW i \in Conns,
             Gateway(i) \/ Dial(i) \/ Refuse(i) \/ Forwarder(i) \/ Ender(i)
      PROVE  tcp' \in SUBSET tcp
  BY <1>3 DEF Gateway, HandleStart, HandleData, HandleClose, Dial, Refuse,
     StarterOnly, Forwarder, ReadChunk, ReadEnds, ReadFails, Send, Shut,
     Unregister, Remove, Ender, GetForClose, ShutByEnder, RemoveByEnder
<1>4. ASSUME NEW i \in Conns, NEW n \in DOMAIN writer[i], Writer(i, n)
      PROVE  tcp' \in SUBSET tcp
  BY <1>4 DEF Writer, GetForData, Write, WriteFails, ShutByWriter,
     RemoveByWriter, Remove
<1>5. ASSUME Sweep \/ Stop \/ LinkChanges \/ UNCHANGED vars
      PROVE  tcp' \in SUBSET tcp
  BY <1>5 DEF Sweep, Stop, LinkChanges, vars
<1>6. QED
  BY <1>1, <1>2, <1>3, <1>4, <1>5 DEF Next, Starter

(* The handlers that exist.                                                *)
LEMMA Handlers ==
  ASSUME TypeOK, NEW i \in Conns, NEW n \in DOMAIN writer[i]
  PROVE  n \in 1..Len(writer[i]) /\ n \in Nat
<1>1. writer[i] \in Seq(Writing)
  BY DEF TypeOK
<1>2. QED
  BY <1>1

(* The handlers' stages and the chunks stay sequences.                     *)
LEMMA SequencesStep == TypeOK /\ [Next]_vars => Sequences'
<1> SUFFICES ASSUME TypeOK, [Next]_vars PROVE Sequences'
  OBVIOUS
<1> USE DEF TypeOK, Sequences
<1>1. ASSUME NEW i \in Conns, HandleData(i) PROVE Sequences'
  BY <1>1, Added, "get" \in Writing DEF HandleData, Writing
<1>2. ASSUME NEW i \in Conns, Send(i) PROVE Sequences'
  <2>1. sent \in [Conns -> Seq(Nat)] /\ taken[i] \in Nat
    OBVIOUS
  <2>2. [sent EXCEPT ![i] = Append(@, taken[i])] \in [Conns -> Seq(Nat)]
    BY <2>1, Added
  <2>3. QED
    BY <1>2, <2>1, <2>2 DEF Send, At, ForwarderOnly
<1>3. ASSUME NEW i \in Conns, NEW n \in DOMAIN writer[i], Writer(i, n)
      PROVE  Sequences'
  <2>1. /\ n \in 1..Len(writer[i]) /\ n \in Nat
        /\ {"get", "write", "shut", "remove", "done"} = Writing
    BY Handlers DEF Writing
  <2>2. PICK e \in Writing : writer' = [writer EXCEPT ![i][n] = e]
    BY <1>3, <2>1 DEF Writer, GetForData, Write, WriteFails, ShutByWriter,
       RemoveByWriter, Writes
  <2>3. writer' \in [Conns -> Seq(Writing)]
    BY <2>2, Replaced
  <2>4. written \in [Conns -> Seq(Nat)]
    OBVIOUS
  <2>5. [written EXCEPT ![i] = Append(@, n)] \in [Conns -> Seq(Nat)]
    BY <2>1, <2>4, Added
  <2>6. written' \in [Conns -> Seq(Nat)] /\ sent' = sent
    BY <1>3, <2>4, <2>5 DEF Writer, GetForData, Write, WriteFails,
       ShutByWriter, RemoveByWriter, Writes, WriterOnly
  <2>7. QED
    BY <2>3, <2>6
<1>4. ASSUME NEW i \in Conns,
             HandleStart(i) \/ HandleClose(i) \/ Starter(i) \/ ReadChunk(i) \/
             ReadEnds(i) \/ ReadFails(i) \/ Shut(i) \/ Unregister(i) \/ Ender(i)
      PROVE  Sequences'
  BY <1>4 DEF HandleStart, HandleClose, Starter, Dial, Register, Refuse,
     StarterOnly, ReadChunk, ReadEnds, ReadFails, Shut, Unregister,
     ForwarderOnly, Ender, GetForClose, ShutByEnder, RemoveByEnder, EnderOnly
<1>5. ASSUME Sweep \/ Stop \/ LinkChanges \/ UNCHANGED vars PROVE Sequences'
  BY <1>5 DEF Sweep, Stop, LinkChanges, vars
<1>6. QED
  BY <1>1, <1>2, <1>3, <1>4, <1>5 DEF Next, Gateway, Forwarder

(* One step keeps the types.                                               *)
LEMMA TypeStep == TypeOK /\ [Next]_vars => TypeOK'
BY DataStep, FlagStep, MapStep, SequencesStep
   DEF TypeOK, Data, Flags, Map, Sequences

-----------------------------------------------------------------------------
(* A step keeps Started. *)
LEMMA StartedStep == Inv /\ [Next]_vars => Started'
<1> SUFFICES ASSUME Inv, [Next]_vars PROVE Started'
  OBVIOUS
<1> USE DEF Inv, TypeOK, Started, Found, Starting, Forwarding
<1>1. ASSUME NEW i \in Conns,
             HandleStart(i) \/ HandleData(i) \/ HandleClose(i)
      PROVE  Started'
  BY <1>1
     DEF HandleStart, Linked, HandleData, HandleClose
<1>2. ASSUME NEW i \in Conns,
             Dial(i) \/ Register(i) \/ Refuse(i)
      PROVE  Started'
  BY <1>2
     DEF Dial, StarterOnly, Tell, Linked, Register, Refuse, CloseTunnels
<1>3. ASSUME NEW i \in Conns,
             ReadChunk(i) \/ ReadEnds(i) \/ ReadFails(i) \/ Send(i) \/
             Shut(i) \/ Unregister(i)
      PROVE  Started'
  BY <1>3
     DEF ReadChunk, ForwarderOnly, At, ReadEnds, ReadFails, Send, Linked,
         Shut, CloseTunnels, Unregister, Remove, Tell
<1>4. ASSUME NEW i \in Conns,
             GetForClose(i) \/ ShutByEnder(i) \/ RemoveByEnder(i)
      PROVE  Started'
  BY <1>4
     DEF GetForClose, EnderOnly, Ends, ShutByEnder, CloseTunnels,
         RemoveByEnder, Remove
<1>5. ASSUME NEW i \in Conns, NEW n \in DOMAIN writer[i],
             GetForData(i, n) \/ Write(i, n) \/ WriteFails(i, n) \/
             ShutByWriter(i, n) \/ RemoveByWriter(i, n)
      PROVE  Started'
  BY <1>5, Handlers
     DEF GetForData, WriterOnly, Writes, Write, WriteFails, ShutByWriter,
         CloseTunnels, RemoveByWriter, Remove, Tell, Linked
<1>6. ASSUME Sweep \/ Stop \/ LinkChanges
      PROVE  Started'
  BY <1>6
     DEF Sweep, CloseTunnels, Stop, LinkChanges, LinkLost, LinkBack
<1>7. CASE UNCHANGED vars
  BY <1>7 DEF vars
<1>8. QED
  BY <1>1, <1>2, <1>3, <1>4, <1>5, <1>6, <1>7
     DEF Next, Gateway, Starter, Forwarder, Writer, Ender

(* What a step of the writers' goroutines does to their stages.            *)
LEMMA WriterMoves ==
  ASSUME TypeOK, NEW i \in Conns, NEW n \in DOMAIN writer[i],
         NEW here, NEW next \in Writing, Writes(i, n, here, next)
  PROVE  /\ n \in 1..Len(writer[i]) /\ writer[i][n] = here
         /\ \A j \in Conns : Len(writer'[j]) = Len(writer[j])
         /\ \A j \in Conns : \A m \in 1..Len(writer[j]) :
              writer'[j][m] = IF j = i /\ m = n THEN next ELSE writer[j][m]
<1>1. writer \in [Conns -> Seq(Writing)]
  BY DEF TypeOK
<1>2. QED
  BY <1>1, Replaced DEF Writes

(* Which steps a writer's goroutine takes.                                 *)
LEMMA WriterSteps ==
  ASSUME TypeOK, NEW i \in Conns, NEW n \in DOMAIN writer[i], Writer(i, n)
  PROVE  \E here \in Writing, next \in Writing :
           /\ Writes(i, n, here, next)
           /\ here # "done"
           /\ here = "get" => i \in tcp \/ next = "done"
           /\ next = "remove" => conn'[i] = "closed"
<1> USE DEF Writing
<1>1. CASE GetForData(i, n)
  BY <1>1 DEF GetForData
<1>2. CASE Write(i, n)
  BY <1>2 DEF Write
<1>3. CASE WriteFails(i, n)
  BY <1>3 DEF WriteFails
<1>4. CASE ShutByWriter(i, n)
  BY <1>4 DEF ShutByWriter, CloseTunnels
<1>5. CASE RemoveByWriter(i, n)
  BY <1>5 DEF RemoveByWriter
<1>6. QED
  BY <1>1, <1>2, <1>3, <1>4, <1>5 DEF Writer

(* A new goroutine begins by looking for its tunnel.                       *)
LEMMA WriterBegins ==
  ASSUME TypeOK, NEW i \in Conns, HandleData(i)
  PROVE  \A j \in Conns : \A m \in 1..Len(writer'[j]) :
           \/ m \in 1..Len(writer[j]) /\ writer'[j][m] = writer[j][m]
           \/ writer'[j][m] = "get"
<1>1. /\ writer \in [Conns -> Seq(Writing)] /\ "get" \in Writing
      /\ writer' = [writer EXCEPT ![i] = Append(@, "get")]
  BY DEF TypeOK, HandleData, Writing
<1>2. /\ Len(writer[i]) \in Nat /\ Len(writer'[i]) = Len(writer[i]) + 1
      /\ \A m \in 1..Len(writer[i]) : writer'[i][m] = writer[i][m]
      /\ writer'[i][Len(writer[i]) + 1] = "get"
      /\ \A j \in Conns : j # i => writer'[j] = writer[j]
  BY <1>1, Added
<1>3. ASSUME NEW m \in 1..Len(writer'[i])
      PROVE  m \in 1..Len(writer[i]) \/ m = Len(writer[i]) + 1
  BY <1>2
<1>4. QED
  BY <1>2, <1>3

(* A step keeps Found. *)
LEMMA FoundStep == Inv /\ [Next]_vars => Found'
<1> SUFFICES ASSUME Inv, [Next]_vars PROVE Found'
  OBVIOUS
<1> USE DEF Inv, TypeOK, Started, Found, Forwarding
<1>1. ASSUME NEW i \in Conns, HandleData(i) PROVE Found'
  BY <1>1, WriterBegins DEF HandleData
<1>2. ASSUME NEW i \in Conns, NEW n \in DOMAIN writer[i], Writer(i, n)
      PROVE  Found'
  <2>1. PICK here \in Writing, next \in Writing :
          /\ Writes(i, n, here, next)
          /\ here # "done"
          /\ here = "get" => i \in tcp \/ next = "done"
    BY <1>2, WriterSteps
  <2>2. /\ n \in 1..Len(writer[i]) /\ writer[i][n] = here
        /\ \A j \in Conns : Len(writer'[j]) = Len(writer[j])
        /\ \A j \in Conns : \A m \in 1..Len(writer[j]) :
             writer'[j][m] = IF j = i /\ m = n THEN next ELSE writer[j][m]
    BY <2>1, WriterMoves
  <2>3. tcp' \subseteq tcp /\ forwarder' = forwarder /\ ender' = ender
    BY <1>2 DEF Writer, GetForData, Write, WriteFails, ShutByWriter,
       RemoveByWriter, Remove, WriterOnly
  <2>4. next \in {"write", "shut", "remove"} => forwarder[i] # "none"
    BY <2>1, <2>2 DEF Writing
  <2>5. ASSUME NEW j \in Conns, NEW m \in 1..Len(writer'[j]),
               writer'[j][m] \in {"write", "shut", "remove"}
        PROVE  forwarder'[j] # "none"
    <3>1. m \in 1..Len(writer[j])
      BY <2>2
    <3>2. CASE j = i /\ m = n
      BY <2>2, <2>3, <2>4, <2>5, <3>1, <3>2
    <3>3. CASE ~(j = i /\ m = n)
      BY <2>2, <2>3, <2>5, <3>1, <3>3
    <3>4. QED
      BY <3>2, <3>3
  <2>6. \A j \in Conns :
          /\ j \in tcp' => forwarder'[j] # "none"
          /\ ender'[j] \in {"shut", "remove"} => forwarder'[j] # "none"
    BY <2>3
  <2>7. QED
    BY <2>5, <2>6
<1>3. ASSUME NEW i \in Conns,
             HandleStart(i) \/ HandleClose(i) \/ Starter(i)
      PROVE  Found'
  BY <1>3 DEF HandleStart, HandleClose, Starter, Dial, Register, Refuse,
     StarterOnly
<1>4. ASSUME NEW i \in Conns, Forwarder(i) PROVE Found'
  BY <1>4 DEF Forwarder, ReadChunk, ReadEnds, ReadFails, Send, Shut,
     Unregister, Remove, ForwarderOnly, At
<1>5. ASSUME NEW i \in Conns, Ender(i) PROVE Found'
  BY <1>5 DEF Ender, GetForClose, ShutByEnder, RemoveByEnder, Remove,
     EnderOnly, Ends
<1>6. ASSUME Sweep \/ Stop \/ LinkChanges \/ UNCHANGED vars PROVE Found'
  BY <1>6 DEF Sweep, Stop, LinkChanges, vars
<1>7. QED
  BY <1>1, <1>2, <1>3, <1>4, <1>5, <1>6 DEF Next, Gateway

(* A step keeps Shuts: a closed connection stays closed. *)
LEMMA ShutsStep == Inv /\ [Next]_vars => Shuts'
<1> SUFFICES ASSUME Inv, [Next]_vars PROVE Shuts'
  OBVIOUS
<1> USE DEF Inv, TypeOK, Started, Shuts, Forwarding
<1>1. ASSUME NEW i \in Conns, HandleData(i) PROVE Shuts'
  BY <1>1, WriterBegins DEF HandleData
<1>2. ASSUME NEW i \in Conns, NEW n \in DOMAIN writer[i], Writer(i, n)
      PROVE  Shuts'
  <2>1. PICK here \in Writing, next \in Writing :
          /\ Writes(i, n, here, next)
          /\ next = "remove" => conn'[i] = "closed"
    BY <1>2, WriterSteps
  <2>2. /\ \A j \in Conns : Len(writer'[j]) = Len(writer[j])
        /\ \A j \in Conns : \A m \in 1..Len(writer[j]) :
             writer'[j][m] = IF j = i /\ m = n THEN next ELSE writer[j][m]
    BY <2>1, WriterMoves
  <2>3. /\ forwarder' = forwarder /\ ender' = ender
        /\ \A j \in Conns : conn[j] = "closed" => conn'[j] = "closed"
    BY <1>2 DEF Writer, GetForData, Write, WriteFails, ShutByWriter,
       RemoveByWriter, WriterOnly, CloseTunnels
  <2>4. \A j \in Conns : \A m \in 1..Len(writer[j]) :
          writer'[j][m] = "remove" => conn'[j] = "closed"
    BY <2>1, <2>2, <2>3
  <2>5. \A j \in Conns :
          /\ forwarder'[j] \in {"remove", "done"} => conn'[j] = "closed"
          /\ ender'[j] = "remove" => conn'[j] = "closed"
    BY <2>3
  <2>6. QED
    BY <2>2, <2>4, <2>5
<1>3. ASSUME NEW i \in Conns,
             HandleStart(i) \/ HandleClose(i) \/ Starter(i)
      PROVE  Shuts'
  BY <1>3 DEF HandleStart, HandleClose, Starter, Dial, Register, Refuse,
     StarterOnly, CloseTunnels
<1>4. ASSUME NEW i \in Conns, Forwarder(i) PROVE Shuts'
  BY <1>4 DEF Forwarder, ReadChunk, ReadEnds, ReadFails, Send, Shut,
     Unregister, ForwarderOnly, At, CloseTunnels
<1>5. ASSUME NEW i \in Conns, Ender(i) PROVE Shuts'
  BY <1>5 DEF Ender, GetForClose, ShutByEnder, RemoveByEnder, EnderOnly,
     Ends, CloseTunnels
<1>6. ASSUME Sweep \/ Stop \/ LinkChanges \/ UNCHANGED vars PROVE Shuts'
  BY <1>6 DEF Sweep, Stop, LinkChanges, vars, CloseTunnels
<1>7. QED
  BY <1>1, <1>2, <1>3, <1>4, <1>5, <1>6 DEF Next, Gateway

(* A step keeps Reachable: who removes has closed. *)
LEMMA ReachableStep == Inv /\ [Next]_vars => Reachable'
<1> SUFFICES ASSUME Inv, [Next]_vars PROVE Reachable'
  OBVIOUS
<1> USE DEF Inv, TypeOK, Started, Shuts, Reachable
<1>1. ASSUME NEW i \in Conns,
             HandleStart(i) \/ HandleData(i) \/ HandleClose(i)
      PROVE  Reachable'
  BY <1>1
     DEF HandleStart, Linked, HandleData, HandleClose
<1>2. ASSUME NEW i \in Conns,
             Dial(i) \/ Register(i) \/ Refuse(i)
      PROVE  Reachable'
  BY <1>2
     DEF Dial, StarterOnly, Tell, Linked, Register, Refuse, CloseTunnels
<1>3. ASSUME NEW i \in Conns,
             ReadChunk(i) \/ ReadEnds(i) \/ ReadFails(i) \/ Send(i) \/
             Shut(i) \/ Unregister(i)
      PROVE  Reachable'
  BY <1>3
     DEF ReadChunk, ForwarderOnly, At, ReadEnds, ReadFails, Send, Linked,
         Shut, CloseTunnels, Unregister, Remove, Tell
<1>4. ASSUME NEW i \in Conns,
             GetForClose(i) \/ ShutByEnder(i) \/ RemoveByEnder(i)
      PROVE  Reachable'
  BY <1>4
     DEF GetForClose, EnderOnly, Ends, ShutByEnder, CloseTunnels,
         RemoveByEnder, Remove
<1>5. ASSUME NEW i \in Conns, NEW n \in DOMAIN writer[i],
             GetForData(i, n) \/ Write(i, n) \/ WriteFails(i, n) \/
             ShutByWriter(i, n) \/ RemoveByWriter(i, n)
      PROVE  Reachable'
  BY <1>5, Handlers
     DEF GetForData, WriterOnly, Writes, Write, WriteFails, ShutByWriter,
         CloseTunnels, RemoveByWriter, Remove, Tell, Linked
<1>6. ASSUME Sweep \/ Stop \/ LinkChanges
      PROVE  Reachable'
  BY <1>6
     DEF Sweep, CloseTunnels, Stop, LinkChanges, LinkLost, LinkBack
<1>7. CASE UNCHANGED vars
  BY <1>7 DEF vars
<1>8. QED
  BY <1>1, <1>2, <1>3, <1>4, <1>5, <1>6, <1>7
     DEF Next, Gateway, Starter, Forwarder, Writer, Ender

(* A step keeps SlotFreed. *)
LEMMA SlotFreedStep == Inv /\ [Next]_vars => SlotFreed'
<1> SUFFICES ASSUME Inv, [Next]_vars PROVE SlotFreed'
  OBVIOUS
<1> USE DEF Inv, TypeOK, Found, SlotFreed, Forwarding
<1>1. ASSUME NEW i \in Conns,
             HandleStart(i) \/ HandleData(i) \/ HandleClose(i)
      PROVE  SlotFreed'
  BY <1>1
     DEF HandleStart, Linked, HandleData, HandleClose
<1>2. ASSUME NEW i \in Conns,
             Dial(i) \/ Register(i) \/ Refuse(i)
      PROVE  SlotFreed'
  BY <1>2
     DEF Dial, StarterOnly, Tell, Linked, Register, Refuse, CloseTunnels
<1>3. ASSUME NEW i \in Conns,
             ReadChunk(i) \/ ReadEnds(i) \/ ReadFails(i) \/ Send(i) \/
             Shut(i) \/ Unregister(i)
      PROVE  SlotFreed'
  BY <1>3
     DEF ReadChunk, ForwarderOnly, At, ReadEnds, ReadFails, Send, Linked,
         Shut, CloseTunnels, Unregister, Remove, Tell
<1>4. ASSUME NEW i \in Conns,
             GetForClose(i) \/ ShutByEnder(i) \/ RemoveByEnder(i)
      PROVE  SlotFreed'
  BY <1>4
     DEF GetForClose, EnderOnly, Ends, ShutByEnder, CloseTunnels,
         RemoveByEnder, Remove
<1>5. ASSUME NEW i \in Conns, NEW n \in DOMAIN writer[i],
             GetForData(i, n) \/ Write(i, n) \/ WriteFails(i, n) \/
             ShutByWriter(i, n) \/ RemoveByWriter(i, n)
      PROVE  SlotFreed'
  BY <1>5, Handlers
     DEF GetForData, WriterOnly, Writes, Write, WriteFails, ShutByWriter,
         CloseTunnels, RemoveByWriter, Remove, Tell, Linked
<1>6. ASSUME Sweep \/ Stop \/ LinkChanges
      PROVE  SlotFreed'
  BY <1>6
     DEF Sweep, CloseTunnels, Stop, LinkChanges, LinkLost, LinkBack
<1>7. CASE UNCHANGED vars
  BY <1>7 DEF vars
<1>8. QED
  BY <1>1, <1>2, <1>3, <1>4, <1>5, <1>6, <1>7
     DEF Next, Gateway, Starter, Forwarder, Writer, Ender

-----------------------------------------------------------------------------
(* What Send appends is the chunk that comes next.                         *)
LEMMA SentNext ==
  ASSUME TypeOK, NEW i \in Conns,
         sent' = [sent EXCEPT ![i] = Append(@, taken[i])]
  PROVE  /\ Len(sent[i]) \in Nat /\ Len(sent'[i]) = Len(sent[i]) + 1
         /\ \A m \in 1..Len(sent[i]) : sent'[i][m] = sent[i][m]
         /\ sent'[i][Len(sent[i]) + 1] = taken[i]
         /\ \A j \in Conns : j # i => sent'[j] = sent[j]
<1>1. sent \in [Conns -> Seq(Nat)] /\ taken[i] \in Nat
  BY DEF TypeOK
<1>2. QED
  BY <1>1, Added

(* A step keeps the account of the replies and their order.                *)
LEMMA RelayedStep == Inv /\ [Next]_vars => Relayed' /\ RepliesInOrder'
<1> SUFFICES ASSUME Inv, [Next]_vars PROVE Relayed' /\ RepliesInOrder'
  OBVIOUS
<1> USE DEF Inv, TypeOK, Started, Relayed, RepliesInOrder, Forwarding
<1>0. \A j \in Conns : Len(sent[j]) \in Nat
  OBVIOUS
<1>1. ASSUME NEW i \in Conns, Send(i), Linked
      PROVE  Relayed' /\ RepliesInOrder'
  <2>1. /\ forwarder[i] = "send" /\ taken' = taken
        /\ forwarder' = [forwarder EXCEPT ![i] = "read"]
        /\ sent' = [sent EXCEPT ![i] = Append(@, taken[i])]
        /\ taken[i] = Len(sent[i]) + 1
    BY <1>1 DEF Send, At
  <2>2. Relayed'
    BY <2>1, SentNext
  <2>3. ASSUME NEW k \in 1..Len(sent'[i]) PROVE sent'[i][k] = k
    <3>1. k \in 1..Len(sent[i]) \/ k = Len(sent[i]) + 1
      BY <2>1, SentNext
    <3>2. QED
      BY <2>1, <3>1, SentNext
  <2>4. \A j \in Conns : j # i => sent'[j] = sent[j]
    BY <2>1, SentNext
  <2>5. QED
    BY <2>2, <2>3, <2>4
<1>2. ASSUME NEW i \in Conns, Send(i), ~Linked
      PROVE  Relayed' /\ RepliesInOrder'
  BY <1>2 DEF Send, At
<1>3. ASSUME NEW i \in Conns, ReadChunk(i) PROVE Relayed' /\ RepliesInOrder'
  BY <1>0, <1>3 DEF ReadChunk, At, ForwarderOnly
<1>4. ASSUME NEW i \in Conns,
             ReadEnds(i) \/ ReadFails(i) \/ Shut(i) \/ Unregister(i)
      PROVE  Relayed' /\ RepliesInOrder'
  BY <1>4 DEF ReadEnds, ReadFails, Shut, Unregister, At, ForwarderOnly
<1>5. ASSUME NEW i \in Conns, Gateway(i) \/ Starter(i) \/ Ender(i)
      PROVE  Relayed' /\ RepliesInOrder'
  BY <1>5 DEF Gateway, HandleStart, HandleData, HandleClose, Starter, Dial,
     Register, Refuse, StarterOnly, Ender, GetForClose, ShutByEnder,
     RemoveByEnder, EnderOnly
<1>6. ASSUME NEW i \in Conns, NEW n \in DOMAIN writer[i], Writer(i, n)
      PROVE  Relayed' /\ RepliesInOrder'
  BY <1>6 DEF Writer, GetForData, Write, WriteFails, ShutByWriter,
     RemoveByWriter, WriterOnly
<1>7. ASSUME Sweep \/ Stop \/ LinkChanges \/ UNCHANGED vars
      PROVE  Relayed' /\ RepliesInOrder'
  BY <1>7 DEF Sweep, Stop, LinkChanges, vars
<1>8. QED
  BY <1>1, <1>2, <1>3, <1>4, <1>5, <1>6, <1>7 DEF Next, Forwarder

-----------------------------------------------------------------------------
(* The invariant holds at the start ...                                    *)
LEMMA InitInv == Init => Inv
<1> SUFFICES ASSUME Init PROVE Inv
  OBVIOUS
<1>1. Cardinality(tcp) <= MaxConns
  <2>1. Cardinality({}) = 0 /\ tcp = {}
    BY FS_EmptySet DEF Init
  <2>2. QED
    BY <2>1, TunnelsAssumption
<1>2. TypeOK
  <2>1. /\ [i \in Conns |-> <<>>] \in [Conns -> Seq(Writing)]
        /\ [i \in Conns |-> <<>>] \in [Conns -> Seq(Nat)]
    OBVIOUS
  <2>2. [i \in Conns |-> FALSE] \in [Conns -> BOOLEAN]
    OBVIOUS
  <2>3. Data
    BY DEF Init, Data, Starting, Forwarding, Ending
  <2>4. QED
    BY <1>1, <2>1, <2>2, <2>3 DEF Init, TypeOK, Data
<1>3. QED
  BY <1>2 DEF Init, Inv, Started, Found, Shuts, Reachable, SlotFreed,
     Relayed, RepliesInOrder

(* ... and always.                                                         *)
THEOREM Invariance == Spec => []Inv
<1>1. Inv /\ [Next]_vars => Inv'
  BY TypeStep, StartedStep, FoundStep, ShutsStep, ReachableStep,
     SlotFreedStep, RelayedStep DEF Inv
<1>2. QED
  BY InitInv, <1>1, PTL DEF Spec

(* Every variable keeps its type, and no more tunnels than the limit are   *)
(* registered (RegisterTCPConnection).                                     *)
THEOREM TunnelTypes == Spec => []TypeOK
<1>1. Inv => TypeOK
  BY DEF Inv
<1>2. QED
  BY Invariance, <1>1, PTL

(* No open connection is out of the reach of the map, whichever of the     *)
(* five clean-ups ran (TCPTunnel.Close, RemoveTCPConnection).              *)
THEOREM OpenIsReachable == Spec => []Reachable
<1>1. Inv => Reachable
  BY DEF Inv
<1>2. QED
  BY Invariance, <1>1, PTL

(* No slot outlives its forwarder (forwardServiceToGateway's clean-up).    *)
THEOREM SlotsComeBack == Spec => []SlotFreed
<1>1. Inv => SlotFreed
  BY DEF Inv
<1>2. QED
  BY Invariance, <1>1, PTL

(* The map lists the open connections and those about to leave it          *)
(* (RegisterTCPConnection, RemoveTCPConnection).                           *)
THEOREM MapAgrees == Spec => []Listed
<1>1. Inv => Listed
  BY DEF Inv, Listed
<1>2. QED
  BY Invariance, <1>1, PTL

(* The gateway gets a prefix of what the service said                      *)
(* (forwardServiceToGateway).                                              *)
THEOREM RepliesKeepOrder == Spec => []RepliesInOrder
<1>1. Inv => RepliesInOrder
  BY DEF Inv
<1>2. QED
  BY Invariance, <1>1, PTL

-----------------------------------------------------------------------------
(* What ServiceRelay sees of tunnel i.                                     *)
LEMMA Unseen ==
  ASSUME NEW i \in Conns, i \in tcp' <=> i \in tcp,
         conn'[i] = conn[i], forwarder'[i] = forwarder[i],
         taken'[i] = taken[i], sent'[i] = sent[i]
  PROVE  UNCHANGED Life(i)!relay
BY DEF Life!relay, Entry, Reading

(* A step of another tunnel is not seen.                                   *)
LEMMA OthersUnseen ==
  ASSUME Inv, NEW i \in Conns, NEW j \in Conns, j # i,
         \/ Gateway(j) \/ Starter(j) \/ Forwarder(j) \/ Ender(j)
         \/ \E n \in DOMAIN writer[j] : Writer(j, n)
  PROVE  UNCHANGED Life(i)!relay
<1> DEFINE Same == /\ i \in tcp' <=> i \in tcp
                   /\ conn'[i] = conn[i] /\ forwarder'[i] = forwarder[i]
                   /\ taken'[i] = taken[i] /\ sent'[i] = sent[i]
<1>0. SUFFICES Same
  BY Unseen
<1> USE DEF Inv, TypeOK
<1>1. CASE Gateway(j)
  BY <1>1 DEF Gateway, HandleStart, HandleData, HandleClose
<1>2. CASE Starter(j)
  BY <1>2 DEF Starter, Dial, Register, Refuse, StarterOnly, CloseTunnels
<1>3. CASE Forwarder(j)
  BY <1>3 DEF Forwarder, ReadChunk, ReadEnds, ReadFails, Send, Shut,
     Unregister, Remove, ForwarderOnly, At, CloseTunnels
<1>4. CASE Ender(j)
  BY <1>4 DEF Ender, GetForClose, ShutByEnder, RemoveByEnder, Remove,
     EnderOnly, Ends, CloseTunnels
<1>5. ASSUME NEW n \in DOMAIN writer[j], Writer(j, n) PROVE Same
  BY <1>5 DEF Writer, GetForData, Write, WriteFails, ShutByWriter,
     RemoveByWriter, Remove, WriterOnly, Writes, CloseTunnels
<1>6. QED
  BY <1>1, <1>2, <1>3, <1>4, <1>5

(* A step of tunnel i is one of ServiceRelay or is not seen.               *)
LEMMA LifeStep ==
  ASSUME Inv, [Next]_vars, NEW i \in Conns
  PROVE  [Life(i)!Next]_(Life(i)!relay)
<1> USE DEF Inv, TypeOK, Started
<1>1. CASE Gateway(i)
  BY <1>1, Unseen DEF Gateway, HandleStart, HandleData, HandleClose
<1>2. CASE Dial(i)
  BY <1>2, Unseen DEF Dial, StarterOnly, Entry, Reading, Life!Next, Life!Dial
<1>3. CASE Register(i)
  BY <1>3 DEF Register, StarterOnly, Entry, Reading, Life!Next, Life!List
<1>4. CASE Refuse(i)
  BY <1>4 DEF Refuse, StarterOnly, Found, CloseTunnels, Entry, Reading,
     Life!Next, Life!HangUp
<1>5. CASE ReadChunk(i)
  BY <1>5 DEF ReadChunk, ForwarderOnly, At, Reachable, Relayed, Entry, Reading,
     Life!Next, Life!Read
<1>6. CASE ReadEnds(i) \/ ReadFails(i)
  BY <1>6 DEF ReadEnds, ReadFails, ForwarderOnly, At, Entry, Reading, Life!relay
<1>7. CASE Send(i)
  <2>1. CASE Linked
    BY <1>7, <2>1 DEF Send, ForwarderOnly, At, Relayed, Entry, Reading,
       Life!Next, Life!Pass
  <2>2. CASE ~Linked
    BY <1>7, <2>2 DEF Send, ForwarderOnly, At, Entry, Reading, Life!relay
  <2>3. QED
    BY <2>1, <2>2
<1>8. CASE Shut(i)
  BY <1>8 DEF Shut, ForwarderOnly, At, CloseTunnels, Entry, Reading,
     Life!Next, Life!HangUp, Life!relay
<1>9. CASE Unregister(i)
  BY <1>9 DEF Unregister, Remove, ForwarderOnly, At, Shuts, Entry, Reading,
     Life!Next, Life!Return
<1>10. CASE Ender(i)
  <2>1. CASE GetForClose(i)
    BY <2>1, Unseen DEF GetForClose, EnderOnly
  <2>2. CASE ShutByEnder(i)
    BY <2>2 DEF ShutByEnder, EnderOnly, Ends, CloseTunnels, Found, Entry,
       Reading, Life!Next, Life!HangUp, Life!relay
  <2>3. CASE RemoveByEnder(i)
    BY <2>3 DEF RemoveByEnder, EnderOnly, Ends, Remove, Found, Shuts, Entry,
       Reading, Life!Next, Life!Unlist, Life!relay
  <2>4. QED
    BY <1>10, <2>1, <2>2, <2>3 DEF Ender
<1>11. ASSUME NEW n \in DOMAIN writer[i], Writer(i, n)
       PROVE  [Life(i)!Next]_(Life(i)!relay)
  <2>1. CASE GetForData(i, n) \/ Write(i, n) \/ WriteFails(i, n)
    BY <2>1, Unseen DEF GetForData, Write, WriteFails, WriterOnly
  <2>2. CASE ShutByWriter(i, n)
    BY <2>2, Handlers DEF ShutByWriter, WriterOnly, Writes, CloseTunnels, Found,
       Entry, Reading, Life!Next, Life!HangUp, Life!relay
  <2>3. CASE RemoveByWriter(i, n)
    BY <2>3, Handlers DEF RemoveByWriter, WriterOnly, Writes, Remove, Found,
       Shuts, Entry, Reading, Life!Next, Life!Unlist, Life!relay
  <2>4. QED
    BY <1>11, <2>1, <2>2, <2>3 DEF Writer
<1>12. CASE Sweep \/ Stop
  <2>1. PICK S \in SUBSET tcp :
          /\ CloseTunnels(S) /\ tcp' = tcp \ S
          /\ UNCHANGED <<forwarder, taken, sent>>
    BY <1>12 DEF Sweep, Stop
  <2>2. CASE i \in S
    <3>1. /\ i \in tcp /\ i \notin tcp' /\ conn'[i] = "closed"
          /\ conn[i] \in {"open", "closed"} /\ forwarder[i] # "none"
      BY <2>1, <2>2 DEF CloseTunnels, Found
    <3>2. /\ Entry(i) = "listed" /\ Entry(i)' = "gone"
          /\ UNCHANGED <<Reading(i), taken[i], sent[i]>>
      BY <2>1, <3>1 DEF Entry, Reading
    <3>3. QED
      BY <3>1, <3>2 DEF Life!Next, Life!HangUp, Life!Unlist
  <2>3. CASE i \notin S
    BY <2>1, <2>3, Unseen DEF CloseTunnels
  <2>4. QED
    BY <2>2, <2>3
<1>13. CASE LinkChanges \/ UNCHANGED vars
  BY <1>13, Unseen DEF LinkChanges, vars
<1>14. QED
  BY <1>1, <1>2, <1>3, <1>4, <1>5, <1>6, <1>7, <1>8, <1>9, <1>10, <1>11,
     <1>12, <1>13, OthersUnseen DEF Next, Starter, Forwarder

(* Every tunnel, started and ended by whomever, is one life of a           *)
(* ServiceRelay that closes first (HandleTCPTunnelStart,                   *)
(* forwardServiceToGateway, TCPTunnel.Close, RemoveTCPConnection).         *)
THEOREM EachTunnelOnce == Spec => OneLife
<1>1. Init => \A i \in Conns : Life(i)!Init
  BY DEF Init, Life!Init, Entry, Reading
<1>2. Inv /\ [Next]_vars => \A i \in Conns : [Life(i)!Next]_(Life(i)!relay)
  BY LifeStep
<1>3. QED
  BY <1>1, <1>2, Invariance, PTL DEF Spec, OneLife

(* The same, tunnel by tunnel.                                             *)
THEOREM ImplementsServiceRelay ==
  ASSUME NEW i \in Conns PROVE Spec => Life(i)!Spec
<1>1. Init => Life(i)!Init
  BY DEF Init, Life!Init, Entry, Reading
<1>2. Inv /\ [Next]_vars => [Life(i)!Next]_(Life(i)!relay)
  BY LifeStep
<1>3. QED
  BY <1>1, <1>2, Invariance, PTL DEF Spec, Life!Spec
=============================================================================
