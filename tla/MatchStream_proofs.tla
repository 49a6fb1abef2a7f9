--------------------------- MODULE MatchStream_proofs ---------------------------
(***************************************************************************)
(* Proofs about MatchStream for every set of tickets, every chunk size and *)
(* every behaviour of the client.                                          *)
(***************************************************************************)
EXTENDS MatchStream, Grouping_proofs

-----------------------------------------------------------------------------
(* Type correctness.                                                       *)

\* Every step keeps the variables in their types.
LEMMA TypeInductive == TypeOK /\ PhaseInv /\ [Next]_vars => TypeOK'
  <1> SUFFICES ASSUME TypeOK, PhaseInv, [Next]_vars PROVE TypeOK'
    OBVIOUS
  <1> USE DEF TypeOK, streamVars, readerVars, workerVars, senderVars
  <1>1. ASSUME Recv
        PROVE  /\ inbox # <<>> /\ Head(inbox) \in Messages
               /\ inbox' \in Seq(Messages) /\ UNCHANGED <<sent, eof, broken>>
    BY <1>1, ElementsTail DEF Recv
  <1>2. ASSUME NEW m \in Messages, ClientSends(m) PROVE TypeOK'
    BY <1>2, ElementsAppend DEF ClientSends
  <1>3. CASE ClientCloses
    BY <1>3 DEF ClientCloses
  <1>4. CASE ClientBreaks
    BY <1>4 DEF ClientBreaks
  <1>5. CASE Start
    BY <1>5, <1>1 DEF Start, PhaseInv
  <1>6. CASE Refuse
    BY <1>6, <1>1 DEF Refuse, RecvEnds
  <1>7. CASE Return
    BY <1>7 DEF Return
  <1>8. CASE RecvTicket
    BY <1>8, <1>1 DEF RecvTicket
  <1>9. CASE RecvOther
    BY <1>9, <1>1 DEF RecvOther
  <1>10. CASE ReaderEnds
    BY <1>10 DEF ReaderEnds, RecvEnds
  <1>11. CASE PushTicket
    <2>1. inHand \in Tickets
      BY <1>11 DEF PushTicket
    <2>2. QED
      BY <1>11, <2>1, ElementsAppend DEF PushTicket
  <1>12. CASE StartWorker
    BY <1>12, EmptySeq DEF StartWorker
  <1>13. CASE LastChunk
    BY <1>13 DEF LastChunk
  <1>14. CASE CloseResults
    BY <1>14 DEF CloseResults
  <1>15. ASSUME NEW w \in Tickets, MatchPlayers(w) PROVE TypeOK'
    <2>1. PICK g \in Groupings(Elements(work[w])) : out' = [out EXCEPT ![w] = g]
      BY <1>15 DEF MatchPlayers
    <2>2. work[w] \in Seq(Tickets)
      OBVIOUS
    <2>3. g \in Seq(SUBSET Tickets)
      BY <2>2, GroupingsType
    <2>4. QED
      BY <1>15, <2>1, <2>3 DEF MatchPlayers
  <1>16. ASSUME NEW w \in Tickets, TakeMatch(w) PROVE TypeOK'
    <2>1. out[w] \in Seq(SUBSET Tickets)
      OBVIOUS
    <2>2. Head(out[w]) \in SUBSET Tickets /\ Tail(out[w]) \in Seq(SUBSET Tickets)
      BY <1>16, <2>1, ElementsTail DEF TakeMatch
    <2>3. QED
      BY <1>16, <2>2 DEF TakeMatch
  <1>17. ASSUME NEW w \in Tickets, WorkerEnds(w) PROVE TypeOK'
    BY <1>17 DEF WorkerEnds
  <1>18. CASE SendMatch
    BY <1>18, ElementsAppend DEF SendMatch
  <1>19. CASE SendFails
    BY <1>19 DEF SendFails
  <1>20. CASE ResultsEnd
    BY <1>20 DEF ResultsEnd
  <1>21. CASE UNCHANGED vars
    BY <1>21 DEF vars
  <1>22. QED
    BY <1>2, <1>3, <1>4, <1>5, <1>6, <1>7, <1>8, <1>9, <1>10, <1>11, <1>12,
       <1>13, <1>14, <1>15, <1>16, <1>17, <1>18, <1>19, <1>20, <1>21
       DEF Next, Client, Server, Handler, Reader, Chunker, Worker, Sender, Finished

-----------------------------------------------------------------------------
(* The phases of the call.                                                 *)

\* Every step keeps the goroutines in phases that go together.
LEMMA PhaseInductive == IInv /\ [Next]_vars => PhaseInv'
  <1> SUFFICES ASSUME TypeOK, PhaseInv, OwnerInv, [Next]_vars PROVE PhaseInv'
    BY DEF IInv
  <1> USE DEF TypeOK, PhaseInv, AllWorkersEnded, streamVars, readerVars, workerVars, senderVars
  <1>1. CASE Client
    BY <1>1 DEF Client, ClientSends, ClientCloses, ClientBreaks
  <1>2. CASE Start
    BY <1>2 DEF Start
  <1>3. CASE Refuse
    BY <1>3 DEF Refuse
  <1>4. CASE Return
    BY <1>4 DEF Return
  <1>5. CASE Reader
    BY <1>5 DEF Reader, RecvTicket, RecvOther, ReaderEnds
  <1>6. CASE PushTicket
    BY <1>6 DEF PushTicket
  <1>7. CASE StartWorker
    BY <1>7 DEF StartWorker
  <1>8. CASE LastChunk
    BY <1>8, EmptySeq, StreamAssumption DEF LastChunk, ChunkEnds
  <1>9. CASE CloseResults
    BY <1>9 DEF CloseResults
  <1>10. ASSUME NEW w \in Tickets, MatchPlayers(w) PROVE PhaseInv'
    BY <1>10 DEF MatchPlayers
  <1>11. ASSUME NEW w \in Tickets, TakeMatch(w) PROVE PhaseInv'
    <2>1. Head(out[w]) # {}
      BY <1>11, ElementsTail DEF TakeMatch, OwnerInv, Waiting
    <2>2. QED
      BY <1>11, <2>1 DEF TakeMatch
  <1>12. ASSUME NEW w \in Tickets, WorkerEnds(w) PROVE PhaseInv'
    BY <1>12 DEF WorkerEnds
  <1>13. CASE SendMatch
    BY <1>13 DEF SendMatch
  <1>14. CASE SendFails
    BY <1>14 DEF SendFails
  <1>15. CASE ResultsEnd
    BY <1>15 DEF ResultsEnd
  <1>16. CASE UNCHANGED vars
    BY <1>16 DEF vars
  <1>17. QED
    BY <1>1, <1>2, <1>3, <1>4, <1>5, <1>6, <1>7, <1>8, <1>9, <1>10, <1>11,
       <1>12, <1>13, <1>14, <1>15, <1>16
       DEF Next, Server, Handler, Chunker, Worker, Sender, Finished

-----------------------------------------------------------------------------
(* A ticket is in one place.                                               *)

\* Receiving takes the head off the inbox: it is in no place any more, and it
\* was in no other.
LEMMA RecvPlaces ==
    ASSUME TypeOK, PlaceInv, Recv
    PROVE  /\ Elements(inbox') \subseteq Elements(inbox)
           /\ Head(inbox) \in Elements(inbox)
           /\ Head(inbox) \notin Elements(inbox')
           /\ \A i, j \in 1 .. Len(inbox') : i # j => inbox'[i] # inbox'[j]
           /\ sent' = sent
           /\ Taken' = Taken \cup ({Head(inbox)} \cap Tickets)
  <1>1. /\ inbox \in Seq(Messages) /\ inbox # <<>> /\ inbox' = Tail(inbox)
        /\ sent' = sent
    BY DEF Recv, TypeOK
  <1>2. \A i, j \in 1 .. Len(inbox) : i # j => inbox[i] # inbox[j]
    BY DEF PlaceInv
  <1>4. \A i, j \in 1 .. Len(inbox') : i # j => inbox'[i] # inbox'[j]
    BY <1>1, <1>2, TailDistinct
  <1>5. Head(inbox) \notin Elements(inbox')
    BY <1>1, <1>2, TailDistinct
  <1>6. /\ Elements(inbox') \subseteq Elements(inbox)
        /\ Head(inbox) \in Elements(inbox)
        /\ Elements(inbox) \subseteq Elements(inbox') \cup {Head(inbox)}
    BY <1>1, ElementsTail
  <1>7. Taken' = Taken \cup ({Head(inbox)} \cap Tickets)
    <2>1. Head(inbox) \in sent
      BY <1>6 DEF PlaceInv
    <2>2. QED
      BY <1>1, <1>5, <1>6, <2>1 DEF Taken
  <1>8. QED
    BY <1>1, <1>4, <1>5, <1>6, <1>7

\* Every step moves a ticket from one place to one other, or leaves it.
LEMMA PlaceInductive == IInv /\ [Next]_vars => PlaceInv'
  <1> SUFFICES ASSUME TypeOK, PhaseInv, PlaceInv, OwnerInv, [Next]_vars PROVE PlaceInv'
    BY DEF IInv
  <1>0. ASSUME UNCHANGED <<inHand, chunk, work>>
        PROVE  /\ inHand' = inHand /\ work' = work
               /\ Elements(chunk') = Elements(chunk)
               /\ Received' = Received
    BY <1>0 DEF Received
  <1>1. ASSUME UNCHANGED <<sent, inbox, inHand, chunk, work>>,
               main' = "params" => main = "params",
               chunker' # "idle" => chunker # "idle"
        PROVE  PlaceInv'
    <2>1. inbox' = inbox /\ sent' = sent /\ Taken' = Taken
      BY <1>1 DEF Taken
    <2>2. QED
      BY <1>0, <1>1, <2>1 DEF PlaceInv
  <1>2. ASSUME Recv, UNCHANGED <<inHand, chunk, work>>,
               main' # "params",
               chunker' = "idle" \/ (Head(inbox) \notin Tickets /\ (chunker # "idle" \/ main = "params"))
        PROVE  PlaceInv'
    <2>1. chunker' # "idle" => Taken' \subseteq Received'
      BY <1>0, <1>2, RecvPlaces DEF PlaceInv
    <2>2. QED
      BY <1>0, <1>2, <2>1, RecvPlaces DEF PlaceInv
  <1>3. ASSUME NEW m \in Messages, ClientSends(m) PROVE PlaceInv'
    <2>1. /\ UNCHANGED <<inHand, chunk, work>>
          /\ m \notin sent /\ sent' = sent \cup {m}
          /\ inbox' = Append(inbox, m)
      BY <1>3 DEF ClientSends, readerVars, workerVars
    <2>2. /\ inbox \in Seq(Messages)
          /\ Elements(inbox') = Elements(inbox) \cup {m}
          /\ Len(inbox) \in Nat
          /\ Len(inbox') = Len(inbox) + 1
          /\ \A i \in 1 .. Len(inbox) : inbox'[i] = inbox[i]
          /\ inbox'[Len(inbox) + 1] = m
      BY <2>1, ElementsAppend, LenProperties DEF TypeOK
    <2>3. /\ inHand' = inHand /\ work' = work
          /\ Elements(chunk') = Elements(chunk)
          /\ Received' = Received
      BY <2>1, <1>0
    <2>4. \A i \in 1 .. Len(inbox) : inbox[i] # m
      BY <2>1 DEF PlaceInv, Elements
    <2>5. ASSUME NEW i \in 1 .. Len(inbox'), NEW j \in 1 .. Len(inbox'), i # j
          PROVE  inbox'[i] # inbox'[j]
      <3>1. i \in 1 .. Len(inbox) \/ i = Len(inbox) + 1
        BY <2>2
      <3>2. j \in 1 .. Len(inbox) \/ j = Len(inbox) + 1
        BY <2>2
      <3>3. QED
        BY <2>2, <2>4, <2>5, <3>1, <3>2 DEF PlaceInv
    <2>6. m \notin Received
      BY <2>1 DEF PlaceInv
    <2>7. Taken' = Taken /\ main' = main /\ chunker' = chunker
      BY <1>3, <2>1, <2>2 DEF Taken, ClientSends
    <2>8. QED
      BY <2>1, <2>2, <2>3, <2>5, <2>6, <2>7 DEF PlaceInv
  <1>4. CASE RecvTicket
    <2>1. /\ Recv /\ Head(inbox) \in Tickets /\ inHand' = Head(inbox)
          /\ inHand = None
          /\ UNCHANGED <<chunk, work>>
      BY <1>4 DEF RecvTicket, TypeOK, workerVars
    <2>2. /\ inHand' # None
          /\ inHand' \in Elements(inbox)
          /\ inHand' \notin Elements(inbox')
      BY <2>1, RecvPlaces, StreamAssumption
    <2>3. Received' = Received \cup {inHand'}
      BY <2>1, <2>2 DEF Received, Elements
    <2>4. inHand' \notin Received
      BY <2>2 DEF PlaceInv
    <2>5. /\ inHand' \notin Elements(chunk)
          /\ \A w \in Tickets : inHand' \notin Elements(work[w])
      BY <2>4 DEF Received
    <2>6. QED
      <3>1. Elements(chunk') = Elements(chunk) /\ work' = work
        BY <2>1 DEF Elements
      <3>2. inHand' \in sent
        BY <2>2 DEF PlaceInv
      <3>3. Elements(inbox') \cap Received' = {}
        BY <2>1, <2>2, <2>3, RecvPlaces DEF PlaceInv
      <3>4. Elements(inbox') \subseteq sent' /\ Received' \subseteq sent'
        BY <2>1, <2>3, <3>2, RecvPlaces DEF PlaceInv
      <3>5. \A w \in Tickets : Elements(work'[w]) = Elements(work[w])
        BY <3>1
      <3>6. /\ main' # "params"
            /\ Taken \subseteq Received
        BY <1>4 DEF RecvTicket, PhaseInv, PlaceInv
      <3>7. Taken' \subseteq Received'
        BY <2>1, <2>3, <3>6, RecvPlaces
      <3>8. QED
        BY <2>1, <2>5, <3>1, <3>3, <3>4, <3>5, <3>6, <3>7, RecvPlaces DEF PlaceInv
  <1>5. CASE PushTicket
    <2>1. /\ inHand \in Tickets /\ inHand' = None
          /\ chunk' = Append(chunk, inHand)
          /\ UNCHANGED <<sent, inbox, work>>
      BY <1>5 DEF PushTicket, TypeOK, streamVars, workerVars
    <2>2. Elements(chunk') = Elements(chunk) \cup {inHand}
      BY <2>1, ElementsAppend DEF TypeOK
    <2>3. Received' = Received
      BY <2>1, <2>2, StreamAssumption DEF Received, Elements
    <2>4. /\ None \notin Elements(chunk')
          /\ \A w \in Tickets : Elements(work'[w]) = Elements(work[w]) /\ None \notin Elements(work[w])
      <3>1. Elements(chunk) \subseteq Tickets
        BY ElementsType DEF TypeOK
      <3>2. ASSUME NEW w \in Tickets PROVE Elements(work[w]) \subseteq Tickets
        BY ElementsType DEF TypeOK
      <3>3. QED
        BY <2>1, <2>2, <3>1, <3>2, StreamAssumption
    <2>5. /\ Elements(inbox') = Elements(inbox) /\ inbox' = inbox /\ sent' = sent
      BY <2>1
    <2>6. ASSUME NEW w \in Tickets PROVE Elements(chunk') \cap Elements(work[w]) = {}
      BY <2>2 DEF PlaceInv
    <2>7. Taken' = Taken /\ main' = main /\ chunker' = chunker
      BY <1>5, <2>5 DEF Taken, PushTicket
    <2>8. QED
      BY <2>1, <2>3, <2>4, <2>5, <2>6, <2>7 DEF PlaceInv
  <1>6. CASE StartWorker
    <2> DEFINE w0 == Head(chunk)
    <2>1. /\ chunk # <<>> /\ chunk' = <<>>
          /\ work' = [work EXCEPT ![w0] = chunk]
          /\ UNCHANGED <<sent, inbox, inHand>>
      BY <1>6 DEF StartWorker, streamVars, readerVars
    <2>2. w0 \in Tickets /\ w0 \in Elements(chunk)
      BY <2>1, ElementsTail DEF TypeOK
    <2>3. work[w0] = <<>>
      BY <2>2 DEF OwnerInv, PlaceInv
    <2>4. /\ Elements(chunk') = {}
          /\ Elements(work[w0]) = {}
          /\ Elements(work'[w0]) = Elements(chunk)
          /\ \A w \in Tickets : w # w0 => Elements(work'[w]) = Elements(work[w])
      BY <2>1, <2>2, <2>3, ElementsEmpty DEF TypeOK
    <2>5. Received' = Received
      <3>1. UNION {Elements(work'[w]) : w \in Tickets}
              = Elements(chunk) \cup UNION {Elements(work[w]) : w \in Tickets}
        BY <2>2, <2>4
      <3>2. QED
        BY <2>1, <2>4, <3>1 DEF Received
    <2>6. /\ Elements(inbox') = Elements(inbox) /\ inbox' = inbox /\ sent' = sent /\ inHand' = inHand
      BY <2>1
    <2>7. ASSUME NEW w \in Tickets PROVE inHand \notin Elements(work'[w])
      BY <2>4 DEF PlaceInv
    <2>8. ASSUME NEW v \in Tickets, NEW w \in Tickets, v # w
          PROVE  Elements(work'[v]) \cap Elements(work'[w]) = {}
      BY <2>4, <2>8 DEF PlaceInv
    <2>9. Taken' = Taken /\ main' = main /\ chunker' = chunker
      BY <1>6, <2>6 DEF Taken, StartWorker
    <2>10. QED
      BY <2>4, <2>5, <2>6, <2>7, <2>8, <2>9 DEF PlaceInv
  <1>7. CASE Start
    <2>1. Head(inbox) \notin Tickets
      BY <1>7, StreamAssumption DEF Start
    <2>2. QED
      BY <1>2, <1>7, <2>1 DEF Start, workerVars
  <1>8. CASE Refuse
    <2>1. chunker' = "idle" /\ main' = "returned"
      BY <1>8 DEF Refuse, PhaseInv
    <2>2. QED
      BY <1>1, <1>2, <1>8, <2>1 DEF Refuse, RecvEnds, streamVars, readerVars, workerVars
  <1>9. CASE RecvOther
    <2>1. main # "params" /\ (chunker # "idle")
      BY <1>9 DEF RecvOther, PhaseInv
    <2>2. QED
      BY <1>2, <1>9, <2>1 DEF RecvOther, readerVars, workerVars
  <1>10. CASE ClientCloses \/ ClientBreaks \/ Return \/ ReaderEnds \/ LastChunk \/ CloseResults
    BY <1>1, <1>10 DEF ClientCloses, ClientBreaks, Return, ReaderEnds, RecvEnds, LastChunk,
       CloseResults, streamVars, readerVars, workerVars
  <1>11. ASSUME NEW w \in Tickets, Worker(w) PROVE PlaceInv'
    BY <1>1, <1>11 DEF Worker, MatchPlayers, TakeMatch, WorkerEnds, streamVars, readerVars, workerVars
  <1>12. CASE Sender \/ UNCHANGED vars
    BY <1>1, <1>12 DEF Sender, SendMatch, SendFails, ResultsEnd, vars, streamVars, readerVars, workerVars
  <1>13. QED
    BY <1>3, <1>4, <1>5, <1>6, <1>7, <1>8, <1>9, <1>10, <1>11, <1>12
       DEF Next, Client, Server, Handler, Reader, Chunker, Finished

-----------------------------------------------------------------------------
(* Every match comes from the chunk of one worker.                         *)

\* Every step keeps the matches within the chunks they were made from.
LEMMA OwnerInductive == IInv /\ [Next]_vars => OwnerInv'
  <1> SUFFICES ASSUME TypeOK, PhaseInv, PlaceInv, OwnerInv, [Next]_vars PROVE OwnerInv'
    BY DEF IInv
  <1>1. ASSUME UNCHANGED <<worker, work, out, outHand, delivered>> PROVE OwnerInv'
    <2>1. /\ worker' = worker /\ work' = work
          /\ Holding' = Holding /\ Sent' = Sent
          /\ out' = out
      BY <1>1 DEF Holding, Sent
    <2>2. \A w \in Tickets : Waiting(w)' = Waiting(w)
      BY <2>1 DEF Waiting
    <2>3. QED
      BY <2>1, <2>2 DEF OwnerInv
  <1>2. CASE StartWorker
    <2> DEFINE w0 == Head(chunk)
    <2>1. /\ chunk # <<>>
          /\ worker' = [worker EXCEPT ![w0] = "match"]
          /\ work' = [work EXCEPT ![w0] = chunk]
          /\ out' = out /\ Holding' = Holding /\ Sent' = Sent
      BY <1>2 DEF StartWorker, senderVars, Holding, Sent
    <2>2. w0 \in Tickets /\ w0 \in Elements(chunk)
      BY <2>1, ElementsTail DEF TypeOK
    <2>3. worker[w0] = "none" /\ out[w0] = <<>>
      BY <2>2 DEF OwnerInv, PlaceInv
    <2>4. \A w \in Tickets : Waiting(w)' = Waiting(w)
      BY <2>1 DEF Waiting
    <2>5. Waiting(w0) = {}
      BY <2>3, ElementsEmpty DEF Waiting
    <2>6. /\ worker'[w0] = "match" /\ work'[w0] = chunk
          /\ \A w \in Tickets : w # w0 => worker'[w] = worker[w] /\ work'[w] = work[w]
      BY <2>1, <2>2 DEF TypeOK
    <2>7. ASSUME NEW m \in (Holding \cup Sent)'
          PROVE \E w \in Tickets : worker'[w] \in {"send", "done"} /\ m \subseteq Elements(work'[w])
      <3>1. PICK w \in Tickets : worker[w] \in {"send", "done"} /\ m \subseteq Elements(work[w])
        BY <2>1 DEF OwnerInv
      <3>2. w # w0
        BY <3>1, <2>3
      <3>3. QED
        BY <3>1, <3>2, <2>6
    <2>8. ASSUME NEW w \in Tickets
          PROVE  /\ worker'[w] = "none" => work'[w] = <<>>
                 /\ worker'[w] # "none" => w \in Elements(work'[w])
                 /\ worker'[w] \in {"none", "match", "done"} => out'[w] = <<>>
                 /\ \A m \in Waiting(w)' : m # {} /\ m \subseteq Elements(work'[w])
      <3>1. CASE w = w0
        BY <3>1, <2>1, <2>2, <2>3, <2>4, <2>5, <2>6
      <3>2. CASE w # w0
        BY <3>2, <2>1, <2>4, <2>6 DEF OwnerInv
      <3>3. QED
        BY <3>1, <3>2
    <2>9. QED
      BY <2>7, <2>8 DEF OwnerInv
  <1>3. ASSUME NEW w \in Tickets, MatchPlayers(w) PROVE OwnerInv'
    <2>1. PICK g \in Groupings(Elements(work[w])) : out' = [out EXCEPT ![w] = g]
      BY <1>3 DEF MatchPlayers
    <2>2. /\ worker[w] = "match" /\ worker' = [worker EXCEPT ![w] = "send"]
          /\ work' = work /\ Holding' = Holding /\ Sent' = Sent
      BY <1>3 DEF MatchPlayers, senderVars, Holding, Sent
    <2>3. work[w] \in Seq(Tickets)
      BY DEF TypeOK
    <2>4. \A m \in Elements(g) : m # {} /\ m \subseteq Elements(work[w])
      BY <2>3, GroupingsType
    <2>5. /\ Waiting(w)' = Elements(g)
          /\ \A v \in Tickets : v # w => Waiting(v)' = Waiting(v) /\ out'[v] = out[v]
      BY <2>1 DEF Waiting, TypeOK
    <2>6. worker'[w] = "send" /\ \A v \in Tickets : v # w => worker'[v] = worker[v]
      BY <2>2 DEF TypeOK
    <2>7. QED
      BY <2>2, <2>4, <2>5, <2>6 DEF OwnerInv
  <1>4. ASSUME NEW w \in Tickets, TakeMatch(w) PROVE OwnerInv'
    <2>1. /\ worker[w] = "send" /\ out[w] # <<>>
          /\ outHand' = Head(out[w]) /\ out' = [out EXCEPT ![w] = Tail(out[w])]
          /\ worker' = worker /\ work' = work /\ Sent' = Sent
      BY <1>4 DEF TakeMatch, Sent
    <2>2. out[w] \in Seq(SUBSET Tickets)
      BY DEF TypeOK
    <2>3. Head(out[w]) \in Waiting(w) /\ Elements(Tail(out[w])) \subseteq Waiting(w)
      BY <2>1, <2>2, ElementsTail DEF Waiting
    <2>4. /\ Waiting(w)' \subseteq Waiting(w)
          /\ \A v \in Tickets : v # w => Waiting(v)' = Waiting(v) /\ out'[v] = out[v]
      BY <2>1, <2>3 DEF Waiting, TypeOK
    <2>5. Holding' \subseteq {Head(out[w])}
      BY <2>1 DEF Holding
    <2>6. \A m \in (Holding \cup Sent)' :
             \E v \in Tickets : worker'[v] \in {"send", "done"} /\ m \subseteq Elements(work'[v])
      <3>1. Head(out[w]) \subseteq Elements(work[w])
        BY <2>3 DEF OwnerInv
      <3>2. QED
        BY <2>1, <2>5, <3>1 DEF OwnerInv
    <2>7. \A v \in Tickets : \A m \in Waiting(v)' : m # {} /\ m \subseteq Elements(work[v])
      BY <2>4 DEF OwnerInv
    <2>8. \A v \in Tickets : worker[v] \in {"none", "match", "done"} => out'[v] = <<>>
      BY <2>1, <2>4 DEF OwnerInv
    <2>9. QED
      BY <2>1, <2>6, <2>7, <2>8 DEF OwnerInv
  <1>5. ASSUME NEW w \in Tickets, WorkerEnds(w) PROVE OwnerInv'
    <2>1. /\ worker[w] = "send" /\ out[w] = <<>>
          /\ worker' = [worker EXCEPT ![w] = "done"]
          /\ out' = out /\ work' = work /\ Holding' = Holding /\ Sent' = Sent
      BY <1>5 DEF WorkerEnds, senderVars, Holding, Sent
    <2>2. \A v \in Tickets : Waiting(v)' = Waiting(v)
      BY <2>1 DEF Waiting
    <2>3. worker'[w] = "done" /\ \A v \in Tickets : v # w => worker'[v] = worker[v]
      BY <2>1 DEF TypeOK
    <2>4. QED
      BY <2>1, <2>2, <2>3 DEF OwnerInv
  <1>6. CASE SendMatch
    <2>1. /\ outHand # {} /\ outHand' = {} /\ delivered' = Append(delivered, outHand)
          /\ worker' = worker /\ work' = work /\ out' = out
      BY <1>6 DEF SendMatch, workerVars, PhaseInv
    <2>2. Sent' = Sent \cup {outHand} /\ Holding = {outHand} /\ Holding' = {}
      <3>1. delivered \in Seq(SUBSET Tickets) /\ outHand \in SUBSET Tickets
        BY DEF TypeOK
      <3>2. Elements(delivered') = Elements(delivered) \cup {outHand}
        BY <2>1, <3>1, ElementsAppend
      <3>3. QED
        BY <2>1, <3>2 DEF Sent, Holding
    <2>3. \A v \in Tickets : Waiting(v)' = Waiting(v)
      BY <2>1 DEF Waiting
    <2>4. QED
      BY <2>1, <2>2, <2>3 DEF OwnerInv
  <1>7. CASE Client
    BY <1>1, <1>7 DEF Client, ClientSends, ClientCloses, ClientBreaks, workerVars, senderVars
  <1>8. CASE Handler \/ Reader
    BY <1>1, <1>8 DEF Handler, Start, Refuse, Return, Reader, RecvTicket, RecvOther, ReaderEnds,
       workerVars, senderVars
  <1>9. CASE PushTicket \/ LastChunk \/ CloseResults
    BY <1>1, <1>9 DEF PushTicket, LastChunk, CloseResults, workerVars, senderVars
  <1>10. CASE SendFails \/ ResultsEnd \/ UNCHANGED vars
    BY <1>1, <1>10 DEF SendFails, ResultsEnd, vars, workerVars, senderVars
  <1>11. QED
    BY <1>2, <1>3, <1>4, <1>5, <1>6, <1>7, <1>8, <1>9, <1>10
       DEF Next, Server, Chunker, Worker, Sender, Finished

-----------------------------------------------------------------------------
(* No ticket is in two matches.                                            *)

\* Every step keeps all matches, made or sent, disjoint.
LEMMA OnceInductive == IInv /\ [Next]_vars => NoTicketTwice'
  <1> SUFFICES ASSUME TypeOK, PhaseInv, PlaceInv, OwnerInv, NoTicketTwice, [Next]_vars
               PROVE  NoTicketTwice'
    BY DEF IInv
  <1>1. ASSUME UNCHANGED <<out, outHand, delivered>> PROVE NoTicketTwice'
    <2>1. out' = out /\ delivered' = delivered /\ Holding' = Holding /\ Sent' = Sent
      BY <1>1 DEF Holding, Sent
    <2>2. \A w \in Tickets : Waiting(w)' = Waiting(w)
      BY <2>1 DEF Waiting
    <2>3. QED
      BY <2>1, <2>2 DEF NoTicketTwice
  <1>2. ASSUME NEW w \in Tickets, MatchPlayers(w) PROVE NoTicketTwice'
    <2>1. PICK g \in Groupings(Elements(work[w])) : out' = [out EXCEPT ![w] = g]
      BY <1>2 DEF MatchPlayers
    <2>2. /\ worker[w] = "match"
          /\ delivered' = delivered /\ Holding' = Holding /\ Sent' = Sent
      BY <1>2 DEF MatchPlayers, senderVars, Holding, Sent
    <2>3. work[w] \in Seq(Tickets)
      BY DEF TypeOK
    <2>4. /\ \A m \in Elements(g) : m \subseteq Elements(work[w])
          /\ \A i, j \in 1 .. Len(g) : i # j => g[i] \cap g[j] = {}
      BY <2>3, GroupingsType
    <2>5. /\ out'[w] = g /\ Waiting(w)' = Elements(g)
          /\ \A v \in Tickets : v # w => Waiting(v)' = Waiting(v) /\ out'[v] = out[v]
      BY <2>1 DEF Waiting, TypeOK
    <2>6. ASSUME NEW n \in Holding \cup Sent PROVE n \cap Elements(work[w]) = {}
      <3>1. PICK v \in Tickets : worker[v] \in {"send", "done"} /\ n \subseteq Elements(work[v])
        BY DEF OwnerInv
      <3>2. v # w
        BY <3>1, <2>2
      <3>3. QED
        BY <3>1, <3>2 DEF PlaceInv
    <2>7. ASSUME NEW v \in Tickets, v # w, NEW n \in Waiting(v) PROVE n \cap Elements(work[w]) = {}
      <3>1. n \subseteq Elements(work[v])
        BY DEF OwnerInv
      <3>2. QED
        BY <3>1, <2>7 DEF PlaceInv
    <2>8. \A v \in Tickets : \A m \in Waiting(v)', n \in (Holding \cup Sent)' : m \cap n = {}
      <3>1. SUFFICES ASSUME NEW v \in Tickets, NEW m \in Waiting(v)', NEW n \in Holding \cup Sent
                     PROVE  m \cap n = {}
        BY <2>2
      <3>2. CASE v = w
        BY <3>2, <2>4, <2>5, <2>6
      <3>3. CASE v # w
        BY <3>3, <2>5 DEF NoTicketTwice
      <3>4. QED
        BY <3>2, <3>3
    <2>9. \A v \in Tickets : \A i, j \in 1 .. Len(out'[v]) : i # j => out'[v][i] \cap out'[v][j] = {}
      BY <2>4, <2>5 DEF NoTicketTwice
    <2>10. ASSUME NEW u \in Tickets, NEW v \in Tickets, u # v,
                  NEW m \in Waiting(u)', NEW n \in Waiting(v)'
           PROVE  m \cap n = {}
      <3>1. CASE u = w
        BY <3>1, <2>4, <2>5, <2>7, <2>10
      <3>2. CASE v = w
        BY <3>2, <2>4, <2>5, <2>7, <2>10
      <3>3. CASE u # w /\ v # w
        BY <3>3, <2>5, <2>10 DEF NoTicketTwice
      <3>4. QED
        BY <3>1, <3>2, <3>3
    <2>11. QED
      BY <2>2, <2>8, <2>9, <2>10 DEF NoTicketTwice
  <1>3. ASSUME NEW w \in Tickets, TakeMatch(w) PROVE NoTicketTwice'
    <2> DEFINE h == Head(out[w])
    <2>1. /\ out[w] # <<>> /\ sender = "range" /\ outHand' = h
          /\ out' = [out EXCEPT ![w] = Tail(out[w])]
          /\ delivered' = delivered /\ Sent' = Sent
      BY <1>3 DEF TakeMatch, Sent
    <2>2. out[w] \in Seq(SUBSET Tickets)
      BY DEF TypeOK
    <2>3. /\ h = out[w][1] /\ h \in Waiting(w)
          /\ Len(out[w]) \in Nat \ {0}
          /\ Len(Tail(out[w])) = Len(out[w]) - 1
          /\ \A i \in 1 .. Len(Tail(out[w])) :
                i + 1 \in 1 .. Len(out[w]) /\ Tail(out[w])[i] = out[w][i + 1]
          /\ Elements(Tail(out[w])) \subseteq Waiting(w)
      BY <2>1, <2>2, ElementsTail DEF Waiting
    <2>4. /\ out'[w] = Tail(out[w]) /\ Waiting(w)' = Elements(Tail(out[w]))
          /\ \A v \in Tickets : v # w => Waiting(v)' = Waiting(v) /\ out'[v] = out[v]
      BY <2>1 DEF Waiting, TypeOK
    <2>5. \A v \in Tickets : Waiting(v)' \subseteq Waiting(v)
      BY <2>3, <2>4
    <2>6. Holding' \subseteq {h}
      BY <2>1 DEF Holding
    <2>7. \A m \in Waiting(w)' : m \cap h = {}
      <3>1. SUFFICES ASSUME NEW i \in 1 .. Len(Tail(out[w])) PROVE Tail(out[w])[i] \cap h = {}
        BY <2>4 DEF Elements
      <3>2. i + 1 \in 1 .. Len(out[w]) /\ 1 \in 1 .. Len(out[w]) /\ i + 1 # 1
        BY <2>3
      <3>3. QED
        BY <2>3, <3>2 DEF NoTicketTwice
    <2>8. \A v \in Tickets : v # w => \A m \in Waiting(v)' : m \cap h = {}
      BY <2>3, <2>4 DEF NoTicketTwice
    <2>9. \A n \in Sent : h \cap n = {}
      BY <2>3 DEF NoTicketTwice
    <2>10. \A v \in Tickets : \A m \in Waiting(v)', n \in (Holding \cup Sent)' : m \cap n = {}
      BY <2>1, <2>5, <2>6, <2>7, <2>8 DEF NoTicketTwice
    <2>11. \A m \in Holding', n \in Sent' : m \cap n = {}
      BY <2>1, <2>6, <2>9
    <2>12. ASSUME NEW v \in Tickets, NEW i \in 1 .. Len(out'[v]), NEW j \in 1 .. Len(out'[v]), i # j
           PROVE  out'[v][i] \cap out'[v][j] = {}
      <3>1. CASE v # w
        BY <3>1, <2>4, <2>12 DEF NoTicketTwice
      <3>2. CASE v = w
        <4>1. /\ i + 1 \in 1 .. Len(out[w]) /\ out'[v][i] = out[w][i + 1]
              /\ j + 1 \in 1 .. Len(out[w]) /\ out'[v][j] = out[w][j + 1]
              /\ i + 1 # j + 1
          BY <3>2, <2>3, <2>4, <2>12
        <4>2. QED
          BY <4>1 DEF NoTicketTwice
      <3>3. QED
        BY <3>1, <3>2
    <2>13. \A u, v \in Tickets : u # v => \A m \in Waiting(u)', n \in Waiting(v)' : m \cap n = {}
      BY <2>5 DEF NoTicketTwice
    <2>14. QED
      BY <2>1, <2>10, <2>11, <2>12, <2>13 DEF NoTicketTwice
  <1>4. CASE SendMatch
    <2>1. /\ outHand # {} /\ outHand' = {} /\ delivered' = Append(delivered, outHand)
          /\ out' = out
      BY <1>4 DEF SendMatch, workerVars, PhaseInv
    <2>2. /\ Sent' = Sent \cup {outHand} /\ Holding = {outHand} /\ Holding' = {}
          /\ Len(delivered) \in Nat
          /\ Len(delivered') = Len(delivered) + 1
          /\ \A i \in 1 .. Len(delivered) : delivered'[i] = delivered[i]
          /\ delivered'[Len(delivered) + 1] = outHand
      <3>1. delivered \in Seq(SUBSET Tickets) /\ outHand \in SUBSET Tickets
        BY DEF TypeOK
      <3>2. /\ Elements(delivered') = Elements(delivered) \cup {outHand}
            /\ Len(delivered') = Len(delivered) + 1
            /\ \A i \in 1 .. Len(delivered) : delivered'[i] = delivered[i]
            /\ delivered'[Len(delivered) + 1] = outHand
        BY <2>1, <3>1, ElementsAppend
      <3>3. Len(delivered) \in Nat
        BY <3>1, LenProperties
      <3>4. QED
        BY <2>1, <3>2, <3>3 DEF Sent, Holding
    <2>3. \A v \in Tickets : Waiting(v)' = Waiting(v)
      BY <2>1 DEF Waiting
    <2>4. \A i \in 1 .. Len(delivered) : delivered[i] \cap outHand = {}
      <3>1. \A i \in 1 .. Len(delivered) : delivered[i] \in Sent
        BY DEF Sent, Elements
      <3>2. QED
        BY <3>1, <2>2 DEF NoTicketTwice
    <2>5. ASSUME NEW i \in 1 .. Len(delivered'), NEW j \in 1 .. Len(delivered'), i # j
          PROVE  delivered'[i] \cap delivered'[j] = {}
      <3>1. i \in 1 .. Len(delivered) \/ i = Len(delivered) + 1
        BY <2>2
      <3>2. j \in 1 .. Len(delivered) \/ j = Len(delivered) + 1
        BY <2>2
      <3>3. QED
        BY <2>2, <2>4, <2>5, <3>1, <3>2 DEF NoTicketTwice
    <2>6. \A v \in Tickets : \A m \in Waiting(v)', n \in (Holding \cup Sent)' : m \cap n = {}
      BY <2>2, <2>3 DEF NoTicketTwice
    <2>7. \A v \in Tickets : \A i, j \in 1 .. Len(out'[v]) : i # j => out'[v][i] \cap out'[v][j] = {}
      BY <2>1 DEF NoTicketTwice
    <2>8. \A u, v \in Tickets : u # v => \A m \in Waiting(u)', n \in Waiting(v)' : m \cap n = {}
      BY <2>3 DEF NoTicketTwice
    <2>9. \A m \in Holding', n \in Sent' : m \cap n = {}
      BY <2>2
    <2>10. QED
      BY <2>5, <2>6, <2>7, <2>8, <2>9 DEF NoTicketTwice
  <1>5. CASE Client
    BY <1>1, <1>5 DEF Client, ClientSends, ClientCloses, ClientBreaks, workerVars, senderVars
  <1>6. CASE Handler \/ Reader
    BY <1>1, <1>6 DEF Handler, Start, Refuse, Return, Reader, RecvTicket, RecvOther, ReaderEnds,
       workerVars, senderVars
  <1>7. CASE Chunker
    BY <1>1, <1>7 DEF Chunker, PushTicket, StartWorker, LastChunk, CloseResults, workerVars, senderVars
  <1>8. ASSUME NEW w \in Tickets, WorkerEnds(w) PROVE NoTicketTwice'
    BY <1>1, <1>8 DEF WorkerEnds, senderVars
  <1>9. CASE SendFails \/ ResultsEnd \/ UNCHANGED vars
    BY <1>1, <1>9 DEF SendFails, ResultsEnd, vars, workerVars, senderVars
  <1>10. QED
    BY <1>2, <1>3, <1>4, <1>5, <1>6, <1>7, <1>8, <1>9
       DEF Next, Server, Worker, Sender, Finished

-----------------------------------------------------------------------------
(* The theorems.                                                           *)

\* The inductive invariant holds when the call arrives.
LEMMA InitInv == Init => IInv
  <1> SUFFICES ASSUME Init PROVE IInv
    OBVIOUS
  <1> USE DEF Init
  <1>1. TypeOK
    BY EmptySeq DEF TypeOK
  <1>2. PhaseInv
    BY DEF PhaseInv, AllWorkersEnded
  <1>3. /\ Elements(inbox) = {} /\ Elements(chunk) = {} /\ Elements(delivered) = {}
        /\ \A w \in Tickets : Elements(work[w]) = {} /\ Elements(out[w]) = {}
        /\ Len(inbox) = 0 /\ Len(delivered) = 0 /\ \A w \in Tickets : Len(out[w]) = 0
    BY ElementsEmpty, EmptySeq
  <1>4. PlaceInv
    BY <1>3 DEF PlaceInv, Received, Taken
  <1>5. OwnerInv
    BY <1>3 DEF OwnerInv, Waiting, Holding, Sent
  <1>6. NoTicketTwice
    BY <1>3 DEF NoTicketTwice, Waiting, Holding, Sent
  <1>7. QED
    BY <1>1, <1>2, <1>4, <1>5, <1>6 DEF IInv

\* The inductive invariant holds throughout every call.
THEOREM Invariance == Spec => []IInv
  <1>1. IInv /\ [Next]_vars => IInv'
    BY TypeInductive, PhaseInductive, PlaceInductive, OwnerInductive, OnceInductive DEF IInv
  <1>2. QED
    BY <1>1, InitInv, PTL DEF Spec

\* The variables keep their types.
THEOREM TypeCorrect == Spec => []TypeOK
  <1>1. IInv => TypeOK
    BY DEF IInv
  <1>2. QED
    BY <1>1, Invariance, PTL

\* No ticket message is ever promised to two matches, for any number of
\* tickets, chunks and workers, whatever the client does to the stream.
THEOREM TicketsUsedOnce == Spec => []NoTicketTwice
  <1>1. IInv => NoTicketTwice
    BY DEF IInv
  <1>2. QED
    BY <1>1, Invariance, PTL

\* No worker ever sends on the closed results channel.
THEOREM ResultsOutliveWorkers == Spec => []NoSendOnClosedResults
  <1>1. IInv => NoSendOnClosedResults
    BY DEF IInv, PhaseInv, NoSendOnClosedResults
  <1>2. QED
    BY <1>1, Invariance, PTL

\* A call whose sender saw the results channel closed has sent every match.
THEOREM MatchesAllSent == Spec => []EveryMatchSent
  <1>1. IInv => EveryMatchSent
    BY DEF IInv, PhaseInv, OwnerInv, AllWorkersEnded, EveryMatchSent
  <1>2. QED
    BY <1>1, Invariance, PTL

\* With a chunk size above zero, no ticket is left behind when the chunker stops
\* collecting: each is in the chunk of exactly one worker.
THEOREM TicketsAllWorked ==
    ASSUME ChunkSize > 0
    PROVE  Spec => []EveryTicketWorked
  <1>1. IInv => EveryTicketWorked
    <2> SUFFICES ASSUME IInv, chunker \in {"wait", "closed"}, NEW t \in Taken
                 PROVE  Cardinality({w \in Tickets : t \in Elements(work[w])}) = 1
      BY DEF EveryTicketWorked
    <2>1. inHand = None /\ chunk = <<>> /\ t \in Received
      BY DEF IInv, PhaseInv, PlaceInv, TypeOK
    <2>2. t # None
      BY StreamAssumption DEF Taken
    <2>3. PICK w \in Tickets : t \in Elements(work[w])
      BY <2>1, <2>2, ElementsEmpty DEF Received
    <2>4. \A v \in Tickets : t \in Elements(work[v]) => v = w
      BY <2>3 DEF IInv, PlaceInv
    <2>5. {v \in Tickets : t \in Elements(work[v])} = {w}
      BY <2>3, <2>4
    <2>6. QED
      BY <2>5, FS_Singleton
  <1>2. QED
    BY <1>1, Invariance, PTL

-----------------------------------------------------------------------------
(* The stream implements the abstract feed.                                *)

\* Every step of a call is a step of the feed or leaves the feed as it is.
LEMMA FeedStep == IInv /\ [Next]_vars => [Feed!FeedNext]_(Feed!feedVars)
  <1> SUFFICES ASSUME IInv, [Next]_vars PROVE [Feed!FeedNext]_(Feed!feedVars)
    OBVIOUS
  <1> USE DEF Feed!feedVars
  <1>1. ASSUME UNCHANGED <<inHand, chunk, work, delivered>>
        PROVE  Received' = Received /\ delivered' = delivered
    BY <1>1 DEF Received
  <1>2. ASSUME UNCHANGED <<inHand, chunk, work, delivered, main, crashed>>
        PROVE  UNCHANGED Feed!feedVars
    BY <1>1, <1>2
  <1>3. ASSUME UNCHANGED <<inHand, chunk, work, delivered>>,
               ~(crashed \/ main = "returned"), (crashed \/ main = "returned")'
        PROVE  Feed!End
    BY <1>1, <1>3 DEF Feed!End
  <1>4. CASE Client
    BY <1>2, <1>4 DEF Client, ClientSends, ClientCloses, ClientBreaks, readerVars, workerVars, senderVars
  <1>5. CASE Start
    BY <1>1, <1>5 DEF Start, workerVars
  <1>6. CASE ~crashed /\ (Refuse \/ Return)
    BY <1>3, <1>6 DEF Refuse, Return, readerVars, workerVars, senderVars, Feed!FeedNext
  <1>7. CASE ~crashed /\ RecvTicket
    <2>1. /\ Recv /\ inHand' = Head(inbox) /\ Head(inbox) \in Tickets /\ inHand = None
          /\ UNCHANGED <<chunk, work, delivered, main, crashed>>
      BY <1>7 DEF RecvTicket, IInv, TypeOK, workerVars, senderVars
    <2>2. inHand' \in Elements(inbox)
      BY <2>1, RecvPlaces DEF IInv
    <2>3. inHand' \notin Received
      BY <2>2 DEF IInv, PlaceInv
    <2>4. Received' = Received \cup {inHand'}
      BY <2>1, StreamAssumption DEF Received
    <2>5. main # "returned"
      BY <1>7 DEF RecvTicket, IInv, PhaseInv
    <2>6. Feed!Take(inHand')
      BY <1>7, <2>1, <2>3, <2>4, <2>5 DEF Feed!Take
    <2>7. QED
      BY <2>1, <2>6 DEF Feed!FeedNext
  <1>8. CASE ~crashed /\ RecvOther
    <2>1. main # "returned"
      BY <1>8 DEF RecvOther, IInv, PhaseInv
    <2>2. QED
      BY <1>3, <1>8, <2>1 DEF RecvOther, readerVars, workerVars, senderVars, Feed!FeedNext
  <1>9. CASE ReaderEnds
    BY <1>2, <1>9 DEF ReaderEnds, workerVars, senderVars
  <1>10. CASE PushTicket
    <2>1. /\ inHand \in Tickets /\ inHand' = None /\ chunk' = Append(chunk, inHand)
          /\ UNCHANGED <<work, delivered, main, crashed>>
      BY <1>10 DEF PushTicket, IInv, TypeOK, workerVars, senderVars
    <2>2. Elements(chunk') = Elements(chunk) \cup {inHand}
      BY <2>1, ElementsAppend DEF IInv, TypeOK
    <2>3. Received' = Received
      BY <2>1, <2>2, StreamAssumption DEF Received
    <2>4. QED
      BY <2>1, <2>3
  <1>11. CASE StartWorker
    <2> DEFINE w0 == Head(chunk)
    <2>1. /\ chunk # <<>> /\ chunk' = <<>>
          /\ work' = [work EXCEPT ![w0] = chunk]
          /\ UNCHANGED <<inHand, delivered, main, crashed>>
      BY <1>11 DEF StartWorker, readerVars, senderVars
    <2>2. w0 \in Tickets /\ w0 \in Elements(chunk)
      BY <2>1, ElementsTail DEF IInv, TypeOK
    <2>3. work[w0] = <<>>
      BY <2>2 DEF IInv, OwnerInv, PlaceInv
    <2>4. /\ Elements(chunk') = {}
          /\ Elements(work[w0]) = {}
          /\ Elements(work'[w0]) = Elements(chunk)
          /\ \A w \in Tickets : w # w0 => Elements(work'[w]) = Elements(work[w])
      BY <2>1, <2>2, <2>3, ElementsEmpty DEF IInv, TypeOK
    <2>5. UNION {Elements(work'[w]) : w \in Tickets}
            = Elements(chunk) \cup UNION {Elements(work[w]) : w \in Tickets}
      BY <2>2, <2>4
    <2>6. Received' = Received
      BY <2>1, <2>4, <2>5 DEF Received
    <2>7. QED
      BY <2>1, <2>6
  <1>12. CASE LastChunk \/ CloseResults
    BY <1>2, <1>12 DEF LastChunk, CloseResults, readerVars, workerVars, senderVars
  <1>13. ASSUME NEW w \in Tickets, Worker(w) PROVE UNCHANGED Feed!feedVars
    BY <1>2, <1>13 DEF Worker, MatchPlayers, TakeMatch, WorkerEnds, readerVars, workerVars, senderVars
  <1>14. CASE ~crashed /\ SendMatch
    <2>1. /\ delivered' = Append(delivered, outHand) /\ outHand # {}
          /\ UNCHANGED <<inHand, chunk, work, main, crashed>>
      BY <1>14 DEF SendMatch, IInv, PhaseInv, readerVars, workerVars
    <2>2. Received' = Received
      BY <2>1 DEF Received
    <2>3. outHand \in Holding /\ outHand \in SUBSET Tickets
      BY <2>1 DEF Holding, IInv, TypeOK
    <2>4. outHand \subseteq Received
      <3>1. PICK w \in Tickets : outHand \subseteq Elements(work[w])
        BY <2>3 DEF IInv, OwnerInv
      <3>2. QED
        BY <3>1 DEF Received
    <2>5. \A k \in 1 .. Len(delivered) : delivered[k] \cap outHand = {}
      <3>1. \A k \in 1 .. Len(delivered) : delivered[k] \in Sent
        BY DEF Sent, Elements
      <3>2. QED
        BY <3>1, <2>3 DEF IInv, NoTicketTwice
    <2>6. main # "returned"
      BY <1>14 DEF SendMatch, IInv, PhaseInv
    <2>7. Feed!Give(outHand)
      BY <1>14, <2>1, <2>2, <2>4, <2>5, <2>6 DEF Feed!Give
    <2>8. QED
      BY <2>3, <2>7 DEF Feed!FeedNext
  <1>15. CASE SendFails \/ ResultsEnd \/ UNCHANGED vars
    BY <1>2, <1>15 DEF SendFails, ResultsEnd, vars, readerVars, workerVars, senderVars
  <1>16. QED
    BY <1>4, <1>5, <1>6, <1>7, <1>8, <1>9, <1>10, <1>11, <1>12, <1>13, <1>14, <1>15
       DEF Next, Server, Handler, Reader, Chunker, Sender, Finished, Feed!FeedNext

\* Every MakeMatches call implements the abstract feed of matches.
THEOREM StreamImplementsFeed == Spec => ImplementsFeed
  <1>1. Init => Feed!FeedInit
    <2> SUFFICES ASSUME Init PROVE Feed!FeedInit
      OBVIOUS
    <2>1. Received = {}
      BY ElementsEmpty DEF Init, Received
    <2>2. QED
      BY <2>1 DEF Init, Feed!FeedInit
  <1>2. QED
    BY <1>1, FeedStep, Invariance, PTL DEF Spec, ImplementsFeed, Feed!FeedSpec

=============================================================================
