------------------------- MODULE BackfillStream_proofs -------------------------
(***************************************************************************)
(* Proofs about BackfillStream for every set of tickets and backfill       *)
(* tickets, every chunk size and every behaviour of the client.  The       *)
(* argument is that of MatchStream_proofs; here two kinds of messages come *)
(* down the stream, and some tickets are dropped on the way.               *)
(***************************************************************************)
EXTENDS BackfillStream, Grouping_proofs

\* It does not matter which of two proposals comes first.
LEMMA ApartSymmetric ==
    ASSUME NEW m, NEW n
    PROVE  Apart(m, n) <=> Apart(n, m)
  BY DEF Apart

\* MatchSessions' proposals are a sequence of non-empty groups of the tickets and
\* backfill tickets of a round, of which different ones are disjoint.
LEMMA ProposalsType ==
    ASSUME NEW T \in SUBSET Tickets, NEW q \in Seq(Sessions),
           NEW g \in Proposals([tickets |-> T, sessions |-> q])
    PROVE  /\ g \in Seq(SUBSET Entries)
           /\ \A m \in Elements(g) : m # {} /\ m \subseteq T \cup Elements(q)
           /\ \A i, j \in 1 .. Len(g) : i # j => Apart(g[i], g[j])
  <1> DEFINE Offers == {{s} \cup U : s \in Elements(q), U \in (SUBSET T) \ {{}}}
  <1>1. PICK n \in 0 .. 2 * Len(q) : g \in [1 .. n -> Offers]
    BY DEF Proposals
  <1>2. n \in Nat
    BY <1>1, LenProperties
  <1>3. Elements(q) \subseteq Sessions
    BY ElementsType
  <1>4. \A m \in Offers : m # {} /\ m \subseteq T \cup Elements(q) /\ m \in SUBSET Entries
    BY <1>3 DEF Entries
  <1>5. DOMAIN g = 1 .. n /\ \A i \in 1 .. n : g[i] \in Offers
    BY <1>1
  <1>6. g \in [1 .. n -> SUBSET Entries]
    <2> HIDE DEF Offers
    <2>1. Offers \subseteq SUBSET Entries
      BY <1>4
    <2>2. QED
      BY <1>1, <2>1
  <1>7. g \in Seq(SUBSET Entries) /\ Len(g) = n
    BY <1>2, <1>6
  <1>8. ASSUME NEW m \in Elements(g) PROVE m # {} /\ m \subseteq T \cup Elements(q)
    <2>1. m \in Offers
      <3> HIDE DEF Offers
      <3> QED
        BY <1>5, <1>7 DEF Elements
    <2>2. QED
      BY <2>1, <1>4
  <1>9. \A i, j \in DOMAIN g : i # j => Apart(g[i], g[j])
    BY DEF Proposals
  <1>10. QED
    BY <1>5, <1>7, <1>8, <1>9

-----------------------------------------------------------------------------
(* Type correctness.                                                       *)

\* Every step keeps the variables in their types.
LEMMA TypeInductive == TypeOK /\ PhaseInv /\ [Next]_vars => TypeOK'
  <1> SUFFICES ASSUME TypeOK, PhaseInv, [Next]_vars PROVE TypeOK'
    OBVIOUS
  <1> USE DEF TypeOK, streamVars, readerVars, roundVars, workerVars, replyVars
  <1>1. ASSUME Recv
        PROVE  /\ inbox # <<>> /\ Head(inbox) \in Messages
               /\ inbox' \in Seq(Messages) /\ UNCHANGED <<sent, eof, broken>>
    BY <1>1, ElementsTail DEF Recv
  <1>2. ASSUME NEW m \in Messages, ClientSends(m) PROVE TypeOK'
    BY <1>2, ElementsAppend DEF ClientSends
  <1>3. CASE ClientCloses
    BY <1>3 DEF ClientCloses
  <1>4. CASE ClientBreaks
    BY <1>4 DEF ClientBreaks
  <1>5. CASE Start
    BY <1>5, <1>1 DEF Start, PhaseInv
  <1>6. CASE Refuse
    BY <1>6, <1>1 DEF Refuse, RecvEnds
  <1>7. CASE SendProposal
    BY <1>7, ElementsAppend DEF SendProposal
  <1>8. CASE SendFails
    BY <1>8 DEF SendFails
  <1>9. CASE NoMoreProposals
    BY <1>9 DEF NoMoreProposals
  <1>10. CASE RecvEntry
    BY <1>10, <1>1 DEF RecvEntry
  <1>11. CASE RecvOther
    BY <1>11, <1>1 DEF RecvOther
  <1>12. CASE ReaderEnds
    BY <1>12 DEF ReaderEnds, RecvEnds
  <1>13. CASE PushTicket
    <2>1. inHand \in Tickets /\ reads < ChunkSize
      BY <1>13 DEF PushTicket
    <2>2. reads' \in 0 .. ChunkSize
      BY <1>13, <2>1, BackfillAssumption DEF PushTicket
    <2>3. QED
      BY <1>13, <2>1, <2>2 DEF PushTicket
  <1>14. CASE PushSession
    <2>1. inHand \in Sessions
      BY <1>14 DEF PushSession
    <2>2. sessions' \in Seq(Sessions)
      BY <1>14, <2>1, ElementsAppend DEF PushSession
    <2>3. QED
      BY <1>14, <2>2 DEF PushSession
  <1>15. CASE StartWorker
    <2>1. reads' \in 0 .. ChunkSize
      BY <1>15, BackfillAssumption DEF StartWorker
    <2>2. [tickets |-> batch, sessions |-> sessions] \in [tickets : SUBSET Tickets, sessions : Seq(Sessions)]
      OBVIOUS
    <2>3. work' \in [Sessions -> [tickets : SUBSET Tickets, sessions : Seq(Sessions)]]
      BY <1>15, <2>2 DEF StartWorker
    <2>4. QED
      BY <1>15, <2>1, <2>3, EmptySeq DEF StartWorker
  <1>16. CASE LastRound
    BY <1>16 DEF LastRound
  <1>17. CASE CloseResults
    BY <1>17 DEF CloseResults
  <1>18. ASSUME NEW w \in Sessions, MatchSessions(w) PROVE TypeOK'
    <2>1. PICK g \in Proposals(work[w]) : out' = [out EXCEPT ![w] = g]
      BY <1>18 DEF MatchSessions
    <2>2. PICK T \in SUBSET Tickets, q \in Seq(Sessions) : work[w] = [tickets |-> T, sessions |-> q]
      OBVIOUS
    <2>3. g \in Seq(SUBSET Entries)
      BY <2>1, <2>2, ProposalsType
    <2>4. QED
      BY <1>18, <2>1, <2>3 DEF MatchSessions
  <1>19. ASSUME NEW w \in Sessions, TakeProposal(w) PROVE TypeOK'
    <2>1. out[w] \in Seq(SUBSET Entries)
      OBVIOUS
    <2>2. Head(out[w]) \in SUBSET Entries /\ Tail(out[w]) \in Seq(SUBSET Entries)
      BY <1>19, <2>1, ElementsTail DEF TakeProposal
    <2>3. QED
      BY <1>19, <2>2 DEF TakeProposal
  <1>20. ASSUME NEW w \in Sessions, WorkerEnds(w) PROVE TypeOK'
    BY <1>20 DEF WorkerEnds
  <1>21. CASE UNCHANGED vars
    BY <1>21 DEF vars
  <1>22. QED
    BY <1>2, <1>3, <1>4, <1>5, <1>6, <1>7, <1>8, <1>9, <1>10, <1>11, <1>12,
       <1>13, <1>14, <1>15, <1>16, <1>17, <1>18, <1>19, <1>20, <1>21
       DEF Next, Client, Handler, Reader, Collector, Worker, Finished

-----------------------------------------------------------------------------
(* The phases of the call.                                                 *)

\* Every step keeps the goroutines in phases that go together.
LEMMA PhaseInductive == IInv /\ [Next]_vars => PhaseInv'
  <1> SUFFICES ASSUME TypeOK, PhaseInv, OwnerInv, [Next]_vars PROVE PhaseInv'
    BY DEF IInv
  <1> USE DEF TypeOK, PhaseInv, AllWorkersEnded, streamVars, readerVars, roundVars, workerVars, replyVars
  <1>1. CASE Client
    BY <1>1 DEF Client, ClientSends, ClientCloses, ClientBreaks
  <1>2. CASE Start
    BY <1>2 DEF Start
  <1>3. CASE Refuse
    BY <1>3 DEF Refuse
  <1>4. CASE SendProposal
    BY <1>4 DEF SendProposal
  <1>5. CASE SendFails
    BY <1>5 DEF SendFails
  <1>6. CASE NoMoreProposals
    BY <1>6 DEF NoMoreProposals
  <1>7. CASE Reader
    BY <1>7 DEF Reader, RecvEntry, RecvOther, ReaderEnds
  <1>8. CASE PushTicket \/ PushSession
    BY <1>8 DEF PushTicket, PushSession
  <1>9. CASE StartWorker
    BY <1>9 DEF StartWorker
  <1>10. CASE LastRound
    BY <1>10, EmptySeq, BackfillAssumption DEF LastRound, RoundEnds
  <1>11. CASE CloseResults
    BY <1>11 DEF CloseResults
  <1>12. ASSUME NEW w \in Sessions, MatchSessions(w) PROVE PhaseInv'
    BY <1>12 DEF MatchSessions
  <1>13. ASSUME NEW w \in Sessions, TakeProposal(w) PROVE PhaseInv'
    <2>1. Head(out[w]) # {}
      BY <1>13, ElementsTail DEF TakeProposal, OwnerInv, Waiting
    <2>2. QED
      BY <1>13, <2>1 DEF TakeProposal
  <1>14. ASSUME NEW w \in Sessions, WorkerEnds(w) PROVE PhaseInv'
    BY <1>14 DEF WorkerEnds
  <1>15. CASE UNCHANGED vars
    BY <1>15 DEF vars
  <1>16. QED
    BY <1>1, <1>2, <1>3, <1>4, <1>5, <1>6, <1>7, <1>8, <1>9, <1>10, <1>11,
       <1>12, <1>13, <1>14, <1>15
       DEF Next, Handler, Collector, Worker, Finished

-----------------------------------------------------------------------------
(* A ticket or backfill ticket is in one place.                            *)

\* Receiving takes the head off the inbox: it is in no place any more, and it
\* was in no other.
LEMMA RecvPlaces ==
    ASSUME TypeOK, PlaceInv, Recv
    PROVE  /\ Elements(inbox') \subseteq Elements(inbox)
           /\ Head(inbox) \in Elements(inbox)
           /\ Head(inbox) \notin Elements(inbox')
           /\ \A i, j \in 1 .. Len(inbox') : i # j => inbox'[i] # inbox'[j]
           /\ sent' = sent
           /\ Taken' = Taken \cup ({Head(inbox)} \cap Sessions)
  <1>1. /\ inbox \in Seq(Messages) /\ inbox # <<>> /\ inbox' = Tail(inbox)
        /\ sent' = sent
    BY DEF Recv, TypeOK
  <1>2. \A i, j \in 1 .. Len(inbox) : i # j => inbox[i] # inbox[j]
    BY DEF PlaceInv
  <1>3. \A i, j \in 1 .. Len(inbox') : i # j => inbox'[i] # inbox'[j]
    BY <1>1, <1>2, TailDistinct
  <1>4. Head(inbox) \notin Elements(inbox')
    BY <1>1, <1>2, TailDistinct
  <1>5. /\ Elements(inbox') \subseteq Elements(inbox)
        /\ Head(inbox) \in Elements(inbox)
        /\ Elements(inbox) \subseteq Elements(inbox') \cup {Head(inbox)}
    BY <1>1, ElementsTail
  <1>6. Taken' = Taken \cup ({Head(inbox)} \cap Sessions)
    <2>1. Head(inbox) \in sent
      BY <1>5 DEF PlaceInv
    <2>2. QED
      BY <1>1, <1>4, <1>5, <2>1 DEF Taken
  <1>7. QED
    BY <1>1, <1>3, <1>4, <1>5, <1>6

\* A step that leaves hand, round and workers alone leaves what they hold alone.
LEMMA HeldUnchanged ==
    ASSUME UNCHANGED <<inHand, batch, sessions, work>>
    PROVE  /\ inHand' = inHand /\ batch' = batch
           /\ Elements(sessions)' = Elements(sessions)
           /\ \A w \in Sessions : Worked(w)' = Worked(w)
           /\ Held' = Held
           /\ Received' = Received
  BY DEF Held, Received, Worked

\* Starting a worker hands it the round: nothing is lost, and only its work
\* changes, from nothing to the round.
LEMMA StartWorkerMoves ==
    ASSUME TypeOK, PlaceInv, OwnerInv, StartWorker
    PROVE  \E w0 \in Sessions :
           /\ w0 \in Elements(sessions)
           /\ worker[w0] = "none" /\ work[w0] = NoWork /\ Worked(w0) = {} /\ out[w0] = <<>>
           /\ worker'[w0] = "match" /\ work'[w0].sessions = sessions
           /\ Worked(w0)' = batch \cup Elements(sessions)
           /\ \A w \in Sessions : w # w0 =>
                 worker'[w] = worker[w] /\ work'[w] = work[w] /\ Worked(w)' = Worked(w)
           /\ batch' = {} /\ Elements(sessions)' = {} /\ inHand' = inHand
           /\ Held' = Held
           /\ Received' = Received
  <1> DEFINE round == [tickets |-> batch, sessions |-> sessions]
  <1>1. PICK w0 : w0 = Head(sessions)
    OBVIOUS
  <1>2. /\ sessions # <<>> /\ sessions' = <<>> /\ batch' = {}
        /\ worker' = [worker EXCEPT ![w0] = "match"]
        /\ work' = [work EXCEPT ![w0] = round]
        /\ inHand' = inHand
    BY <1>1 DEF StartWorker, readerVars
  <1>3. w0 \in Sessions /\ w0 \in Elements(sessions)
    BY <1>1, <1>2, ElementsTail DEF TypeOK
  <1>4. /\ worker[w0] = "none" /\ work[w0] = NoWork /\ out[w0] = <<>>
        /\ Worked(w0) = {}
    <2>1. w0 \notin Worked(w0)
      BY <1>3 DEF PlaceInv
    <2>2. worker[w0] = "none"
      BY <1>3, <2>1 DEF OwnerInv, Worked
    <2>3. work[w0] = NoWork /\ out[w0] = <<>>
      BY <1>3, <2>2 DEF OwnerInv
    <2>4. Worked(w0) = {}
      BY <2>3, ElementsEmpty DEF Worked, NoWork
    <2>5. QED
      BY <2>2, <2>3, <2>4
  <1>5. /\ worker'[w0] = "match"
        /\ work'[w0].tickets = batch /\ work'[w0].sessions = sessions
        /\ \A w \in Sessions : w # w0 => worker'[w] = worker[w] /\ work'[w] = work[w]
    BY <1>2, <1>3 DEF TypeOK
  <1>6. /\ Worked(w0)' = batch \cup Elements(sessions)
        /\ \A w \in Sessions : w # w0 => Worked(w)' = Worked(w)
    <2>1. Worked(w0)' = work'[w0].tickets \cup Elements(work'[w0].sessions)
      BY DEF Worked, Elements
    <2>2. QED
      BY <1>5, <2>1 DEF Worked
  <1>7. Elements(sessions)' = {}
    BY <1>2, ElementsEmpty
  <1>8. UNION {Worked(w)' : w \in Sessions}
          = (batch \cup Elements(sessions)) \cup UNION {Worked(w) : w \in Sessions}
    <2>1. ASSUME NEW w \in Sessions, NEW e \in Worked(w)'
          PROVE  e \in batch \cup Elements(sessions) \/ e \in Worked(w)
      BY <1>6, <2>1
    <2>2. ASSUME NEW w \in Sessions, NEW e \in Worked(w)
          PROVE  e \in Worked(w)'
      BY <1>4, <1>6, <2>2
    <2>3. QED
      BY <1>3, <1>6, <2>1, <2>2
  <1>9. Held' = Held /\ Received' = Received
    BY <1>2, <1>7, <1>8 DEF Held, Received
  <1>10. QED
    BY <1>2, <1>3, <1>4, <1>5, <1>6, <1>7, <1>9

\* Every step moves a ticket from one place to one other, or leaves it, unless it
\* drops a ticket for new sessions only.
LEMMA PlaceInductive == IInv /\ [Next]_vars => PlaceInv'
  <1> SUFFICES ASSUME TypeOK, PhaseInv, PlaceInv, OwnerInv, [Next]_vars PROVE PlaceInv'
    BY DEF IInv
  <1>1. ASSUME UNCHANGED <<sent, inbox, inHand, batch, sessions, work>>,
               main' = "params" => main = "params",
               collector' # "idle" => collector # "idle"
        PROVE  PlaceInv'
    <2>1. inbox' = inbox /\ sent' = sent /\ Taken' = Taken /\ Elements(inbox)' = Elements(inbox)
      BY <1>1 DEF Taken
    <2>2. QED
      BY <1>1, <2>1, HeldUnchanged DEF PlaceInv
  <1>2. ASSUME Recv, UNCHANGED <<inHand, batch, sessions, work>>,
               main' # "params",
               collector' = "idle" \/ (Head(inbox) \notin Sessions /\ (collector # "idle" \/ main = "params"))
        PROVE  PlaceInv'
    <2>1. collector' # "idle" => Taken' \subseteq Held'
      BY <1>2, HeldUnchanged, RecvPlaces DEF PlaceInv
    <2>2. QED
      BY <1>2, <2>1, HeldUnchanged, RecvPlaces DEF PlaceInv
  <1>3. ASSUME NEW m \in Messages, ClientSends(m) PROVE PlaceInv'
    <2>1. /\ UNCHANGED <<inHand, batch, sessions, work, main, collector>>
          /\ m \notin sent /\ sent' = sent \cup {m}
          /\ inbox' = Append(inbox, m)
      BY <1>3 DEF ClientSends, readerVars, roundVars, workerVars
    <2>2. inbox \in Seq(Messages) /\ m \notin Elements(inbox)
      BY <2>1 DEF TypeOK, PlaceInv
    <2>3. Elements(inbox') = Elements(inbox) \cup {m}
      BY <2>1, <2>2, ElementsAppend
    <2>4. \A i, j \in 1 .. Len(inbox') : i # j => inbox'[i] # inbox'[j]
      <3>1. \A i, j \in 1 .. Len(inbox) : i # j => inbox[i] # inbox[j]
        BY DEF PlaceInv
      <3>2. QED
        BY <2>1, <2>2, <3>1, AppendDistinct
    <2>5. m \notin Held
      BY <2>1 DEF PlaceInv
    <2>6. Taken' = Taken
      BY <2>1, <2>3 DEF Taken
    <2>7. QED
      BY <2>1, <2>3, <2>4, <2>5, <2>6, HeldUnchanged DEF PlaceInv
  <1>4. CASE RecvEntry
    <2>1. /\ Recv /\ Head(inbox) \in Entries /\ inHand' = Head(inbox)
          /\ inHand = None /\ inHand' # None
          /\ UNCHANGED <<batch, sessions, work, main, collector>>
      BY <1>4, BackfillAssumption DEF RecvEntry, TypeOK, workerVars, roundVars, Entries
    <2>2. inHand' \in Elements(inbox) /\ inHand' \notin Elements(inbox')
      BY <2>1, RecvPlaces
    <2>3. /\ Elements(sessions)' = Elements(sessions)
          /\ \A w \in Sessions : Worked(w)' = Worked(w)
      BY <2>1 DEF Worked
    <2>4. Held' = Held \cup {inHand'}
      BY <2>1, <2>3 DEF Held
    <2>5. inHand' \notin Held
      BY <2>2 DEF PlaceInv
    <2>6. /\ inHand' \notin batch \cup Elements(sessions)
          /\ \A w \in Sessions : inHand' \notin Worked(w)
      BY <2>5 DEF Held
    <2>7. inHand' \in sent
      BY <2>2 DEF PlaceInv
    <2>8. /\ Elements(inbox') \cap Held' = {}
          /\ Elements(inbox') \subseteq sent' /\ Held' \subseteq sent'
      BY <2>1, <2>2, <2>4, <2>7, RecvPlaces DEF PlaceInv
    <2>9. main' # "params" /\ Taken' \subseteq Held'
      BY <1>4, <2>1, <2>4, RecvPlaces DEF RecvEntry, PhaseInv, PlaceInv
    <2>10. QED
      BY <2>1, <2>3, <2>6, <2>8, <2>9, RecvPlaces DEF PlaceInv
  <1>5. ASSUME UNCHANGED <<sent, inbox, work, main, collector>>,
               inHand \in Entries, inHand' = None,
               batch' \subseteq Tickets, Elements(sessions)' \subseteq Sessions,
               batch' \cup Elements(sessions)'
                  = (batch \cup Elements(sessions)) \cup ({inHand} \ NewSessionOnly),
               batch' \cap NewSessionOnly = {}
        PROVE  PlaceInv'
    <2>1. /\ inbox' = inbox /\ sent' = sent /\ Taken' = Taken /\ Elements(inbox)' = Elements(inbox)
          /\ \A w \in Sessions : Worked(w)' = Worked(w)
      BY <1>5 DEF Taken, Worked
    <2>2. /\ Held' \subseteq Held
          /\ Held \subseteq Held' \cup NewSessionOnly
      <3>1. Held' = batch' \cup Elements(sessions)' \cup UNION {Worked(w) : w \in Sessions}
        BY <1>5, <2>1 DEF Held
      <3>2. inHand # None
        BY <1>5, BackfillAssumption DEF Entries
      <3>3. QED
        BY <1>5, <3>1, <3>2 DEF Held
    <2>3. None \notin batch' \cup Elements(sessions)'
      BY <1>5, BackfillAssumption
    <2>4. \A w \in Sessions : Worked(w) \subseteq Entries
      BY ElementsType DEF TypeOK, Worked, Entries
    <2>5. \A w \in Sessions : None \notin Worked(w)
      BY <2>4, BackfillAssumption DEF Entries
    <2>6. Taken \cap NewSessionOnly = {}
      BY BackfillAssumption DEF Taken
    <2>7. \A w \in Sessions : ({inHand'} \cup batch' \cup Elements(sessions)') \cap Worked(w) = {}
      BY <1>5, <2>5 DEF PlaceInv
    <2>8. collector' # "idle" => Taken' \subseteq Held'
      BY <1>5, <2>1, <2>2, <2>6 DEF PlaceInv
    <2>9. QED
      BY <1>5, <2>1, <2>2, <2>3, <2>7, <2>8 DEF PlaceInv
  <1>6. CASE PushTicket
    <2>1. /\ UNCHANGED <<sent, inbox, work, main, collector>>
          /\ inHand \in Tickets /\ inHand' = None
          /\ batch' = batch \cup ({inHand} \ NewSessionOnly)
          /\ sessions' = sessions
      BY <1>6 DEF PushTicket, streamVars, workerVars
    <2>2. Elements(sessions)' = Elements(sessions) /\ Elements(sessions) \subseteq Sessions
      BY <2>1, ElementsType DEF TypeOK
    <2>3. batch' \subseteq Tickets /\ batch' \cap NewSessionOnly = {}
      BY <2>1 DEF TypeOK, PlaceInv
    <2>4. QED
      BY <1>5, <2>1, <2>2, <2>3 DEF Entries
  <1>7. CASE PushSession
    <2>1. /\ UNCHANGED <<sent, inbox, work, main, collector>>
          /\ inHand \in Sessions /\ inHand' = None
          /\ batch' = batch
          /\ sessions' = Append(sessions, inHand)
      BY <1>7 DEF PushSession, streamVars, workerVars
    <2>2. sessions \in Seq(Sessions) /\ sessions' \in Seq(Sessions)
      BY <2>1, ElementsAppend DEF TypeOK
    <2>3. Elements(sessions)' = Elements(sessions) \cup {inHand}
      BY <2>1, <2>2, ElementsAppend
    <2>4. Elements(sessions)' \subseteq Sessions
      BY <2>2, ElementsType
    <2>5. inHand \notin NewSessionOnly /\ batch' \subseteq Tickets /\ batch' \cap NewSessionOnly = {}
      BY <2>1, BackfillAssumption DEF TypeOK, PlaceInv
    <2>6. QED
      BY <1>5, <2>1, <2>3, <2>4, <2>5 DEF Entries
  <1>8. CASE StartWorker
    <2>1. PICK w0 \in Sessions :
          /\ Worked(w0)' = batch \cup Elements(sessions)
          /\ \A w \in Sessions : w # w0 => Worked(w)' = Worked(w)
          /\ batch' = {} /\ Elements(sessions)' = {} /\ inHand' = inHand
          /\ Held' = Held
      BY <1>8, StartWorkerMoves
    <2>2. /\ inbox' = inbox /\ sent' = sent /\ Taken' = Taken /\ Elements(inbox)' = Elements(inbox)
          /\ main' = main /\ collector' = collector
      BY <1>8 DEF StartWorker, streamVars, Taken
    <2>3. (batch \cup Elements(sessions)) \cap NewSessionOnly = {}
      <3>1. Elements(sessions) \subseteq Sessions
        BY ElementsType DEF TypeOK
      <3>2. QED
        BY <3>1, BackfillAssumption DEF PlaceInv
    <2>4. ASSUME NEW w \in Sessions
          PROVE  /\ inHand \notin Worked(w)'
                 /\ Worked(w)' \cap NewSessionOnly = {}
      BY <2>1, <2>3 DEF PlaceInv
    <2>5. ASSUME NEW v \in Sessions, NEW w \in Sessions, v # w
          PROVE  Worked(v)' \cap Worked(w)' = {}
      <3>1. CASE v = w0
        BY <2>1, <2>5, <3>1 DEF PlaceInv
      <3>2. CASE w = w0
        BY <2>1, <2>5, <3>2 DEF PlaceInv
      <3>3. CASE v # w0 /\ w # w0
        BY <2>1, <2>5, <3>3 DEF PlaceInv
      <3>4. QED
        BY <3>1, <3>2, <3>3
    <2>6. QED
      BY <2>1, <2>2, <2>4, <2>5 DEF PlaceInv
  <1>9. CASE Start
    <2>1. Head(inbox) \notin Sessions
      BY <1>9, BackfillAssumption DEF Start
    <2>2. QED
      BY <1>2, <1>9, <2>1 DEF Start, workerVars, roundVars
  <1>10. CASE Refuse
    <2>1. collector' = "idle" /\ main' = "returned"
      BY <1>10 DEF Refuse, PhaseInv
    <2>2. QED
      BY <1>1, <1>2, <1>10, <2>1 DEF Refuse, RecvEnds, streamVars, readerVars, roundVars, workerVars
  <1>11. CASE RecvOther
    <2>1. main # "params" /\ collector # "idle" /\ Head(inbox) \notin Sessions
      BY <1>11 DEF RecvOther, PhaseInv, Entries
    <2>2. main' # "params" /\ collector' # "idle"
      BY <1>11, <2>1 DEF RecvOther
    <2>3. QED
      BY <1>2, <1>11, <2>1, <2>2 DEF RecvOther, readerVars, roundVars, workerVars
  <1>12. CASE ClientCloses \/ ClientBreaks \/ ReaderEnds \/ LastRound \/ CloseResults
    BY <1>1, <1>12 DEF ClientCloses, ClientBreaks, ReaderEnds, RecvEnds, LastRound,
       CloseResults, streamVars, readerVars, roundVars, workerVars
  <1>13. CASE SendProposal \/ SendFails \/ NoMoreProposals \/ UNCHANGED vars
    BY <1>1, <1>13 DEF SendProposal, SendFails, NoMoreProposals, vars,
       streamVars, readerVars, roundVars, workerVars
  <1>14. ASSUME NEW w \in Sessions, Worker(w) PROVE PlaceInv'
    BY <1>1, <1>14 DEF Worker, MatchSessions, TakeProposal, WorkerEnds,
       streamVars, readerVars, roundVars, workerVars
  <1>15. QED
    BY <1>3, <1>4, <1>6, <1>7, <1>8, <1>9, <1>10, <1>11, <1>12, <1>13, <1>14
       DEF Next, Client, Handler, Reader, Collector, Finished

-----------------------------------------------------------------------------
(* Every proposal comes from the round of one worker.                      *)

\* Every step keeps the proposals within the rounds they were made from.
LEMMA OwnerInductive == IInv /\ [Next]_vars => OwnerInv'
  <1> SUFFICES ASSUME TypeOK, PhaseInv, PlaceInv, OwnerInv, [Next]_vars PROVE OwnerInv'
    BY DEF IInv
  <1>1. ASSUME UNCHANGED <<worker, work, out, outHand, delivered>> PROVE OwnerInv'
    <2>1. /\ worker' = worker /\ work' = work
          /\ Holding' = Holding /\ Sent' = Sent
          /\ out' = out
      BY <1>1 DEF Holding, Sent
    <2>2. \A w \in Sessions : Waiting(w)' = Waiting(w) /\ Worked(w)' = Worked(w)
      BY <2>1 DEF Waiting, Worked
    <2>3. QED
      BY <2>1, <2>2 DEF OwnerInv
  <1>2. CASE StartWorker
    <2>1. PICK w0 \in Sessions :
          /\ w0 \in Elements(sessions)
          /\ worker[w0] = "none" /\ work[w0] = NoWork /\ Worked(w0) = {} /\ out[w0] = <<>>
          /\ worker'[w0] = "match" /\ work'[w0].sessions = sessions
          /\ \A w \in Sessions : w # w0 =>
                worker'[w] = worker[w] /\ work'[w] = work[w] /\ Worked(w)' = Worked(w)
      BY <1>2, StartWorkerMoves
    <2>2. out' = out /\ Holding' = Holding /\ Sent' = Sent
      BY <1>2 DEF StartWorker, replyVars, Holding, Sent
    <2>3. \A w \in Sessions : Waiting(w)' = Waiting(w)
      BY <2>2 DEF Waiting
    <2>4. Waiting(w0) = {}
      BY <2>1, ElementsEmpty DEF Waiting
    <2>5. ASSUME NEW m \in (Holding \cup Sent)'
          PROVE \E w \in Sessions : worker'[w] \in {"send", "done"} /\ m \subseteq Worked(w)'
      <3>1. PICK w \in Sessions : worker[w] \in {"send", "done"} /\ m \subseteq Worked(w)
        BY <2>2 DEF OwnerInv
      <3>2. w # w0
        BY <3>1, <2>1
      <3>3. QED
        BY <3>1, <3>2, <2>1
    <2>6. ASSUME NEW w \in Sessions
          PROVE  /\ worker'[w] = "none" => work'[w] = NoWork
                 /\ worker'[w] # "none" => w \in Elements(work'[w].sessions)
                 /\ worker'[w] \in {"none", "match", "done"} => out'[w] = <<>>
                 /\ \A m \in Waiting(w)' : m # {} /\ m \subseteq Worked(w)'
      <3>1. CASE w = w0
        BY <3>1, <2>1, <2>2, <2>3, <2>4
      <3>2. CASE w # w0
        BY <3>2, <2>1, <2>2, <2>3 DEF OwnerInv
      <3>3. QED
        BY <3>1, <3>2
    <2>7. QED
      BY <2>5, <2>6 DEF OwnerInv
  <1>3. ASSUME NEW w \in Sessions, MatchSessions(w) PROVE OwnerInv'
    <2>1. PICK g \in Proposals(work[w]) : out' = [out EXCEPT ![w] = g]
      BY <1>3 DEF MatchSessions
    <2>2. /\ worker[w] = "match" /\ worker' = [worker EXCEPT ![w] = "send"]
          /\ work' = work /\ Holding' = Holding /\ Sent' = Sent
      BY <1>3 DEF MatchSessions, replyVars, Holding, Sent
    <2>3. \A m \in Elements(g) : m # {} /\ m \subseteq Worked(w)
      <3>1. PICK T \in SUBSET Tickets, q \in Seq(Sessions) : work[w] = [tickets |-> T, sessions |-> q]
        BY DEF TypeOK
      <3>2. Worked(w) = T \cup Elements(q)
        BY <3>1 DEF Worked
      <3>3. QED
        BY <2>1, <3>1, <3>2, ProposalsType
    <2>4. /\ Waiting(w)' = Elements(g)
          /\ \A v \in Sessions : v # w => Waiting(v)' = Waiting(v) /\ out'[v] = out[v]
      BY <2>1 DEF Waiting, TypeOK
    <2>5. worker'[w] = "send" /\ \A v \in Sessions : v # w => worker'[v] = worker[v]
      BY <2>2 DEF TypeOK
    <2>6. \A v \in Sessions : Worked(v)' = Worked(v)
      BY <2>2 DEF Worked
    <2>7. QED
      BY <2>2, <2>3, <2>4, <2>5, <2>6 DEF OwnerInv
  <1>4. ASSUME NEW w \in Sessions, TakeProposal(w) PROVE OwnerInv'
    <2>1. /\ worker[w] = "send" /\ out[w] # <<>>
          /\ outHand' = Head(out[w]) /\ out' = [out EXCEPT ![w] = Tail(out[w])]
          /\ worker' = worker /\ work' = work /\ Sent' = Sent
      BY <1>4 DEF TakeProposal, Sent
    <2>2. out[w] \in Seq(SUBSET Entries)
      BY DEF TypeOK
    <2>3. Head(out[w]) \in Waiting(w) /\ Elements(Tail(out[w])) \subseteq Waiting(w)
      BY <2>1, <2>2, ElementsTail DEF Waiting
    <2>4. /\ Waiting(w)' \subseteq Waiting(w)
          /\ \A v \in Sessions : v # w => Waiting(v)' = Waiting(v) /\ out'[v] = out[v]
      BY <2>1, <2>3 DEF Waiting, TypeOK
    <2>5. \A v \in Sessions : Worked(v)' = Worked(v)
      BY <2>1 DEF Worked
    <2>6. Holding' \subseteq {Head(out[w])}
      BY <2>1 DEF Holding
    <2>7. \A m \in (Holding \cup Sent)' :
             \E v \in Sessions : worker'[v] \in {"send", "done"} /\ m \subseteq Worked(v)'
      <3>1. Head(out[w]) \subseteq Worked(w)
        BY <2>3 DEF OwnerInv
      <3>2. QED
        BY <2>1, <2>5, <2>6, <3>1 DEF OwnerInv
    <2>8. \A v \in Sessions : \A m \in Waiting(v)' : m # {} /\ m \subseteq Worked(v)
      BY <2>4 DEF OwnerInv
    <2>9. \A v \in Sessions : worker[v] \in {"none", "match", "done"} => out'[v] = <<>>
      BY <2>1, <2>4 DEF OwnerInv
    <2>10. QED
      BY <2>1, <2>5, <2>7, <2>8, <2>9 DEF OwnerInv
  <1>5. ASSUME NEW w \in Sessions, WorkerEnds(w) PROVE OwnerInv'
    <2>1. /\ worker[w] = "send" /\ out[w] = <<>>
          /\ worker' = [worker EXCEPT ![w] = "done"]
          /\ out' = out /\ work' = work /\ Holding' = Holding /\ Sent' = Sent
      BY <1>5 DEF WorkerEnds, replyVars, Holding, Sent
    <2>2. \A v \in Sessions : Waiting(v)' = Waiting(v) /\ Worked(v)' = Worked(v)
      BY <2>1 DEF Waiting, Worked
    <2>3. worker'[w] = "done" /\ \A v \in Sessions : v # w => worker'[v] = worker[v]
      BY <2>1 DEF TypeOK
    <2>4. QED
      BY <2>1, <2>2, <2>3 DEF OwnerInv
  <1>6. CASE SendProposal
    <2>1. /\ outHand # {} /\ outHand' = {} /\ delivered' = Append(delivered, outHand)
          /\ worker' = worker /\ work' = work /\ out' = out
      BY <1>6 DEF SendProposal, workerVars, PhaseInv
    <2>2. Sent' = Sent \cup {outHand} /\ Holding = {outHand} /\ Holding' = {}
      <3>1. delivered \in Seq(SUBSET Entries) /\ outHand \in SUBSET Entries
        BY DEF TypeOK
      <3>2. Elements(delivered') = Elements(delivered) \cup {outHand}
        BY <2>1, <3>1, ElementsAppend
      <3>3. QED
        BY <2>1, <3>2 DEF Sent, Holding
    <2>3. \A v \in Sessions : Waiting(v)' = Waiting(v) /\ Worked(v)' = Worked(v)
      BY <2>1 DEF Waiting, Worked
    <2>4. QED
      BY <2>1, <2>2, <2>3 DEF OwnerInv
  <1>7. CASE Client \/ Reader \/ UNCHANGED vars
    BY <1>1, <1>7 DEF Client, ClientSends, ClientCloses, ClientBreaks,
       Reader, RecvEntry, RecvOther, ReaderEnds, vars, workerVars, replyVars
  <1>8. CASE Start \/ Refuse \/ SendFails \/ NoMoreProposals
    BY <1>1, <1>8 DEF Start, Refuse, SendFails, NoMoreProposals, workerVars, replyVars
  <1>9. CASE PushTicket \/ PushSession \/ LastRound \/ CloseResults
    BY <1>1, <1>9 DEF PushTicket, PushSession, LastRound, CloseResults, workerVars, replyVars
  <1>10. QED
    BY <1>2, <1>3, <1>4, <1>5, <1>6, <1>7, <1>8, <1>9
       DEF Next, Handler, Collector, Worker, Finished

-----------------------------------------------------------------------------
(* No ticket and no backfill ticket is in two different proposals.         *)

\* Every step keeps all proposals, made or sent, disjoint.
LEMMA OnceInductive == IInv /\ [Next]_vars => NoEntryTwice'
  <1> SUFFICES ASSUME TypeOK, PhaseInv, PlaceInv, OwnerInv, NoEntryTwice, [Next]_vars
               PROVE  NoEntryTwice'
    BY DEF IInv
  <1>1. ASSUME UNCHANGED <<out, outHand, delivered>> PROVE NoEntryTwice'
    <2>1. out' = out /\ delivered' = delivered /\ Holding' = Holding /\ Sent' = Sent
      BY <1>1 DEF Holding, Sent
    <2>2. \A w \in Sessions : Waiting(w)' = Waiting(w)
      BY <2>1 DEF Waiting
    <2>3. QED
      BY <2>1, <2>2 DEF NoEntryTwice
  <1>2. ASSUME NEW w \in Sessions, MatchSessions(w) PROVE NoEntryTwice'
    <2>1. PICK g \in Proposals(work[w]) : out' = [out EXCEPT ![w] = g]
      BY <1>2 DEF MatchSessions
    <2>2. /\ worker[w] = "match"
          /\ delivered' = delivered /\ Holding' = Holding /\ Sent' = Sent
      BY <1>2 DEF MatchSessions, replyVars, Holding, Sent
    <2>3. PICK T \in SUBSET Tickets, q \in Seq(Sessions) : work[w] = [tickets |-> T, sessions |-> q]
      BY DEF TypeOK
    <2>4. /\ \A m \in Elements(g) : m \subseteq Worked(w)
          /\ \A i, j \in 1 .. Len(g) : i # j => Apart(g[i], g[j])
      <3>1. Worked(w) = T \cup Elements(q)
        BY <2>3 DEF Worked
      <3>2. QED
        BY <2>1, <2>3, <3>1, ProposalsType
    <2>5. /\ out'[w] = g /\ Waiting(w)' = Elements(g)
          /\ \A v \in Sessions : v # w => Waiting(v)' = Waiting(v) /\ out'[v] = out[v]
      BY <2>1 DEF Waiting, TypeOK
    <2>6. ASSUME NEW n \in Holding \cup Sent PROVE n \cap Worked(w) = {}
      <3>1. PICK v \in Sessions : worker[v] \in {"send", "done"} /\ n \subseteq Worked(v)
        BY DEF OwnerInv
      <3>2. v # w
        BY <3>1, <2>2
      <3>3. QED
        BY <3>1, <3>2 DEF PlaceInv
    <2>7. ASSUME NEW v \in Sessions, v # w, NEW n \in Waiting(v) PROVE n \cap Worked(w) = {}
      <3>1. n \subseteq Worked(v)
        BY DEF OwnerInv
      <3>2. QED
        BY <3>1, <2>7 DEF PlaceInv
    <2>8. \A v \in Sessions : \A m \in Waiting(v)', n \in (Holding \cup Sent)' : Apart(m, n)
      <3>1. SUFFICES ASSUME NEW v \in Sessions, NEW m \in Waiting(v)', NEW n \in Holding \cup Sent
                     PROVE  Apart(m, n)
        BY <2>2
      <3>2. CASE v = w
        BY <3>2, <2>4, <2>5, <2>6 DEF Apart
      <3>3. CASE v # w
        BY <3>3, <2>5 DEF NoEntryTwice
      <3>4. QED
        BY <3>2, <3>3
    <2>9. \A v \in Sessions : \A i, j \in 1 .. Len(out'[v]) : i # j => Apart(out'[v][i], out'[v][j])
      BY <2>4, <2>5 DEF NoEntryTwice
    <2>10. ASSUME NEW u \in Sessions, NEW v \in Sessions, u # v,
                  NEW m \in Waiting(u)', NEW n \in Waiting(v)'
           PROVE  Apart(m, n)
      <3>1. CASE u = w
        BY <3>1, <2>4, <2>5, <2>7, <2>10 DEF Apart
      <3>2. CASE v = w
        BY <3>2, <2>4, <2>5, <2>7, <2>10 DEF Apart
      <3>3. CASE u # w /\ v # w
        BY <3>3, <2>5, <2>10 DEF NoEntryTwice
      <3>4. QED
        BY <3>1, <3>2, <3>3
    <2>11. QED
      BY <2>2, <2>8, <2>9, <2>10 DEF NoEntryTwice
  <1>3. ASSUME NEW w \in Sessions, TakeProposal(w) PROVE NoEntryTwice'
    <2> DEFINE h == Head(out[w])
    <2>1. /\ out[w] # <<>> /\ main = "recv" /\ outHand' = h
          /\ out' = [out EXCEPT ![w] = Tail(out[w])]
          /\ delivered' = delivered /\ Sent' = Sent
      BY <1>3 DEF TakeProposal, Sent
    <2>2. out[w] \in Seq(SUBSET Entries)
      BY DEF TypeOK
    <2>3. /\ h = out[w][1] /\ h \in Waiting(w)
          /\ Len(out[w]) \in Nat \ {0}
          /\ Len(Tail(out[w])) = Len(out[w]) - 1
          /\ \A i \in 1 .. Len(Tail(out[w])) :
                i + 1 \in 1 .. Len(out[w]) /\ Tail(out[w])[i] = out[w][i + 1]
          /\ Elements(Tail(out[w])) \subseteq Waiting(w)
      BY <2>1, <2>2, ElementsTail DEF Waiting
    <2>4. /\ out'[w] = Tail(out[w]) /\ Waiting(w)' = Elements(Tail(out[w]))
          /\ \A v \in Sessions : v # w => Waiting(v)' = Waiting(v) /\ out'[v] = out[v]
      BY <2>1 DEF Waiting, TypeOK
    <2>5. \A v \in Sessions : Waiting(v)' \subseteq Waiting(v)
      BY <2>3, <2>4
    <2>6. Holding' \subseteq {h}
      BY <2>1 DEF Holding
    <2>7. \A m \in Waiting(w)' : Apart(m, h)
      <3>1. SUFFICES ASSUME NEW i \in 1 .. Len(Tail(out[w])) PROVE Apart(Tail(out[w])[i], h)
        BY <2>4 DEF Elements
      <3>2. i + 1 \in 1 .. Len(out[w]) /\ 1 \in 1 .. Len(out[w]) /\ i + 1 # 1
        BY <2>3
      <3>3. QED
        BY <2>3, <3>2 DEF NoEntryTwice
    <2>8. \A v \in Sessions : v # w => \A m \in Waiting(v)' : Apart(m, h)
      BY <2>3, <2>4 DEF NoEntryTwice
    <2>9. \A n \in Sent : Apart(h, n)
      BY <2>3 DEF NoEntryTwice
    <2>10. \A v \in Sessions : \A m \in Waiting(v)', n \in (Holding \cup Sent)' : Apart(m, n)
      BY <2>1, <2>5, <2>6, <2>7, <2>8 DEF NoEntryTwice
    <2>11. \A m \in Holding', n \in Sent' : Apart(m, n)
      BY <2>1, <2>6, <2>9
    <2>12. ASSUME NEW v \in Sessions, NEW i \in 1 .. Len(out'[v]), NEW j \in 1 .. Len(out'[v]), i # j
           PROVE  Apart(out'[v][i], out'[v][j])
      <3>1. CASE v # w
        BY <3>1, <2>4, <2>12 DEF NoEntryTwice
      <3>2. CASE v = w
        <4>1. /\ i + 1 \in 1 .. Len(out[w]) /\ out'[v][i] = out[w][i + 1]
              /\ j + 1 \in 1 .. Len(out[w]) /\ out'[v][j] = out[w][j + 1]
              /\ i + 1 # j + 1
          BY <3>2, <2>3, <2>4, <2>12
        <4>2. QED
          BY <4>1 DEF NoEntryTwice
      <3>3. QED
        BY <3>1, <3>2
    <2>13. \A u, v \in Sessions : u # v => \A m \in Waiting(u)', n \in Waiting(v)' : Apart(m, n)
      BY <2>5 DEF NoEntryTwice
    <2>14. QED
      BY <2>1, <2>10, <2>11, <2>12, <2>13 DEF NoEntryTwice
  <1>4. CASE SendProposal
    <2>1. /\ outHand # {} /\ outHand' = {} /\ delivered' = Append(delivered, outHand)
          /\ out' = out
      BY <1>4 DEF SendProposal, workerVars, PhaseInv
    <2>2. /\ Sent' = Sent \cup {outHand} /\ Holding = {outHand} /\ Holding' = {}
          /\ Len(delivered) \in Nat
          /\ Len(delivered') = Len(delivered) + 1
          /\ \A i \in 1 .. Len(delivered) : delivered'[i] = delivered[i]
          /\ delivered'[Len(delivered) + 1] = outHand
      <3>1. delivered \in Seq(SUBSET Entries) /\ outHand \in SUBSET Entries
        BY DEF TypeOK
      <3>2. /\ Elements(delivered') = Elements(delivered) \cup {outHand}
            /\ Len(delivered') = Len(delivered) + 1
            /\ \A i \in 1 .. Len(delivered) : delivered'[i] = delivered[i]
            /\ delivered'[Len(delivered) + 1] = outHand
        BY <2>1, <3>1, ElementsAppend
      <3>3. Len(delivered) \in Nat
        BY <3>1, LenProperties
      <3>4. QED
        BY <2>1, <3>2, <3>3 DEF Sent, Holding
    <2>3. \A v \in Sessions : Waiting(v)' = Waiting(v)
      BY <2>1 DEF Waiting
    <2>4. \A i \in 1 .. Len(delivered) : Apart(delivered[i], outHand)
      <3>1. \A i \in 1 .. Len(delivered) : delivered[i] \in Sent
        BY DEF Sent, Elements
      <3>2. QED
        BY <3>1, <2>2, ApartSymmetric DEF NoEntryTwice
    <2>5. ASSUME NEW i \in 1 .. Len(delivered'), NEW j \in 1 .. Len(delivered'), i # j
          PROVE  Apart(delivered'[i], delivered'[j])
      <3>1. i \in 1 .. Len(delivered) \/ i = Len(delivered) + 1
        BY <2>2
      <3>2. j \in 1 .. Len(delivered) \/ j = Len(delivered) + 1
        BY <2>2
      <3>3. QED
        BY <2>2, <2>4, <2>5, <3>1, <3>2, ApartSymmetric DEF NoEntryTwice
    <2>6. \A v \in Sessions : \A m \in Waiting(v)', n \in (Holding \cup Sent)' : Apart(m, n)
      BY <2>2, <2>3 DEF NoEntryTwice
    <2>7. \A v \in Sessions : \A i, j \in 1 .. Len(out'[v]) : i # j => Apart(out'[v][i], out'[v][j])
      BY <2>1 DEF NoEntryTwice
    <2>8. \A u, v \in Sessions : u # v => \A m \in Waiting(u)', n \in Waiting(v)' : Apart(m, n)
      BY <2>3 DEF NoEntryTwice
    <2>9. \A m \in Holding', n \in Sent' : Apart(m, n)
      BY <2>2
    <2>10. QED
      BY <2>5, <2>6, <2>7, <2>8, <2>9 DEF NoEntryTwice
  <1>5. CASE Client \/ Reader \/ UNCHANGED vars
    BY <1>1, <1>5 DEF Client, ClientSends, ClientCloses, ClientBreaks,
       Reader, RecvEntry, RecvOther, ReaderEnds, vars, workerVars, replyVars
  <1>6. CASE Start \/ Refuse \/ SendFails \/ NoMoreProposals
    BY <1>1, <1>6 DEF Start, Refuse, SendFails, NoMoreProposals, workerVars, replyVars
  <1>7. CASE Collector
    BY <1>1, <1>7 DEF Collector, PushTicket, PushSession, StartWorker, LastRound, CloseResults,
       workerVars, replyVars
  <1>8. ASSUME NEW w \in Sessions, WorkerEnds(w) PROVE NoEntryTwice'
    BY <1>1, <1>8 DEF WorkerEnds, replyVars
  <1>9. QED
    BY <1>2, <1>3, <1>4, <1>5, <1>6, <1>7, <1>8
       DEF Next, Handler, Worker, Finished

-----------------------------------------------------------------------------
(* The theorems.                                                           *)

\* The inductive invariant holds when the call arrives.
LEMMA InitInv == Init => IInv
  <1> SUFFICES ASSUME Init PROVE IInv
    OBVIOUS
  <1> USE DEF Init
  <1>1. TypeOK
    <2>1. NoWork \in [tickets : SUBSET Tickets, sessions : Seq(Sessions)]
      BY EmptySeq DEF NoWork
    <2>2. work \in [Sessions -> [tickets : SUBSET Tickets, sessions : Seq(Sessions)]]
      BY <2>1
    <2>3. reads \in 0 .. ChunkSize
      BY BackfillAssumption
    <2>4. QED
      BY <2>2, <2>3, EmptySeq DEF TypeOK
  <1>2. PhaseInv
    BY DEF PhaseInv, AllWorkersEnded
  <1>3. /\ Elements(inbox) = {} /\ Elements(sessions) = {} /\ Elements(delivered) = {}
        /\ \A w \in Sessions : Worked(w) = {} /\ Elements(out[w]) = {}
        /\ Len(inbox) = 0 /\ Len(delivered) = 0 /\ \A w \in Sessions : Len(out[w]) = 0
    BY ElementsEmpty, EmptySeq DEF Worked, NoWork
  <1>4. PlaceInv
    BY <1>3 DEF PlaceInv, Held, Taken
  <1>5. OwnerInv
    BY <1>3 DEF OwnerInv, Waiting, Holding, Sent
  <1>6. NoEntryTwice
    BY <1>3 DEF NoEntryTwice, Waiting, Holding, Sent
  <1>7. QED
    BY <1>1, <1>2, <1>4, <1>5, <1>6 DEF IInv

\* The inductive invariant holds throughout every call.
THEOREM Invariance == Spec => []IInv
  <1>1. IInv /\ [Next]_vars => IInv'
    BY TypeInductive, PhaseInductive, PlaceInductive, OwnerInductive, OnceInductive DEF IInv
  <1>2. QED
    BY <1>1, InitInv, PTL DEF Spec

\* The variables keep their types.
THEOREM TypeCorrect == Spec => []TypeOK
  <1>1. IInv => TypeOK
    BY DEF IInv
  <1>2. QED
    BY <1>1, Invariance, PTL

\* No ticket and no backfill ticket is ever in two different proposals, and no proposal
\* is made twice unless the rules may change for a session, for any number of messages,
\* any rounds and any mix on the stream, whatever the client does to it.
THEOREM EntriesUsedOnce == Spec => []NoEntryTwice
  <1>1. IInv => NoEntryTwice
    BY DEF IInv
  <1>2. QED
    BY <1>1, Invariance, PTL

\* A handler that returned without a Send error has sent every proposal made.
THEOREM ProposalsAllSent == Spec => []EveryProposalSent
  <1>1. IInv => EveryProposalSent
    <2> SUFFICES ASSUME IInv, main = "returned", outHand = {}, NEW w \in Sessions
                 PROVE  out[w] = <<>>
      BY DEF EveryProposalSent
    <2>1. worker[w] \in {"none", "done"}
      BY DEF IInv, PhaseInv, AllWorkersEnded
    <2>2. QED
      BY <2>1 DEF IInv, OwnerInv
  <1>2. QED
    BY <1>1, Invariance, PTL

\* With a chunk size above zero, no backfill ticket is left behind when the
\* collector stops: each is in the round of exactly one worker.
THEOREM SessionsAllWorked ==
    ASSUME ChunkSize > 0
    PROVE  Spec => []EverySessionWorked
  <1>1. IInv => EverySessionWorked
    <2> SUFFICES ASSUME IInv, collector \in {"wait", "closed"}, NEW s \in Taken
                 PROVE  Cardinality({w \in Sessions : s \in Elements(work[w].sessions)}) = 1
      BY DEF EverySessionWorked
    <2>1. inHand = None /\ sessions = <<>> /\ s \in Held
      BY DEF IInv, PhaseInv, PlaceInv, TypeOK
    <2>2. s \in Sessions /\ s # None /\ s \notin Tickets
      BY BackfillAssumption DEF Taken
    <2>3. s \notin batch
      BY <2>2 DEF IInv, TypeOK
    <2>4. PICK w \in Sessions : s \in Worked(w)
      BY <2>1, <2>2, <2>3, ElementsEmpty DEF Held
    <2>5. s \in Elements(work[w].sessions)
      <3>1. work[w].tickets \subseteq Tickets
        BY DEF IInv, TypeOK
      <3>2. QED
        BY <2>2, <2>4, <3>1 DEF Worked
    <2>6. \A v \in Sessions : s \in Elements(work[v].sessions) => v = w
      BY <2>4 DEF IInv, PlaceInv, Worked
    <2>7. {v \in Sessions : s \in Elements(work[v].sessions)} = {w}
      BY <2>5, <2>6
    <2>8. QED
      BY <2>7, FS_Singleton
  <1>2. QED
    BY <1>1, Invariance, PTL

-----------------------------------------------------------------------------
(* The stream implements the abstract feed.                                *)

\* Every step of a call is a step of the feed or leaves the feed as it is: to
\* the feed, a ticket for new sessions only was never received.
LEMMA FeedStep == IInv /\ [Next]_vars => [Feed!FeedNext]_(Feed!feedVars)
  <1> SUFFICES ASSUME IInv, [Next]_vars PROVE [Feed!FeedNext]_(Feed!feedVars)
    OBVIOUS
  <1> USE DEF Feed!feedVars
  <1>1. ASSUME UNCHANGED <<inHand, batch, sessions, work, delivered, main>>
        PROVE  UNCHANGED Feed!feedVars
    BY <1>1, HeldUnchanged
  <1>2. ASSUME UNCHANGED <<inHand, batch, sessions, work, delivered>>,
               main # "returned", main' = "returned"
        PROVE  Feed!End
    BY <1>2, HeldUnchanged DEF Feed!End
  <1>3. CASE Client
    BY <1>1, <1>3 DEF Client, ClientSends, ClientCloses, ClientBreaks,
       readerVars, roundVars, workerVars, replyVars
  <1>4. CASE Start
    BY <1>4, HeldUnchanged DEF Start, roundVars, workerVars, replyVars
  <1>5. CASE Refuse \/ SendFails \/ NoMoreProposals
    BY <1>2, <1>5 DEF Refuse, SendFails, NoMoreProposals, readerVars, roundVars, workerVars,
       replyVars, Feed!FeedNext
  <1>6. CASE RecvEntry
    <2>1. /\ Recv /\ inHand' = Head(inbox) /\ Head(inbox) \in Entries /\ inHand = None
          /\ UNCHANGED <<batch, sessions, work, delivered, main>>
      BY <1>6 DEF RecvEntry, IInv, TypeOK, roundVars, workerVars, replyVars
    <2>2. inHand' # None
      BY <2>1, BackfillAssumption DEF Entries
    <2>3. Held' = Held \cup {inHand'}
      BY <2>1, <2>2 DEF Held, Worked
    <2>4. inHand' \notin Held
      BY <2>1, RecvPlaces DEF IInv, PlaceInv
    <2>5. CASE inHand' \in NewSessionOnly
      <3>1. Received' = Received
        BY <2>3, <2>5 DEF Received
      <3>2. QED
        BY <2>1, <3>1
    <2>6. CASE inHand' \notin NewSessionOnly
      <3>1. Received' = Received \cup {inHand'} /\ inHand' \notin Received
        BY <2>3, <2>4, <2>6 DEF Received
      <3>2. Feed!Take(inHand')
        BY <2>1, <3>1 DEF Feed!Take
      <3>3. QED
        BY <2>1, <3>2 DEF Feed!FeedNext
    <2>7. QED
      BY <2>5, <2>6
  <1>7. CASE RecvOther \/ ReaderEnds
    BY <1>1, <1>7 DEF RecvOther, ReaderEnds, readerVars, roundVars, workerVars, replyVars
  <1>8. CASE PushTicket
    <2>1. /\ inHand \in Tickets /\ inHand' = None
          /\ batch' = batch \cup ({inHand} \ NewSessionOnly)
          /\ UNCHANGED <<sessions, work, delivered, main>>
      BY <1>8 DEF PushTicket, workerVars, replyVars
    <2>2. inHand # None
      BY <2>1, BackfillAssumption
    <2>3. Received' = Received
      BY <2>1, <2>2 DEF Received, Held, Worked
    <2>4. QED
      BY <2>1, <2>3
  <1>9. CASE PushSession
    <2>1. /\ inHand \in Sessions /\ inHand' = None
          /\ sessions' = Append(sessions, inHand)
          /\ UNCHANGED <<batch, work, delivered, main>>
      BY <1>9 DEF PushSession, workerVars, replyVars
    <2>2. inHand # None
      BY <2>1, BackfillAssumption
    <2>3. Elements(sessions)' = Elements(sessions) \cup {inHand}
      BY <2>1, ElementsAppend DEF IInv, TypeOK
    <2>4. Received' = Received
      BY <2>1, <2>2, <2>3 DEF Received, Held, Worked
    <2>5. QED
      BY <2>1, <2>4
  <1>10. CASE StartWorker
    <2>1. Received' = Received
      BY <1>10, StartWorkerMoves DEF IInv
    <2>2. QED
      BY <1>10, <2>1 DEF StartWorker, replyVars
  <1>11. CASE LastRound \/ CloseResults
    BY <1>1, <1>11 DEF LastRound, CloseResults, readerVars, roundVars, workerVars, replyVars
  <1>12. ASSUME NEW w \in Sessions, MatchSessions(w) \/ WorkerEnds(w)
         PROVE  UNCHANGED Feed!feedVars
    BY <1>1, <1>12 DEF MatchSessions, WorkerEnds, readerVars, roundVars, workerVars, replyVars
  <1>13. ASSUME NEW w \in Sessions, TakeProposal(w) PROVE UNCHANGED Feed!feedVars
    BY <1>13, HeldUnchanged DEF TakeProposal, readerVars, roundVars
  <1>14. CASE SendProposal
    <2>1. /\ main = "send" /\ main' = "recv"
          /\ delivered' = Append(delivered, outHand) /\ outHand # {}
          /\ UNCHANGED <<inHand, batch, sessions, work>>
      BY <1>14 DEF SendProposal, IInv, PhaseInv, readerVars, roundVars, workerVars
    <2>2. Received' = Received
      BY <2>1, HeldUnchanged
    <2>3. outHand \in Holding /\ outHand \in SUBSET Entries
      BY <2>1 DEF Holding, IInv, TypeOK
    <2>4. outHand \subseteq Received
      <3>1. PICK w \in Sessions : outHand \subseteq Worked(w)
        BY <2>3 DEF IInv, OwnerInv
      <3>2. Worked(w) \cap NewSessionOnly = {} /\ Worked(w) \subseteq Held
        BY DEF IInv, PlaceInv, Held
      <3>3. QED
        BY <3>1, <3>2 DEF Received
    <2>5. \A k \in 1 .. Len(delivered) :
            delivered[k] \cap outHand = {} \/ (AllianceFlexes /\ delivered[k] = outHand)
      <3>1. \A k \in 1 .. Len(delivered) : delivered[k] \in Sent
        BY DEF Sent, Elements
      <3>2. QED
        BY <3>1, <2>3 DEF IInv, NoEntryTwice, Apart
    <2>6. Feed!Give(outHand)
      BY <2>1, <2>2, <2>4, <2>5 DEF Feed!Give
    <2>7. QED
      BY <2>3, <2>6 DEF Feed!FeedNext
  <1>15. CASE UNCHANGED vars
    BY <1>1, <1>15 DEF vars, readerVars, roundVars, workerVars, replyVars
  <1>16. QED
    BY <1>3, <1>4, <1>5, <1>6, <1>7, <1>8, <1>9, <1>10, <1>11, <1>12, <1>13, <1>14, <1>15
       DEF Next, Handler, Reader, Collector, Worker, Finished

\* Every BackfillMatches call implements the abstract feed: what it proposes was
\* sent to it for backfilling, nothing is in two different proposals, and nothing goes
\* out after the end.
THEOREM BackfillImplementsFeed == Spec => ImplementsFeed
  <1>1. Init => Feed!FeedInit
    <2> SUFFICES ASSUME Init PROVE Feed!FeedInit
      OBVIOUS
    <2>1. Held = {}
      BY ElementsEmpty DEF Init, Held, Worked, NoWork
    <2>2. QED
      BY <2>1 DEF Init, Received, Feed!FeedInit
  <1>2. QED
    BY <1>1, FeedStep, Invariance, PTL DEF Spec, ImplementsFeed, Feed!FeedSpec

=============================================================================
