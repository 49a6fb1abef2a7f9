----------------------------- MODULE MatchStream -----------------------------
(***************************************************************************)
(* One MakeMatches RPC of pkg/server/matchFunctionService.go together with *)
(* the goroutines that defaultmatchmaker/matchlogic.go starts for it:      *)
(*                                                                         *)
(*   handler   reads the parameters, starts everything, waits              *)
(*   reader    takes tickets off the gRPC stream, puts them in a channel   *)
(*   chunker   collects ChunkSize tickets at a time, starts one worker per *)
(*             chunk, and closes the results channel when all have ended   *)
(*   workers   run MatchPlayers on their chunk, put each match in results  *)
(*   sender    takes matches from results and sends them to the client     *)
(*                                                                         *)
(* Both channels are unbuffered: a send and the receive that takes it are  *)
(* one step here (PushTicket, TakeMatch), a goroutine whose peer is not    *)
(* ready is blocked.  A worker is named by the first ticket of its chunk.  *)
(* What MatchPlayers computes is abstracted to what every run of it yields *)
(* (PivotMatching): disjoint groups of the tickets it was given.           *)
(***************************************************************************)
EXTENDS Grouping

CONSTANTS
    Tickets,        \* ticket messages (two messages are never the same ticket)
    Params,         \* a parameters message whose rules load
    Junk,           \* messages that are neither: other types, rules that do not load
    None,           \* "no ticket"
    ChunkSize,      \* TICKET_CHUNK_SIZE, the indexedTicketLength of New
    ClientMayBreak  \* whether the client's side of the stream may fail

ASSUME StreamAssumption ==
    /\ Tickets \cap Junk = {}
    /\ Params \notin Tickets \cup Junk
    /\ None \notin Tickets
    /\ ChunkSize \in Nat
    /\ ClientMayBreak \in BOOLEAN

Messages == Tickets \cup Junk \cup {Params}

VARIABLES
    sent,       \* messages the client has sent
    inbox,      \* messages sent and not yet received, in order
    eof,        \* the client has closed its sending side
    broken,     \* the stream has failed: Recv and Send may return errors
    main,       \* the handler: "params", "running", "returned"
    reader,     \* "idle", "recv", "push", "closed" (ended, both channels closed)
    inHand,     \* the ticket the reader is pushing
    chunker,    \* "idle", "collect", "wait", "closed" (results channel closed)
    chunk,      \* tickets collected for the next worker, in order
    worker,     \* per worker: "none", "match", "send", "done"
    work,       \* per worker: its chunk
    out,        \* per worker: the matches it has yet to put in results
    sender,     \* "idle", "range", "send", "closed", "failed"
    outHand,    \* the match the sender is sending, {} when there is none
    delivered,  \* matches server.Send accepted, in order
    crashed     \* a goroutine panicked: the process is gone

streamVars  == <<sent, inbox, eof, broken>>
readerVars  == <<reader, inHand>>
workerVars  == <<worker, work, out>>
senderVars  == <<sender, outHand, delivered>>
vars == <<streamVars, main, readerVars, chunker, chunk, workerVars, senderVars, crashed>>

TypeOK ==
    /\ sent \subseteq Messages
    /\ inbox \in Seq(Messages)
    /\ eof \in BOOLEAN
    /\ broken \in BOOLEAN
    /\ main \in {"params", "running", "returned"}
    /\ reader \in {"idle", "recv", "push", "closed"}
    /\ inHand \in IF reader = "push" THEN Tickets ELSE {None}
    /\ chunker \in {"idle", "collect", "wait", "closed"}
    /\ chunk \in Seq(Tickets)
    /\ worker \in [Tickets -> {"none", "match", "send", "done"}]
    /\ work \in [Tickets -> Seq(Tickets)]
    /\ out \in [Tickets -> Seq(SUBSET Tickets)]
    /\ sender \in {"idle", "range", "send", "closed", "failed"}
    /\ outHand \in SUBSET Tickets
    /\ delivered \in Seq(SUBSET Tickets)
    /\ crashed \in BOOLEAN

Init ==
    /\ sent = {} /\ inbox = <<>> /\ eof = FALSE /\ broken = FALSE
    /\ main = "params"
    /\ reader = "idle" /\ inHand = None
    /\ chunker = "idle" /\ chunk = <<>>
    /\ worker = [w \in Tickets |-> "none"]
    /\ work = [w \in Tickets |-> <<>>]
    /\ out = [w \in Tickets |-> <<>>]
    /\ sender = "idle" /\ outHand = {} /\ delivered = <<>>
    /\ crashed = FALSE

-----------------------------------------------------------------------------
(* The client and the transport.                                           *)

ClientSends(m) ==
    /\ ~eof /\ ~broken /\ main # "returned"
    /\ m \notin sent
    /\ sent' = sent \cup {m}
    /\ inbox' = Append(inbox, m)
    /\ UNCHANGED <<eof, broken, main, readerVars, chunker, chunk, workerVars, senderVars, crashed>>

ClientCloses ==
    /\ ~eof /\ ~broken
    /\ eof' = TRUE
    /\ UNCHANGED <<sent, inbox, broken, main, readerVars, chunker, chunk, workerVars, senderVars, crashed>>

\* The client cancels, its deadline passes or the connection is lost.
ClientBreaks ==
    /\ ClientMayBreak
    /\ ~broken
    /\ broken' = TRUE
    /\ UNCHANGED <<sent, inbox, eof, main, readerVars, chunker, chunk, workerVars, senderVars, crashed>>

\* server.Recv returns the next message; a failed stream may still hold some.
Recv == inbox # <<>> /\ inbox' = Tail(inbox) /\ UNCHANGED <<sent, eof, broken>>

\* server.Recv returns io.EOF, or another error.
RecvEnds ==
    /\ broken \/ (eof /\ inbox = <<>>)
    /\ UNCHANGED streamVars

-----------------------------------------------------------------------------
(* The handler.                                                            *)

\* The first message carries the rules: start reader, chunker and sender.
Start ==
    /\ main = "params"
    /\ Recv /\ Head(inbox) = Params
    /\ main' = "running"
    /\ reader' = "recv"
    /\ chunker' = "collect"
    /\ sender' = "range"
    /\ UNCHANGED <<inHand, chunk, workerVars, outHand, delivered, crashed>>

\* It does not, or there is none: return the error, nothing was started.
Refuse ==
    /\ main = "params"
    /\ \/ Recv /\ Head(inbox) # Params
       \/ RecvEnds
    /\ main' = "returned"
    /\ UNCHANGED <<readerVars, chunker, chunk, workerVars, senderVars, crashed>>

\* Mutant: the handler waits for the matchmaker's goroutines as well.
ReturnAfterAll ==
    /\ main = "running"
    /\ reader = "closed" /\ chunker = "closed"
    /\ sender \in {"closed", "failed"}
    /\ main' = "returned"
    /\ UNCHANGED <<streamVars, readerVars, chunker, chunk, workerVars, senderVars, crashed>>

\* wg.Wait() on the reader and the sender, then return nil.
Return ==
    /\ main = "running"
    /\ reader = "closed"
    /\ sender \in {"closed", "failed"}
    /\ main' = "returned"
    /\ UNCHANGED <<streamVars, readerVars, chunker, chunk, workerVars, senderVars, crashed>>

-----------------------------------------------------------------------------
(* The reader.                                                             *)

RecvTicket ==
    /\ reader = "recv"
    /\ Recv /\ Head(inbox) \in Tickets
    /\ inHand' = Head(inbox)
    /\ reader' = "push"
    /\ UNCHANGED <<main, chunker, chunk, workerVars, senderVars, crashed>>

\* The failed type assertion leaves t nil, and the log line reads t.Ticket.
RecvOther ==
    /\ reader = "recv"
    /\ Recv /\ Head(inbox) \notin Tickets
    /\ crashed' = TRUE
    /\ UNCHANGED <<main, readerVars, chunker, chunk, workerVars, senderVars>>

\* The deferred calls close both ticket channels.
ReaderEnds ==
    /\ reader = "recv"
    /\ RecvEnds
    /\ reader' = "closed"
    /\ UNCHANGED <<main, inHand, chunker, chunk, workerVars, senderVars, crashed>>

-----------------------------------------------------------------------------
(* The chunker: MakeMatches' goroutine around getNextNRequests.            *)

\* Mutant: the loop variable keeps the ticket it has already pushed.
PushTicketKept ==
    /\ reader = "push"
    /\ chunker = "collect" /\ Len(chunk) < ChunkSize
    /\ chunk' = Append(chunk, inHand)
    /\ reader' = "recv"
    /\ UNCHANGED <<inHand, streamVars, main, chunker, workerVars, senderVars, crashed>>

\* channelTickets <- matchTicket meets ticket, ok := <-ticketChannel.
PushTicket ==
    /\ reader = "push"
    /\ chunker = "collect" /\ Len(chunk) < ChunkSize
    /\ chunk' = Append(chunk, inHand)
    /\ inHand' = None
    /\ reader' = "recv"
    /\ UNCHANGED <<streamVars, main, chunker, workerVars, senderVars, crashed>>

\* Mutant: a closed channel is read as if it could still deliver.
ChunkEndsFullOnly == Len(chunk) >= ChunkSize

\* ChunkSize tickets were collected, or the channel is closed.
ChunkEnds == Len(chunk) >= ChunkSize \/ reader = "closed"

\* Mutant: the next chunk starts with the tickets of the last one.
StartWorkerSharing ==
    /\ chunker = "collect" /\ ChunkEnds
    /\ chunk # <<>>
    /\ worker' = [worker EXCEPT ![Head(chunk)] = "match"]
    /\ work' = [work EXCEPT ![Head(chunk)] = chunk]
    /\ chunk' = Tail(chunk)
    /\ UNCHANGED <<streamVars, main, readerVars, chunker, out, senderVars, crashed>>

StartWorker ==
    /\ chunker = "collect" /\ ChunkEnds
    /\ chunk # <<>>
    /\ worker' = [worker EXCEPT ![Head(chunk)] = "match"]
    /\ work' = [work EXCEPT ![Head(chunk)] = chunk]
    /\ chunk' = <<>>
    /\ UNCHANGED <<streamVars, main, readerVars, chunker, out, senderVars, crashed>>

\* Mutant: a chunk that is not full ends the loop.
LastChunkShort ==
    /\ chunker = "collect" /\ ChunkEnds
    /\ Len(chunk) < ChunkSize
    /\ chunk' = <<>>
    /\ chunker' = "wait"
    /\ UNCHANGED <<streamVars, main, readerVars, workerVars, senderVars, crashed>>

\* An empty chunk ends the loop.
LastChunk ==
    /\ chunker = "collect" /\ ChunkEnds
    /\ chunk = <<>>
    /\ chunker' = "wait"
    /\ UNCHANGED <<streamVars, main, readerVars, chunk, workerVars, senderVars, crashed>>

AllWorkersEnded == \A w \in Tickets : worker[w] \in {"none", "done"}

\* Mutant: the results channel is closed without waiting for the workers.
CloseResultsNoWait ==
    /\ chunker = "wait"
    /\ chunker' = "closed"
    /\ UNCHANGED <<streamVars, main, readerVars, chunk, workerVars, senderVars, crashed>>

CloseResults ==
    /\ chunker = "wait"
    /\ AllWorkersEnded
    /\ chunker' = "closed"
    /\ UNCHANGED <<streamVars, main, readerVars, chunk, workerVars, senderVars, crashed>>

-----------------------------------------------------------------------------
(* The workers: runMatchMaking.                                            *)

\* MatchPlayers' matches are groups of the chunk's tickets (Grouping).
MatchPlayers(w) ==
    /\ worker[w] = "match"
    /\ \E g \in Groupings(Elements(work[w])) : out' = [out EXCEPT ![w] = g]
    /\ worker' = [worker EXCEPT ![w] = "send"]
    /\ UNCHANGED <<streamVars, main, readerVars, chunker, chunk, work, senderVars, crashed>>

\* resultChan <- match meets the sender's range over resultChan.
TakeMatch(w) ==
    /\ worker[w] = "send" /\ out[w] # <<>>
    /\ sender = "range"
    /\ outHand' = Head(out[w])
    /\ out' = [out EXCEPT ![w] = Tail(@)]
    /\ sender' = "send"
    /\ UNCHANGED <<streamVars, main, readerVars, chunker, chunk, worker, work, delivered, crashed>>

\* The deferred wg.Done().
WorkerEnds(w) ==
    /\ worker[w] = "send" /\ out[w] = <<>>
    /\ worker' = [worker EXCEPT ![w] = "done"]
    /\ UNCHANGED <<streamVars, main, readerVars, chunker, chunk, work, out, senderVars, crashed>>

-----------------------------------------------------------------------------
(* The sender.                                                             *)

\* Mutant: the match stays in hand after it was sent, and is sent again.
SendMatchAgain ==
    /\ sender = "send"
    /\ delivered' = Append(delivered, outHand)
    /\ Len(delivered) < 2
    /\ UNCHANGED <<streamVars, main, readerVars, chunker, chunk, workerVars, sender, outHand, crashed>>

SendMatch ==
    /\ sender = "send"
    /\ delivered' = Append(delivered, outHand)
    /\ outHand' = {}
    /\ sender' = "range"
    /\ UNCHANGED <<streamVars, main, readerVars, chunker, chunk, workerVars, crashed>>

\* server.Send returns an error: the goroutine returns, results stay unread.
SendFails ==
    /\ sender = "send"
    /\ broken
    /\ sender' = "failed"
    /\ UNCHANGED <<streamVars, main, readerVars, chunker, chunk, workerVars, outHand, delivered, crashed>>

\* Mutant: the sender stops when the tickets end, not when the results do.
ResultsEndWithInput ==
    /\ sender = "range"
    /\ chunker \in {"wait", "closed"}
    /\ sender' = "closed"
    /\ UNCHANGED <<streamVars, main, readerVars, chunker, chunk, workerVars, outHand, delivered, crashed>>

ResultsEnd ==
    /\ sender = "range"
    /\ chunker = "closed"
    /\ sender' = "closed"
    /\ UNCHANGED <<streamVars, main, readerVars, chunker, chunk, workerVars, outHand, delivered, crashed>>

-----------------------------------------------------------------------------
\* The call has returned and every goroutine it started has ended, or the
\* process is gone.
Ended ==
    \/ crashed
    \/ main = "returned" /\ chunker \in {"idle", "closed"} /\ AllWorkersEnded

Finished == Ended /\ UNCHANGED vars

Client == (\E m \in Messages : ClientSends(m)) \/ ClientCloses \/ ClientBreaks
Handler == Start \/ Refuse \/ Return
Reader == RecvTicket \/ RecvOther \/ ReaderEnds
Chunker == PushTicket \/ StartWorker \/ LastChunk \/ CloseResults
Worker(w) == MatchPlayers(w) \/ TakeMatch(w) \/ WorkerEnds(w)
Sender == SendMatch \/ SendFails \/ ResultsEnd

Server == Handler \/ Reader \/ Chunker \/ (\E w \in Tickets : Worker(w)) \/ Sender

Next ==
    \/ ~crashed /\ (Client \/ Server)
    \/ Finished

Spec == Init /\ [][Next]_vars

\* The Go scheduler runs every goroutine that can run; the client may stop.
Fairness ==
    /\ WF_vars(~crashed /\ Handler)
    /\ WF_vars(~crashed /\ Reader)
    /\ WF_vars(~crashed /\ Chunker)
    /\ \A w \in Tickets : WF_vars(~crashed /\ Worker(w))
    /\ WF_vars(~crashed /\ Sender)

FairSpec == Spec /\ Fairness

-----------------------------------------------------------------------------
(* Safety.                                                                 *)

\* The matches made by worker w and not yet taken by the sender, the one the
\* sender holds, and those sent.
Waiting(w) == Elements(out[w])
Holding == {outHand} \ {{}}
Sent == Elements(delivered)

\* Tickets the reader has taken off the stream for matchmaking.
Received == ({inHand} \ {None}) \cup Elements(chunk) \cup UNION {Elements(work[w]) : w \in Tickets}

\* No ticket is promised to two matches: any two matches in the workers' hands,
\* in the sender's hand or already sent have no ticket in common, however the
\* workers of matchlogic.go:136-147 interleave.
NoTicketTwice ==
    /\ \A i, j \in 1 .. Len(delivered) : i # j => delivered[i] \cap delivered[j] = {}
    /\ \A m \in Holding, n \in Sent : m \cap n = {}
    /\ \A w \in Tickets : \A m \in Waiting(w), n \in Holding \cup Sent : m \cap n = {}
    /\ \A w \in Tickets : \A i, j \in 1 .. Len(out[w]) : i # j => out[w][i] \cap out[w][j] = {}
    /\ \A v, w \in Tickets : v # w => \A m \in Waiting(v), n \in Waiting(w) : m \cap n = {}

\* The results channel is closed only when no worker can send on it any more
\* (matchlogic.go:150-151): a send on a closed channel would panic.
NoSendOnClosedResults == chunker = "closed" => AllWorkersEnded

\* When the chunker stops collecting, every ticket taken off the stream has
\* been handed to exactly one worker, those of the last, partial chunk included
\* (matchlogic.go:137, 230-236).
Taken == (sent \cap Tickets) \ Elements(inbox)
EveryTicketWorked ==
    chunker \in {"wait", "closed"} =>
        \A t \in Taken : Cardinality({w \in Tickets : t \in Elements(work[w])}) = 1

\* A call whose sender saw the results channel closed has sent every match
\* that was made (matchFunctionService.go:183-194).
EveryMatchSent ==
    main = "returned" /\ sender = "closed" => \A w \in Tickets : out[w] = <<>>

-----------------------------------------------------------------------------
(* The inductive invariant behind the safety properties, in named parts.   *)

\* Which goroutines can be in which phase of the call.
PhaseInv ==
    /\ main = "params" => reader = "idle" /\ chunker = "idle" /\ sender = "idle"
    /\ main = "returned" => reader \in {"idle", "closed"} /\ sender \in {"idle", "closed", "failed"}
    /\ main # "params" /\ chunker = "idle" => reader = "idle"
    /\ chunker = "idle" => \A w \in Tickets : worker[w] = "none"
    /\ chunker = "closed" => AllWorkersEnded
    /\ chunker \in {"wait", "closed"} => chunk = <<>> /\ (ChunkSize > 0 => reader = "closed")
    /\ sender = "closed" => chunker = "closed"
    /\ sender \in {"send", "failed"} <=> outHand # {}

\* A ticket message is in one place: in the inbox, in the reader's hand, in the
\* chunk being collected or in the chunk of one worker; none is lost.
PlaceInv ==
    /\ \A i, j \in 1 .. Len(inbox) : i # j => inbox[i] # inbox[j]
    /\ Elements(inbox) \subseteq sent
    /\ Received \subseteq sent
    /\ Elements(inbox) \cap Received = {}
    /\ main = "params" => Taken = {}
    /\ chunker # "idle" => Taken \subseteq Received
    /\ inHand \notin Elements(chunk)
    /\ \A w \in Tickets :
          /\ inHand \notin Elements(work[w])
          /\ Elements(chunk) \cap Elements(work[w]) = {}
          /\ \A v \in Tickets : v # w => Elements(work[v]) \cap Elements(work[w]) = {}

\* What a worker has in hand comes from its chunk, and what has left the
\* workers comes from the chunk of a worker that has done its matching.
OwnerInv ==
    /\ \A w \in Tickets :
          /\ worker[w] = "none" => work[w] = <<>>
          /\ worker[w] # "none" => w \in Elements(work[w])
          /\ worker[w] \in {"none", "match", "done"} => out[w] = <<>>
          /\ \A m \in Waiting(w) : m # {} /\ m \subseteq Elements(work[w])
    /\ \A m \in Holding \cup Sent :
          \E w \in Tickets : worker[w] \in {"send", "done"} /\ m \subseteq Elements(work[w])

IInv == TypeOK /\ PhaseInv /\ PlaceInv /\ OwnerInv /\ NoTicketTwice

-----------------------------------------------------------------------------
\* One MakeMatches call behaves as its clients may expect (MatchFeed).
Feed == INSTANCE MatchFeed WITH
            Repeats <- FALSE,
            received <- Received,
            over <- crashed \/ main = "returned"
ImplementsFeed == Feed!FeedSpec

-----------------------------------------------------------------------------
(* Liveness.                                                               *)

\* Once the client has closed its side or gone away, the handler returns: no
\* ticket, chunk or failed Send can hold it (matchFunctionService.go:147-196).
HandlerReturns == (eof \/ broken) ~> (crashed \/ main = "returned")

\* On a stream that does not fail, closing the sending side is enough for all
\* goroutines of the call to end.
CallEnds == eof ~> (Ended \/ broken)

\* interfaces.go:21-23: MakeMatches "should also watch for cancellation on
\* the provided scope.Ctx, at which point it should stop looking for matches
\* and close the result channel".
CancelClosesResults == (broken /\ main = "running") ~> (crashed \/ chunker = "closed")
=============================================================================
