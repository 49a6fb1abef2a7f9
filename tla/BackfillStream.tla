---------------------------- MODULE BackfillStream ----------------------------
(***************************************************************************)
(* One BackfillMatches RPC of pkg/server/matchFunctionService.go with the  *)
(* goroutines behind it in defaultmatchmaker/matchlogic.go:                *)
(*                                                                         *)
(*   handler     reads the parameters, then sends proposals as they come   *)
(*   reader      fetchBackfillTickets: one stream, two unbuffered channels *)
(*   collector   the loop of BackfillMatches; each round is one call of    *)
(*               getNextNBackfillRequests, whose two goroutines read up to *)
(*               ChunkSize tickets and up to ChunkSize backfill tickets    *)
(*   workers     runBackfilling, one per round that found a backfill ticket*)
(*                                                                         *)
(* The handler reads the results channel itself and does not wait for the  *)
(* reader.  A worker is named by the first backfill ticket of its round.   *)
(* What MatchSessions computes is abstracted to what SessionBackfill shows *)
(* of it: each ticket goes to at most one session, and a session gets at   *)
(* most one proposal, or the same twice if the rules changed for it.       *)
(***************************************************************************)
EXTENDS Grouping

CONSTANTS
    Tickets,        \* match tickets a client may send
    NewSessionOnly, \* those whose owners only want a new session
    Sessions,       \* backfill tickets a client may send
    Params,         \* a parameters message whose rules load
    Junk,           \* any other message
    None,           \* "no message"
    ChunkSize,      \* TICKET_CHUNK_SIZE
    AllianceFlexes, \* whether the alliance rule flexes with the age of a session
    ClientMayBreak  \* whether the client's side of the stream may fail

ASSUME BackfillAssumption ==
    /\ Tickets \cap Sessions = {}
    /\ Junk \cap (Tickets \cup Sessions) = {}
    /\ Params \notin Tickets \cup Sessions \cup Junk
    /\ None \notin Tickets \cup Sessions
    /\ NewSessionOnly \subseteq Tickets
    /\ ChunkSize \in Nat
    /\ AllianceFlexes \in BOOLEAN /\ ClientMayBreak \in BOOLEAN

Entries == Tickets \cup Sessions
Messages == Entries \cup Junk \cup {Params}

VARIABLES
    sent, inbox, eof, broken,   \* client and transport, as in MatchStream
    main,       \* the handler: "params", "recv", "send", "returned"
    reader,     \* "idle", "recv", "push", "closed" (both channels closed)
    inHand,     \* the ticket or backfill ticket the reader is pushing
    collector,  \* "idle", "collect", "wait", "closed" (results channel closed)
    reads,      \* tickets read in this round, those skipped included
    batch,      \* tickets kept in this round
    sessions,   \* backfill tickets read in this round, in order
    worker,     \* per worker: "none", "match", "send", "done"
    work,       \* per worker: the tickets and sessions of its round
    out,        \* per worker: proposals it has yet to put in results
    outHand,    \* the proposal the handler is sending, {} when there is none
    delivered   \* proposals server.Send accepted, in order

streamVars == <<sent, inbox, eof, broken>>
readerVars == <<reader, inHand>>
roundVars  == <<reads, batch, sessions>>
workerVars == <<worker, work, out>>
replyVars  == <<outHand, delivered>>
vars == <<streamVars, main, readerVars, collector, roundVars, workerVars, replyVars>>

NoWork == [tickets |-> {}, sessions |-> <<>>]

TypeOK ==
    /\ sent \subseteq Messages
    /\ inbox \in Seq(Messages)
    /\ eof \in BOOLEAN
    /\ broken \in BOOLEAN
    /\ main \in {"params", "recv", "send", "returned"}
    /\ reader \in {"idle", "recv", "push", "closed"}
    /\ inHand \in IF reader = "push" THEN Entries ELSE {None}
    /\ collector \in {"idle", "collect", "wait", "closed"}
    /\ reads \in 0 .. ChunkSize
    /\ batch \subseteq Tickets
    /\ sessions \in Seq(Sessions)
    /\ worker \in [Sessions -> {"none", "match", "send", "done"}]
    /\ work \in [Sessions -> [tickets : SUBSET Tickets, sessions : Seq(Sessions)]]
    /\ out \in [Sessions -> Seq(SUBSET Entries)]
    /\ outHand \in SUBSET Entries
    /\ delivered \in Seq(SUBSET Entries)

Init ==
    /\ sent = {} /\ inbox = <<>> /\ eof = FALSE /\ broken = FALSE
    /\ main = "params"
    /\ reader = "idle" /\ inHand = None
    /\ collector = "idle" /\ reads = 0 /\ batch = {} /\ sessions = <<>>
    /\ worker = [w \in Sessions |-> "none"]
    /\ work = [w \in Sessions |-> NoWork]
    /\ out = [w \in Sessions |-> <<>>]
    /\ outHand = {} /\ delivered = <<>>

-----------------------------------------------------------------------------
(* The client and the transport.                                           *)

ClientSends(m) ==
    /\ ~eof /\ ~broken /\ main # "returned"
    /\ m \notin sent
    /\ sent' = sent \cup {m}
    /\ inbox' = Append(inbox, m)
    /\ UNCHANGED <<eof, broken, main, readerVars, collector, roundVars, workerVars, replyVars>>

ClientCloses ==
    /\ ~eof /\ ~broken
    /\ eof' = TRUE
    /\ UNCHANGED <<sent, inbox, broken, main, readerVars, collector, roundVars, workerVars, replyVars>>

ClientBreaks ==
    /\ ClientMayBreak
    /\ ~broken
    /\ broken' = TRUE
    /\ UNCHANGED <<sent, inbox, eof, main, readerVars, collector, roundVars, workerVars, replyVars>>

Recv == inbox # <<>> /\ inbox' = Tail(inbox) /\ UNCHANGED <<sent, eof, broken>>

\* io.EOF or an error; the stream's context ends with the handler.
RecvEnds ==
    /\ broken \/ main = "returned" \/ (eof /\ inbox = <<>>)
    /\ UNCHANGED streamVars

-----------------------------------------------------------------------------
(* The handler.                                                            *)

Start ==
    /\ main = "params"
    /\ Recv /\ Head(inbox) = Params
    /\ main' = "recv"
    /\ reader' = "recv"
    /\ collector' = "collect"
    /\ UNCHANGED <<inHand, roundVars, workerVars, replyVars>>

\* No message, or one that is not usable parameters: nothing was started.
Refuse ==
    /\ main = "params"
    /\ \/ Recv /\ Head(inbox) # Params
       \/ RecvEnds
    /\ main' = "returned"
    /\ UNCHANGED <<readerVars, collector, roundVars, workerVars, replyVars>>

SendProposal ==
    /\ main = "send"
    /\ delivered' = Append(delivered, outHand)
    /\ outHand' = {}
    /\ main' = "recv"
    /\ UNCHANGED <<streamVars, readerVars, collector, roundVars, workerVars>>

\* server.Send returns an error: the handler returns it, results stay unread.
SendFails ==
    /\ main = "send"
    /\ broken
    /\ main' = "returned"
    /\ UNCHANGED <<streamVars, readerVars, collector, roundVars, workerVars, replyVars>>

\* Mutant: the handler stops when the tickets end, not when the results do.
NoMoreProposalsWithInput ==
    /\ main = "recv"
    /\ collector \in {"wait", "closed"}
    /\ main' = "returned"
    /\ UNCHANGED <<streamVars, readerVars, collector, roundVars, workerVars, replyVars>>

NoMoreProposals ==
    /\ main = "recv"
    /\ collector = "closed"
    /\ main' = "returned"
    /\ UNCHANGED <<streamVars, readerVars, collector, roundVars, workerVars, replyVars>>

-----------------------------------------------------------------------------
(* The reader: fetchBackfillTickets.                                       *)

RecvEntry ==
    /\ reader = "recv"
    /\ Recv /\ Head(inbox) \in Entries
    /\ inHand' = Head(inbox)
    /\ reader' = "push"
    /\ UNCHANGED <<main, collector, roundVars, workerVars, replyVars>>

\* Neither a ticket nor a backfill ticket: ignored.
RecvOther ==
    /\ reader = "recv"
    /\ Recv /\ Head(inbox) \notin Entries
    /\ UNCHANGED <<main, readerVars, collector, roundVars, workerVars, replyVars>>

ReaderEnds ==
    /\ reader = "recv"
    /\ RecvEnds
    /\ reader' = "closed"
    /\ UNCHANGED <<main, inHand, collector, roundVars, workerVars, replyVars>>

-----------------------------------------------------------------------------
(* A round of collecting: getNextNBackfillRequests.                        *)

\* Mutant: one more ticket than a round holds.
PushTicketOneMore ==
    /\ reader = "push" /\ inHand \in Tickets
    /\ collector = "collect" /\ reads <= ChunkSize
    /\ reads' = reads + 1
    /\ batch' = batch \cup ({inHand} \ NewSessionOnly)
    /\ inHand' = None
    /\ reader' = "recv"
    /\ UNCHANGED <<streamVars, main, collector, sessions, workerVars, replyVars>>

\* Mutant: tickets for new sessions only are backfilled too.
PushTicketUnfiltered ==
    /\ reader = "push" /\ inHand \in Tickets
    /\ collector = "collect" /\ reads < ChunkSize
    /\ reads' = reads + 1
    /\ batch' = batch \cup {inHand}
    /\ inHand' = None
    /\ reader' = "recv"
    /\ UNCHANGED <<streamVars, main, collector, sessions, workerVars, replyVars>>

\* The ticket goroutine reads channelTickets; a ticket for new sessions only
\* counts as read and is dropped.
PushTicket ==
    /\ reader = "push" /\ inHand \in Tickets
    /\ collector = "collect" /\ reads < ChunkSize
    /\ reads' = reads + 1
    /\ batch' = batch \cup ({inHand} \ NewSessionOnly)
    /\ inHand' = None
    /\ reader' = "recv"
    /\ UNCHANGED <<streamVars, main, collector, sessions, workerVars, replyVars>>

\* The other goroutine reads channelBackfillTickets.
PushSession ==
    /\ reader = "push" /\ inHand \in Sessions
    /\ collector = "collect" /\ Len(sessions) < ChunkSize
    /\ sessions' = Append(sessions, inHand)
    /\ inHand' = None
    /\ reader' = "recv"
    /\ UNCHANGED <<streamVars, main, collector, reads, batch, workerVars, replyVars>>

\* Mutant: a closed channel is read as if it could still deliver.
RoundEndsFullOnly == reads >= ChunkSize /\ Len(sessions) >= ChunkSize

\* wg.Wait(): both goroutines have read ChunkSize messages or a closed channel.
RoundEnds ==
    \/ reader = "closed"
    \/ reads >= ChunkSize /\ Len(sessions) >= ChunkSize

StartWorker ==
    /\ collector = "collect" /\ RoundEnds
    /\ sessions # <<>>
    /\ worker' = [worker EXCEPT ![Head(sessions)] = "match"]
    /\ work' = [work EXCEPT ![Head(sessions)] = [tickets |-> batch, sessions |-> sessions]]
    /\ reads' = 0 /\ batch' = {} /\ sessions' = <<>>
    /\ UNCHANGED <<streamVars, main, readerVars, collector, out, replyVars>>

\* Mutant: a round without tickets ends the loop.
LastRoundNoTickets ==
    /\ collector = "collect" /\ RoundEnds
    /\ batch = {}
    /\ collector' = "wait"
    /\ UNCHANGED <<streamVars, main, readerVars, roundVars, workerVars, replyVars>>

\* A round without backfill tickets ends the loop; its tickets are dropped.
LastRound ==
    /\ collector = "collect" /\ RoundEnds
    /\ sessions = <<>>
    /\ collector' = "wait"
    /\ UNCHANGED <<streamVars, main, readerVars, roundVars, workerVars, replyVars>>

AllWorkersEnded == \A w \in Sessions : worker[w] \in {"none", "done"}

CloseResults ==
    /\ collector = "wait"
    /\ AllWorkersEnded
    /\ collector' = "closed"
    /\ UNCHANGED <<streamVars, main, readerVars, roundVars, workerVars, replyVars>>

-----------------------------------------------------------------------------
(* The workers: runBackfilling.                                            *)

\* A session whose rules allow more players after it was reported as satisfied may be
\* reported as updated as well: two proposals of one result.
Apart(m, n) == m \cap n = {} \/ (AllianceFlexes /\ m = n)

\* The proposals MatchSessions may yield for a round's work k: some of its sessions,
\* each with tickets no other session got, as updated, satisfied or both.
Proposals(k) ==
    {g \in UNION {[1 .. n -> {{s} \cup T : s \in Elements(k.sessions), T \in (SUBSET k.tickets) \ {{}}}] :
                     n \in 0 .. 2 * Len(k.sessions)} :
        /\ \A i, j \in DOMAIN g : i # j => Apart(g[i], g[j])
        /\ \A i \in DOMAIN g : Cardinality({j \in DOMAIN g : g[j] = g[i]}) <= 2}

MatchSessions(w) ==
    /\ worker[w] = "match"
    /\ \E g \in Proposals(work[w]) : out' = [out EXCEPT ![w] = g]
    /\ worker' = [worker EXCEPT ![w] = "send"]
    /\ UNCHANGED <<streamVars, main, readerVars, collector, roundVars, work, replyVars>>

TakeProposal(w) ==
    /\ worker[w] = "send" /\ out[w] # <<>>
    /\ main = "recv"
    /\ outHand' = Head(out[w])
    /\ out' = [out EXCEPT ![w] = Tail(@)]
    /\ main' = "send"
    /\ UNCHANGED <<streamVars, readerVars, collector, roundVars, worker, work, delivered>>

WorkerEnds(w) ==
    /\ worker[w] = "send" /\ out[w] = <<>>
    /\ worker' = [worker EXCEPT ![w] = "done"]
    /\ UNCHANGED <<streamVars, main, readerVars, collector, roundVars, work, out, replyVars>>

-----------------------------------------------------------------------------
Ended ==
    /\ main = "returned"
    /\ reader \in {"idle", "closed"}
    /\ collector \in {"idle", "closed"}
    /\ AllWorkersEnded

Finished == Ended /\ UNCHANGED vars

Client == (\E m \in Messages : ClientSends(m)) \/ ClientCloses \/ ClientBreaks
Handler == Start \/ Refuse \/ SendProposal \/ SendFails \/ NoMoreProposals
Reader == RecvEntry \/ RecvOther \/ ReaderEnds
Collector == PushTicket \/ PushSession \/ StartWorker \/ LastRound \/ CloseResults
Worker(w) == MatchSessions(w) \/ TakeProposal(w) \/ WorkerEnds(w)

Next ==
    \/ Client
    \/ Handler
    \/ Reader
    \/ Collector
    \/ \E w \in Sessions : Worker(w)
    \/ Finished

Spec == Init /\ [][Next]_vars

\* The Go scheduler runs every goroutine that can run; the client may stop.
Fairness ==
    /\ WF_vars(Handler)
    /\ WF_vars(Reader)
    /\ WF_vars(Collector)
    /\ \A w \in Sessions : WF_vars(Worker(w))

FairSpec == Spec /\ Fairness

-----------------------------------------------------------------------------
(* Safety.                                                                 *)

\* The tickets and backfill tickets of a worker's round.
Worked(w) == work[w].tickets \cup Elements(work[w].sessions)

\* Where the server keeps what it has taken off the stream.
Held == ({inHand} \ {None}) \cup batch \cup Elements(sessions) \cup UNION {Worked(w) : w \in Sessions}

\* What the server has taken off the stream for backfilling: a ticket for new
\* sessions only is dropped, it may never be part of a proposal.
Received == Held \ NewSessionOnly

\* A proposal is sent only by a call that is still running, only for what the
\* server has taken for backfilling (never a ticket for new sessions only,
\* matchlogic.go:266-270), and no ticket or backfill ticket is in two different
\* proposals, across rounds and workers (MatchFeed).
Feed == INSTANCE MatchFeed WITH
            Tickets <- Entries, Repeats <- AllianceFlexes,
            received <- Received,
            over <- main = "returned"
ImplementsFeed == Feed!FeedSpec

Taken == (sent \cap Sessions) \ Elements(inbox)

\* When the collector stops, every backfill ticket taken off the stream is in
\* the round of exactly one worker, whatever the mix of tickets around it
\* (matchlogic.go:183, 245-295).
EverySessionWorked ==
    collector \in {"wait", "closed"} =>
        \A s \in Taken : Cardinality({w \in Sessions : s \in Elements(work[w].sessions)}) = 1

\* A handler that returned without a Send error has sent every proposal made.
EveryProposalSent ==
    main = "returned" /\ outHand = {} => \A w \in Sessions : out[w] = <<>>

-----------------------------------------------------------------------------
(* The inductive invariant: why the properties above hold.                 *)

\* The proposals a worker has yet to hand over, the one the handler holds, and
\* those the client has.
Waiting(w) == Elements(out[w])
Holding == {outHand} \ {{}}
Sent == Elements(delivered)

\* The phases of handler, reader, collector and workers go together.
PhaseInv ==
    /\ main = "params" => collector = "idle"
    /\ collector = "idle" => reader = "idle" /\ \A w \in Sessions : worker[w] = "none"
    /\ collector = "closed" => AllWorkersEnded
    /\ collector \in {"wait", "closed"} => sessions = <<>> /\ (ChunkSize > 0 => reader = "closed")
    /\ main = "returned" /\ outHand = {} => collector \in {"idle", "closed"}
    /\ main = "send" => outHand # {}
    /\ main \in {"params", "recv"} => outHand = {}

\* A ticket or backfill ticket is in one place: in the inbox, in the reader's
\* hand, in the round being collected or in that of one worker; no backfill
\* ticket is lost, and tickets for new sessions only get no further than the
\* reader's hand.
PlaceInv ==
    /\ \A i, j \in 1 .. Len(inbox) : i # j => inbox[i] # inbox[j]
    /\ Elements(inbox) \subseteq sent
    /\ Held \subseteq sent
    /\ Elements(inbox) \cap Held = {}
    /\ main = "params" => Taken = {}
    /\ collector # "idle" => Taken \subseteq Held
    /\ inHand \notin batch \cup Elements(sessions)
    /\ batch \cap NewSessionOnly = {}
    /\ \A w \in Sessions :
          /\ ({inHand} \cup batch \cup Elements(sessions)) \cap Worked(w) = {}
          /\ Worked(w) \cap NewSessionOnly = {}
          /\ \A v \in Sessions : v # w => Worked(v) \cap Worked(w) = {}

\* What a worker proposes comes from its round, and what has left the workers
\* comes from the round of a worker that has done its matching.
OwnerInv ==
    /\ \A w \in Sessions :
          /\ worker[w] = "none" => work[w] = NoWork
          /\ worker[w] # "none" => w \in Elements(work[w].sessions)
          /\ worker[w] \in {"none", "match", "done"} => out[w] = <<>>
          /\ \A m \in Waiting(w) : m # {} /\ m \subseteq Worked(w)
    /\ \A m \in Holding \cup Sent :
          \E w \in Sessions : worker[w] \in {"send", "done"} /\ m \subseteq Worked(w)

\* No ticket and no backfill ticket is in two different proposals, made or sent, and
\* none is made twice unless the rules may change for a session.
NoEntryTwice ==
    /\ \A i, j \in 1 .. Len(delivered) : i # j => Apart(delivered[i], delivered[j])
    /\ \A w \in Sessions : \A i, j \in 1 .. Len(out[w]) : i # j => Apart(out[w][i], out[w][j])
    /\ \A w \in Sessions : \A m \in Waiting(w), n \in Holding \cup Sent : Apart(m, n)
    /\ \A u, v \in Sessions : u # v => \A m \in Waiting(u), n \in Waiting(v) : Apart(m, n)
    /\ \A m \in Holding, n \in Sent : Apart(m, n)

IInv == TypeOK /\ PhaseInv /\ PlaceInv /\ OwnerInv /\ NoEntryTwice

-----------------------------------------------------------------------------
(* Liveness.                                                               *)

\* The reader holds a message for the collector that is full, the other one
\* waits for messages behind it: neither will move.
Stalled ==
    /\ reader = "push" /\ collector = "collect"
    /\ \/ inHand \in Tickets /\ reads = ChunkSize /\ Len(sessions) < ChunkSize
       \/ inHand \in Sessions /\ reads < ChunkSize /\ Len(sessions) = ChunkSize

\* On a stream that does not fail, once the client has closed its side all
\* goroutines of the call end; nothing but a full collector (Stalled) can keep
\* one of them (matchlogic.go:174-194, 245-295).
CallEndsOrStalls == eof ~> (Ended \/ broken \/ Stalled)

\* What matchlogic.go:161 ("processes backfill tickets and regular tickets to
\* fill existing sessions") needs: the same without the exception.
CallEnds == eof ~> (Ended \/ broken)
=============================================================================
