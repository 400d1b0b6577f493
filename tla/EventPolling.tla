----------------------------- MODULE EventPolling -----------------------------
(***************************************************************************)
(* Polling contract events behind a cursor that several processes share.   *)
(*   packages/apps/rewards/src/event/eventService.service.ts               *)
(*   packages/apps/rewards/src/blocks/notifiedBlock.service.ts             *)
(*                                                                         *)
(* Every process runs the poll as a cron job, one run at a time.  A run    *)
(* reads the cursor of its key from the database, fetches the events after *)
(* it in batches of blocks, awaits the handler of each, and then moves the *)
(* cursor to the last block that had an event.  Handlers are the           *)
(* attestation, address mapping and invite reward services; what they      *)
(* record is guarded by unique constraints, so that handling an event      *)
(* again is harmless and missing one is not.                               *)
(***************************************************************************)
EXTENDS Naturals, FiniteSets, FiniteSetsExt

CONSTANTS
    Instances,      \* processes of the rewards application
    BatchSize,      \* EVENTS_BATCH_SIZE
    FromGenesis,    \* StartingBlock.Genesis, else StartingBlock.Latest
    EventsPerBlock, \* bound
    MaxBlock,       \* bound: height of the chain
    MaxErrors       \* bound: failed calls, rejected handlers and restarts

ASSUME PollingAssumption ==
    /\ BatchSize \in Nat /\ EventsPerBlock \in Nat /\ MaxBlock \in Nat /\ MaxErrors \in Nat
    /\ FromGenesis \in BOOLEAN

Blocks == 0 .. MaxBlock
Events == [block : 1 .. MaxBlock, index : 1 .. EventsPerBlock]
NoCursor == MaxBlock + 1

VARIABLES
    head,    \* height of the chain (external)
    events,  \* events of the contract on the chain (external)
    start,   \* ghost: the block number the cursor was created with
    cursor,  \* notified_block.blockNumber, NoCursor while there is no row
    handled, \* events whose handler has completed in some process
    polls,   \* instance |-> its run
    errors   \* what is left of MaxErrors

vars == <<head, events, start, cursor, handled, polls, errors>>

\* A run: st is the await it is in, from the first block it covers, last the
\* height it has read, current the block its batch starts at, maxBlock the
\* result so far, todo the events of the batch not handled yet.
Idle == [st |-> "idle", from |-> 0, last |-> 0, current |-> 0, maxBlock |-> 0, todo |-> {}]

Init ==
    /\ head = 0
    /\ events = {}
    /\ start = 0 /\ cursor = NoCursor
    /\ handled = {}
    /\ polls = [n \in Instances |-> Idle]
    /\ errors = MaxErrors

\* A block is added, with the events of the contract in it.
BlockAdded ==
    /\ head < MaxBlock /\ head' = head + 1
    /\ \E s \in SUBSET (1 .. EventsPerBlock) :
        events' = events \cup [block : {head + 1}, index : s]
    /\ UNCHANGED <<start, cursor, handled, polls, errors>>

-----------------------------------------------------------------------------
(* runUsingLastNotifiedBlock *)

\* Mutant of the next definition: the run starts one block late.
CoversLate(n, c) ==
    polls' = [polls EXCEPT ![n] = [Idle EXCEPT !.st = "height", !.from = c + 2]]

Covers(n, c) ==
    polls' = [polls EXCEPT ![n] = [Idle EXCEPT !.st = "height", !.from = c + 1]]

\* The cursor is found; otherwise the number of the first block is looked up.
PollStarts(n) ==
    /\ polls[n].st = "idle"
    /\ IF cursor # NoCursor THEN Covers(n, cursor)
       ELSE polls' = [polls EXCEPT ![n] =
                [Idle EXCEPT !.st = "insert", !.from = IF FromGenesis THEN 0 ELSE head]]
    /\ UNCHANGED <<head, events, start, cursor, handled, errors>>

\* insert: fails on the unique key if another process was faster, and the
\* error ends the run.
CursorInserted(n) ==
    /\ polls[n].st = "insert"
    /\ IF cursor = NoCursor
       THEN cursor' = polls[n].from /\ start' = polls[n].from /\ Covers(n, polls[n].from)
       ELSE UNCHANGED <<cursor, start>> /\ polls' = [polls EXCEPT ![n] = Idle]
    /\ UNCHANGED <<head, events, handled, errors>>

\* Mutant of the next definition: the update is not conditional.
CursorUpdatedAlways(n) ==
    /\ polls[n].st = "save"
    /\ cursor' = polls[n].maxBlock
    /\ polls' = [polls EXCEPT ![n] = Idle]
    /\ UNCHANGED <<head, events, start, handled, errors>>

\* The update is conditional: it never moves the cursor back.
CursorUpdated(n) ==
    /\ polls[n].st = "save"
    /\ cursor' = IF cursor < polls[n].maxBlock THEN polls[n].maxBlock ELSE cursor
    /\ polls' = [polls EXCEPT ![n] = Idle]
    /\ UNCHANGED <<head, events, start, handled, errors>>

-----------------------------------------------------------------------------
(* fetchAndProcessEvents *)

\* The while loop is over: the cursor is saved if a later block had an event.
Finished(p) == IF p.maxBlock > p.from THEN [p EXCEPT !.st = "save"] ELSE Idle

\* Mutant of the next definition: the loop stops one block early.
LoopedShort(p) == IF p.current + 1 < p.last THEN [p EXCEPT !.st = "fetch"] ELSE Finished(p)

\* The next round of the while loop, or its end.
Looped(p) == IF p.current < p.last THEN [p EXCEPT !.st = "fetch"] ELSE Finished(p)

HeightRead(n) ==
    /\ polls[n].st = "height"
    /\ polls' = [polls EXCEPT ![n] =
            Looped([@ EXCEPT !.last = head, !.current = polls[n].from, !.maxBlock = polls[n].from])]
    /\ UNCHANGED <<head, events, start, cursor, handled, errors>>

\* getPastEvents(current .. min(current + batchSize, lastBlock))
BatchFetched(n) ==
    /\ polls[n].st = "fetch"
    /\ LET to == Min({polls[n].current + BatchSize, polls[n].last})
           batch == {e \in events : e.block \in polls[n].current .. to}
       IN polls' = [polls EXCEPT ![n] = [@ EXCEPT !.st = "handle", !.todo = batch]]
    /\ UNCHANGED <<head, events, start, cursor, handled, errors>>

\* await eventHandler(event), in the order of the chain.
EventHandled(n) ==
    /\ polls[n].st = "handle"
    /\ \E e \in polls[n].todo :
        /\ \A f \in polls[n].todo : e.block =< f.block
        /\ handled' = handled \cup {e}
        /\ polls' = [polls EXCEPT ![n] =
            [@ EXCEPT !.todo = polls[n].todo \ {e},
                      !.maxBlock = Max({polls[n].maxBlock, e.block})]]
    /\ UNCHANGED <<head, events, start, cursor, errors>>

\* Mutant of the next definition: the next batch skips a block.
BatchFinishedSkips(n) ==
    /\ polls[n].st = "handle" /\ polls[n].todo = {}
    /\ polls' = [polls EXCEPT ![n] = Looped([@ EXCEPT !.current = polls[n].current + BatchSize + 2])]
    /\ UNCHANGED <<head, events, start, cursor, handled, errors>>

BatchFinished(n) ==
    /\ polls[n].st = "handle" /\ polls[n].todo = {}
    /\ polls' = [polls EXCEPT ![n] = Looped([@ EXCEPT !.current = polls[n].current + BatchSize + 1])]
    /\ UNCHANGED <<head, events, start, cursor, handled, errors>>

\* A rejected handler or call, or a restart of the process: the run is over
\* and the cursor stays.  isRunning is reset in the finally block.
PollFails(n) ==
    /\ polls[n].st # "idle" /\ errors > 0
    /\ errors' = errors - 1
    /\ polls' = [polls EXCEPT ![n] = Idle]
    /\ UNCHANGED <<head, events, start, cursor, handled>>

Poll(n) ==
    \/ PollStarts(n) \/ CursorInserted(n) \/ CursorUpdated(n)
    \/ HeightRead(n) \/ BatchFetched(n) \/ EventHandled(n) \/ BatchFinished(n)

Next == BlockAdded \/ \E n \in Instances : Poll(n) \/ PollFails(n)

Spec == Init /\ [][Next]_vars

\* The chain grows and the cron jobs run and are answered.
Fairness == WF_vars(BlockAdded) /\ \A n \in Instances : WF_vars(Poll(n))

LiveSpec == Spec /\ Fairness

-----------------------------------------------------------------------------
(* Properties *)

Runs == [st : {"idle", "insert", "height", "fetch", "handle", "save"},
         from : 0 .. (MaxBlock + 1), last : Blocks, current : 0 .. (MaxBlock + BatchSize + 1),
         maxBlock : 0 .. (MaxBlock + 1), todo : SUBSET Events]

\* Every variable has its type.
TypeOK ==
    /\ head \in Blocks /\ events \subseteq Events /\ start \in Blocks
    /\ cursor \in Blocks \cup {NoCursor}
    /\ handled \subseteq events
    /\ polls \in [Instances -> Runs]
    /\ errors \in 0 .. MaxErrors

\* No event is skipped: the cursor only passes events that have been handled,
\* whatever the other processes, a failed handler or a restart did meanwhile.
\* (fetchAndProcessEvents, runUsingLastNotifiedBlock)
NoEventSkipped ==
    cursor # NoCursor =>
        \A e \in events : start < e.block /\ e.block =< cursor => e \in handled

\* A slow run never takes the cursor back behind a faster process.
CursorNeverMovesBack == [][cursor # NoCursor => cursor' >= cursor]_vars

\* Every event after the starting block is handled once a later block exists,
\* the last block of the chain being left to the next poll.
EventsAreHandled ==
    \A e \in Events :
        (e \in events /\ cursor # NoCursor /\ start < e.block /\ e.block < MaxBlock)
            ~> (e \in handled)
===============================================================================
