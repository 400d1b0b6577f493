------------------------- MODULE EventPollingProofs -------------------------
(***************************************************************************)
(* Proofs about EventPolling, for any number of processes, any batch size, *)
(* any chain and any pattern of failures: the cursor passes no event that  *)
(* has not been handled, and never moves back.                             *)
(***************************************************************************)
EXTENDS EventPolling, NaturalsLemmas, TLAPS

\* Where the batch of a run ends.
BatchEnd(p) == Min({p.current + BatchSize, p.last})

\* The events after the starting block, up to and including b, are handled.
HandledUpTo(b) == \A e \in events : start < e.block /\ e.block =< b => e \in handled

\* The chain and the cursor: nothing is ahead of the head.
ChainInv ==
    /\ \A e \in events : e.block =< head
    /\ cursor # NoCursor => start =< cursor /\ cursor =< head

\* What a run knows.  It started behind a cursor up to which everything was
\* handled; the blocks before its batch are handled, and of its batch the
\* events it has not to do any more; its result lies in what it has covered.
RunInv(p) ==
    /\ p.st = "insert" => p.from =< head
    /\ p.st \in {"height", "fetch", "handle", "save"} =>
        /\ cursor # NoCursor /\ start < p.from /\ p.from =< head + 1
        /\ HandledUpTo(p.from - 1)
    /\ p.st \in {"fetch", "handle"} =>
        /\ p.from =< p.current /\ p.current < p.last /\ p.last =< head
        /\ p.from =< p.maxBlock /\ HandledUpTo(p.current - 1)
    /\ p.st = "fetch" => p.maxBlock = p.from \/ p.maxBlock < p.current
    /\ p.st = "handle" =>
        /\ p.maxBlock = p.from \/ p.maxBlock =< BatchEnd(p)
        /\ \A e \in p.todo : e \in events /\ e.block =< BatchEnd(p)
        /\ \A e \in events : start < e.block /\ e.block =< BatchEnd(p)
                                => e \in handled \/ e \in p.todo
    /\ p.st = "save" => p.maxBlock =< head /\ HandledUpTo(p.maxBlock)

\* The inductive invariant.
IInv == TypeOK /\ ChainInv /\ NoEventSkipped /\ \A n \in Instances : RunInv(polls[n])

-----------------------------------------------------------------------------

\* BatchEnd is a minimum of two numbers.
LEMMA BatchEndValue ==
    ASSUME PollingAssumption, NEW p \in Runs
    PROVE  /\ BatchEnd(p) \in Nat
           /\ BatchEnd(p) = IF p.current + BatchSize =< p.last
                            THEN p.current + BatchSize ELSE p.last
<1>1. p.current + BatchSize \in Nat /\ p.last \in Nat
  BY DEF PollingAssumption, Runs, Blocks
<1> QED
  BY <1>1, MinOfTwo DEF BatchEnd

\* The invariant holds before the first poll.
LEMMA InitIInv == Init => IInv
<1> SUFFICES ASSUME Init PROVE IInv
  OBVIOUS
<1> USE PollingAssumption DEF PollingAssumption
<1>1. TypeOK
  BY DEF Init, TypeOK, Idle, Runs, Blocks, NoCursor
<1>2. ChainInv /\ NoEventSkipped
  BY DEF Init, ChainInv, NoEventSkipped
<1>3. \A n \in Instances : RunInv(polls[n])
  BY DEF Init, RunInv, Idle
<1> QED
  BY <1>1, <1>2, <1>3 DEF IInv

\* A step that leaves chain, cursor and handled events alone keeps what the
\* other runs know: only the run of the process that moves has to be looked at.
LEMMA OneRunMoves ==
    ASSUME IInv, NEW n \in Instances, NEW p \in Runs,
           UNCHANGED <<head, events, start, cursor, handled>>,
           errors' \in 0 .. MaxErrors,
           polls' = [polls EXCEPT ![n] = p],
           RunInv(p)
    PROVE  IInv'
<1>1. TypeOK'
  BY DEF IInv, TypeOK
<1>2. ChainInv' /\ NoEventSkipped'
  BY DEF IInv, ChainInv, NoEventSkipped
<1>3. ASSUME NEW m \in Instances PROVE RunInv(polls[m])'
  <2>1. RunInv(polls'[m])
    BY DEF IInv, TypeOK
  <2> QED
    BY <2>1 DEF RunInv, HandledUpTo
<1> QED
  BY <1>1, <1>2, <1>3 DEF IInv

\* The same for the other runs alone, when events have been handled or the
\* cursor has moved.
LEMMA OtherRuns ==
    ASSUME IInv,
           UNCHANGED <<head, events, start>>,
           handled \subseteq handled',
           cursor # NoCursor => cursor' # NoCursor,
           NEW m \in Instances, polls'[m] = polls[m]
    PROVE  RunInv(polls[m])'
<1> DEFINE p == polls[m]
<1>1. RunInv(p) /\ p' = p /\ BatchEnd(p)' = BatchEnd(p) /\ NoCursor' = NoCursor
  BY DEF IInv, BatchEnd, NoCursor
<1> HIDE DEF p
<1>2. \A b : HandledUpTo(b) => HandledUpTo(b)'
  BY DEF HandledUpTo
<1>3. /\ HandledUpTo(p.from - 1) => HandledUpTo(p.from - 1)'
      /\ HandledUpTo(p.current - 1) => HandledUpTo(p.current - 1)'
      /\ HandledUpTo(p.maxBlock) => HandledUpTo(p.maxBlock)'
  BY <1>1, <1>2 DEF HandledUpTo
<1>4. RunInv(p)'
  BY <1>1, <1>3 DEF RunInv
<1> QED
  BY <1>4 DEF p

\* An idle run knows nothing and has the right type.
LEMMA IdleRun == ASSUME PollingAssumption PROVE Idle \in Runs /\ RunInv(Idle)
  BY DEF Idle, Runs, RunInv, Blocks, PollingAssumption

\* The end of a round of the while loop: another round when there are blocks
\* left, otherwise a result up to which everything is handled.
LEMMA LoopedRun ==
    ASSUME PollingAssumption, IInv, NEW p \in Runs,
           cursor # NoCursor, start < p.from, p.from =< head + 1,
           HandledUpTo(p.from - 1),
           p.from =< p.current, p.last =< head, p.from =< p.maxBlock,
           p.current < p.last =>
                HandledUpTo(p.current - 1) /\ (p.maxBlock = p.from \/ p.maxBlock < p.current),
           p.maxBlock > p.from => HandledUpTo(p.maxBlock) /\ p.maxBlock =< head
    PROVE  Looped(p) \in Runs /\ RunInv(Looped(p))
<1>0. head \in Nat /\ start \in Nat
  BY DEF IInv, TypeOK, Blocks, PollingAssumption
<1>1. p.from \in Nat /\ p.current \in Nat /\ p.maxBlock \in Nat /\ p.last \in Nat
  BY DEF Runs, Blocks, PollingAssumption
<1>2. CASE p.current < p.last
  <2>1. Looped(p) = [p EXCEPT !.st = "fetch"]
    BY <1>2 DEF Looped
  <2> QED
    BY <1>0, <1>1, <1>2, <2>1 DEF Runs, RunInv
<1>3. CASE ~(p.current < p.last) /\ p.maxBlock > p.from
  <2>1. Looped(p) = [p EXCEPT !.st = "save"]
    BY <1>3 DEF Looped, Finished
  <2> QED
    BY <1>0, <1>1, <1>3, <2>1 DEF Runs, RunInv
<1>4. CASE ~(p.current < p.last) /\ ~(p.maxBlock > p.from)
  <2>1. Looped(p) = Idle
    BY <1>4 DEF Looped, Finished
  <2> QED
    BY <2>1, IdleRun
<1> QED
  BY <1>2, <1>3, <1>4

\* Every step of the chain and of any process keeps the invariant.
LEMMA NextIInv == IInv /\ [Next]_vars => IInv'
<1> SUFFICES ASSUME IInv, [Next]_vars PROVE IInv'
  OBVIOUS
<1> USE PollingAssumption
<1>0. /\ head \in Nat /\ start \in Nat /\ cursor \in Nat /\ errors \in 0 .. MaxErrors
      /\ MaxBlock \in Nat /\ BatchSize \in Nat /\ MaxErrors \in Nat
      /\ \A e \in events : e.block \in Nat
      /\ polls \in [Instances -> Runs]
  BY DEF IInv, TypeOK, Events, Blocks, NoCursor, PollingAssumption
<1>1. CASE BlockAdded
  <2>1. head < MaxBlock /\ head' = head + 1
    BY <1>1 DEF BlockAdded
  <2>2. UNCHANGED <<start, cursor, handled, polls, errors>>
    BY <1>1 DEF BlockAdded
  <2>3. events \subseteq events' /\ \A e \in events' \ events : e.block = head + 1
    BY <1>1 DEF BlockAdded
  <2>4. TypeOK'
    <3>1. events' \subseteq Events
      <4>1. PICK s \in SUBSET (1 .. EventsPerBlock) :
                events' = events \cup [block : {head + 1}, index : s]
        BY <1>1 DEF BlockAdded
      <4>2. head + 1 \in 1 .. MaxBlock
        BY <1>0, <2>1
      <4>3. [block : {head + 1}, index : s] \subseteq Events
        BY <4>2 DEF Events
      <4> QED
        BY <4>1, <4>3 DEF IInv, TypeOK
    <3> QED
      BY <1>0, <2>1, <2>2, <2>3, <3>1 DEF IInv, TypeOK, Blocks
  <2>5. ChainInv'
    BY <1>0, <2>1, <2>2, <2>3 DEF IInv, ChainInv
  <2>6. \A b \in Nat : b =< head /\ HandledUpTo(b) => HandledUpTo(b)'
    BY <1>0, <2>1, <2>2, <2>3 DEF HandledUpTo
  <2>7. NoEventSkipped'
    BY <1>0, <2>1, <2>2, <2>3 DEF IInv, ChainInv, NoEventSkipped
  <2>8. ASSUME NEW n \in Instances PROVE RunInv(polls[n])'
    <3> DEFINE p == polls[n]
    <3>1. p \in Runs /\ RunInv(p) /\ p' = p
      BY <1>0, <2>2 DEF IInv
    <3>2. /\ p.from \in Nat /\ p.current \in Nat /\ p.maxBlock \in Nat /\ p.last \in Nat
          /\ BatchEnd(p) \in Nat /\ BatchEnd(p) =< p.last /\ BatchEnd(p)' = BatchEnd(p)
      BY <1>0, <3>1, BatchEndValue DEF Runs, Blocks, BatchEnd
    <3> HIDE DEF p
    <3>3. p.st \in {"height", "fetch", "handle", "save"} => HandledUpTo(p.from - 1)'
      <4>1. p.st \in {"height", "fetch", "handle", "save"} =>
                p.from - 1 \in Nat /\ p.from - 1 =< head
        BY <1>0, <3>1, <3>2 DEF RunInv
      <4> QED
        BY <1>0, <2>6, <3>1, <3>2, <4>1 DEF RunInv
    <3>4. p.st \in {"fetch", "handle"} => HandledUpTo(p.current - 1)'
      <4>1. p.st \in {"fetch", "handle"} => p.current - 1 \in Nat /\ p.current - 1 =< head
        BY <1>0, <3>1, <3>2 DEF RunInv
      <4> QED
        BY <1>0, <2>6, <3>1, <3>2, <4>1 DEF RunInv
    <3>5. p.st = "save" => HandledUpTo(p.maxBlock)'
      BY <1>0, <2>6, <3>1, <3>2 DEF RunInv
    <3>6. RunInv(p)'
      BY <1>0, <2>1, <2>2, <2>3, <3>1, <3>2, <3>3, <3>4, <3>5 DEF RunInv
    <3> QED
      BY <3>6 DEF p
  <2> QED
    BY <2>4, <2>5, <2>7, <2>8 DEF IInv
<1>2. CASE \E n \in Instances : Poll(n) \/ PollFails(n)
  <2> PICK n \in Instances : Poll(n) \/ PollFails(n)
    BY <1>2
  <2>0. polls[n] \in Runs /\ RunInv(polls[n])
    BY <1>0 DEF IInv
  <2>1. CASE PollStarts(n)
    <3>1. CASE cursor # NoCursor
      <4> DEFINE q == [Idle EXCEPT !.st = "height", !.from = cursor + 1]
      <4>1. polls' = [polls EXCEPT ![n] = q]
        BY <2>1, <3>1 DEF PollStarts, Covers
      <4>2. q \in Runs
        <5>1. cursor + 1 \in 0 .. (MaxBlock + 1)
          BY <1>0, <3>1 DEF Blocks, IInv, TypeOK, NoCursor
        <5> QED
          BY <5>1, IdleRun DEF Runs
      <4>3. HandledUpTo(cursor)
        BY <3>1 DEF IInv, NoEventSkipped, HandledUpTo
      <4>4. q.st = "height" /\ q.from = cursor + 1 /\ q.from - 1 = cursor
        BY <1>0 DEF Idle
      <4>5. RunInv(q)
        BY <1>0, <3>1, <4>3, <4>4 DEF RunInv, IInv, ChainInv
      <4> QED
        BY <1>0, <2>1, <4>1, <4>2, <4>5, OneRunMoves DEF PollStarts
    <3>2. CASE cursor = NoCursor
      <4> DEFINE q == [Idle EXCEPT !.st = "insert", !.from = IF FromGenesis THEN 0 ELSE head]
      <4>1. polls' = [polls EXCEPT ![n] = q]
        BY <2>1, <3>2 DEF PollStarts
      <4> DEFINE first == IF FromGenesis THEN 0 ELSE head
      <4>2. first \in 0 .. (MaxBlock + 1) /\ first =< head
        BY <1>0 DEF Blocks, IInv, TypeOK
      <4> HIDE DEF first
      <4>3. q = [Idle EXCEPT !.st = "insert", !.from = first]
        BY DEF first
      <4>4. q \in Runs /\ RunInv(q)
        BY <4>2, <4>3, IdleRun DEF Runs, RunInv
      <4> QED
        BY <1>0, <2>1, <4>1, <4>4, OneRunMoves DEF PollStarts
    <3> QED
      BY <3>1, <3>2
  <2>2. CASE CursorInserted(n)
    <3>1. CASE cursor # NoCursor
      <4>1. polls' = [polls EXCEPT ![n] = Idle]
        BY <2>2, <3>1 DEF CursorInserted
      <4> QED
        BY <1>0, <2>2, <3>1, <4>1, IdleRun, OneRunMoves DEF CursorInserted
    <3>2. CASE cursor = NoCursor
      <4> PICK c : c = polls[n].from
        OBVIOUS
      <4> DEFINE q == [Idle EXCEPT !.st = "height", !.from = c + 1]
      <4>1. /\ polls' = [polls EXCEPT ![n] = q] /\ cursor' = c /\ start' = c
            /\ UNCHANGED <<head, events, handled, errors>>
        BY <2>2, <3>2 DEF CursorInserted, Covers
      <4>2. c \in Nat /\ c =< head /\ head =< MaxBlock /\ c # NoCursor
        BY <1>0, <2>0, <2>2 DEF CursorInserted, RunInv, Runs, IInv, TypeOK, Blocks, NoCursor
      <4>3. q \in Runs
        <5>1. c + 1 \in 0 .. (MaxBlock + 1)
          BY <1>0, <4>2
        <5> QED
          BY <5>1, IdleRun DEF Runs
      <4>4. TypeOK'
        BY <1>0, <4>1, <4>2, <4>3 DEF IInv, TypeOK, Blocks
      <4>5. ChainInv' /\ NoEventSkipped'
        BY <1>0, <4>1, <4>2 DEF IInv, ChainInv, NoEventSkipped
      <4>6. ASSUME NEW m \in Instances PROVE RunInv(polls[m])'
        <5>1. CASE m = n
          <6>1. q.st = "height" /\ q.from = c + 1 /\ q.from - 1 = c
            BY <4>2 DEF Idle
          <6>2. HandledUpTo(c)'
            BY <1>0, <4>1, <4>2 DEF HandledUpTo
          <6>3. polls'[n] = q
            BY <1>0, <4>1
          <6> QED
            BY <1>0, <4>1, <4>2, <5>1, <6>1, <6>2, <6>3 DEF RunInv, NoCursor
        <5>2. CASE m # n
          <6>1. polls'[m] = polls[m] /\ RunInv(polls[m])
            BY <1>0, <4>1, <5>2 DEF IInv
          <6> QED
            BY <3>2, <4>1, <6>1 DEF RunInv
        <5> QED
          BY <5>1, <5>2
      <4> QED
        BY <4>4, <4>5, <4>6 DEF IInv
    <3> QED
      BY <3>1, <3>2
  <2>3. CASE CursorUpdated(n)
    <3> DEFINE b == polls[n].maxBlock
    <3>1. /\ polls' = [polls EXCEPT ![n] = Idle]
          /\ cursor' = IF cursor < b THEN b ELSE cursor
          /\ UNCHANGED <<head, events, start, handled, errors>>
      BY <2>3 DEF CursorUpdated
    <3>2. /\ b \in Nat /\ b =< head /\ HandledUpTo(b) /\ head =< MaxBlock
          /\ cursor # NoCursor
      BY <1>0, <2>0, <2>3 DEF CursorUpdated, RunInv, Runs, IInv, TypeOK, Blocks
    <3> HIDE DEF b
    <3>3. cursor' # NoCursor /\ cursor' \in Blocks /\ start =< cursor' /\ cursor' =< head
      BY <1>0, <3>1, <3>2 DEF IInv, TypeOK, ChainInv, Blocks, NoCursor
    <3>4. TypeOK'
      BY <1>0, <3>1, <3>3, IdleRun DEF IInv, TypeOK
    <3>5. ChainInv' /\ NoEventSkipped'
      BY <1>0, <3>1, <3>2, <3>3 DEF IInv, ChainInv, NoEventSkipped, HandledUpTo
    <3>6. ASSUME NEW m \in Instances PROVE RunInv(polls[m])'
      <4>1. CASE m = n
        <5>1. polls'[m] = Idle
          BY <1>0, <3>1, <4>1
        <5> QED
          BY <5>1 DEF RunInv, Idle
      <4>2. CASE m # n
        <5>1. polls'[m] = polls[m]
          BY <1>0, <3>1, <4>2
        <5> QED
          BY <3>1, <3>3, <5>1, OtherRuns
      <4> QED
        BY <4>1, <4>2
    <3> QED
      BY <3>4, <3>5, <3>6 DEF IInv
  <2>4. CASE HeightRead(n)
    <3> DEFINE p == polls[n]
               q == [p EXCEPT !.last = head, !.current = p.from, !.maxBlock = p.from]
    <3>1. polls' = [polls EXCEPT ![n] = Looped(q)]
      BY <2>4 DEF HeightRead
    <3>2. /\ p \in Runs /\ p.from \in Nat /\ p.from =< MaxBlock + 1 /\ head \in Blocks
          /\ p.st = "height" /\ RunInv(p)
      BY <1>0, <2>0, <2>4 DEF HeightRead, Runs, IInv, TypeOK
    <3> HIDE DEF p
    <3>3. q \in Runs
      <4>1. p.from \in 0 .. (MaxBlock + 1) /\ p.from \in 0 .. (MaxBlock + BatchSize + 1)
        BY <1>0, <3>2
      <4> QED
        BY <3>2, <4>1 DEF Runs
    <3>4. q.from = p.from /\ q.current = p.from /\ q.maxBlock = p.from /\ q.last = head
      BY <3>2 DEF Runs
    <3>5. cursor # NoCursor /\ start < p.from /\ p.from =< head + 1 /\ HandledUpTo(p.from - 1)
      BY <3>2 DEF RunInv
    <3> HIDE DEF q
    <3>6. Looped(q) \in Runs /\ RunInv(Looped(q))
      BY <1>0, <3>2, <3>3, <3>4, <3>5, LoopedRun
    <3> QED
      BY <1>0, <2>4, <3>1, <3>6, OneRunMoves DEF HeightRead
  <2>5. CASE BatchFetched(n)
    <3> DEFINE p == polls[n]
               batch == {e \in events : e.block \in p.current .. BatchEnd(p)}
               q == [p EXCEPT !.st = "handle", !.todo = batch]
    <3>1. polls' = [polls EXCEPT ![n] = q]
      BY <2>5 DEF BatchFetched, BatchEnd
    <3>2. p \in Runs /\ p.st = "fetch" /\ RunInv(p) /\ events \subseteq Events
      BY <2>0, <2>5 DEF BatchFetched, IInv, TypeOK
    <3>3. UNCHANGED <<head, events, start, cursor, handled, errors>>
      BY <2>5 DEF BatchFetched
    <3> HIDE DEF p
    <3>4. /\ p.from \in Nat /\ p.current \in Nat /\ p.maxBlock \in Nat /\ p.last \in Nat
          /\ BatchEnd(p) \in Nat
          /\ BatchEnd(p) = IF p.current + BatchSize =< p.last
                           THEN p.current + BatchSize ELSE p.last
      BY <1>0, <3>2, BatchEndValue DEF Runs, Blocks
    <3>5. q \in Runs
      BY <3>2 DEF Runs
    <3>6. /\ q.st = "handle" /\ q.from = p.from /\ q.current = p.current /\ q.last = p.last
          /\ q.maxBlock = p.maxBlock /\ q.todo = batch
      BY <3>2 DEF Runs
    <3>7. BatchEnd(q) = BatchEnd(p)
      BY <3>6 DEF BatchEnd
    <3>8. p.current =< BatchEnd(p)
      BY <1>0, <3>2, <3>4 DEF RunInv
    <3>9. \A e \in events : start < e.block /\ e.block =< BatchEnd(p)
                                => e \in handled \/ e \in batch
      BY <1>0, <3>2, <3>4 DEF RunInv, HandledUpTo
    <3>10. \A e \in batch : e \in events /\ e.block =< BatchEnd(p)
      BY <1>0, <3>4
    <3> HIDE DEF q, batch
    <3>11. RunInv(q)
      BY <1>0, <3>2, <3>4, <3>6, <3>7, <3>8, <3>9, <3>10 DEF RunInv
    <3> QED
      BY <1>0, <3>1, <3>3, <3>5, <3>11, OneRunMoves
  <2>6. CASE EventHandled(n)
    <3> PICK p : p = polls[n]
      OBVIOUS
    <3>1. PICK e \in p.todo :
            /\ handled' = handled \cup {e}
            /\ polls' = [polls EXCEPT ![n] =
                 [p EXCEPT !.todo = p.todo \ {e}, !.maxBlock = Max({p.maxBlock, e.block})]]
      BY <2>6 DEF EventHandled
    <3>2. UNCHANGED <<head, events, start, cursor, errors>>
      BY <2>6 DEF EventHandled
    <3>3. p \in Runs /\ p.st = "handle" /\ RunInv(p)
      BY <2>0, <2>6 DEF EventHandled
    <3> DEFINE q == [p EXCEPT !.todo = p.todo \ {e}, !.maxBlock = Max({p.maxBlock, e.block})]
    <3>4. /\ p.from \in Nat /\ p.current \in Nat /\ p.maxBlock \in Nat /\ p.last \in Nat
          /\ p.maxBlock =< MaxBlock + 1 /\ BatchEnd(p) \in Nat
      BY <1>0, <3>3, BatchEndValue DEF Runs, Blocks
    <3>5. e \in events /\ e.block \in Nat /\ e.block =< MaxBlock /\ e.block =< BatchEnd(p)
      <4>1. e \in events /\ e.block =< BatchEnd(p)
        BY <3>3 DEF RunInv
      <4> QED
        BY <1>0, <4>1 DEF IInv, TypeOK, Events
    <3>6. Max({p.maxBlock, e.block}) = IF p.maxBlock >= e.block THEN p.maxBlock ELSE e.block
      BY <3>4, <3>5, MaxOfTwo
    <3>7. /\ q.st = "handle" /\ q.from = p.from /\ q.current = p.current /\ q.last = p.last
          /\ q.maxBlock = (IF p.maxBlock >= e.block THEN p.maxBlock ELSE e.block)
          /\ q.todo = p.todo \ {e}
      BY <3>3, <3>6 DEF Runs
    <3>8. q \in Runs
      <4>1. Max({p.maxBlock, e.block}) \in 0 .. (MaxBlock + 1)
        BY <1>0, <3>4, <3>5, <3>6
      <4> QED
        BY <3>3, <4>1 DEF Runs
    <3>9. TypeOK'
      BY <1>0, <3>1, <3>2, <3>5, <3>8 DEF IInv, TypeOK
    <3>10. ChainInv' /\ NoEventSkipped'
      BY <3>1, <3>2 DEF IInv, ChainInv, NoEventSkipped
    <3>11. ASSUME NEW m \in Instances PROVE RunInv(polls[m])'
      <4>1. CASE m = n
        <5>1. polls'[n] = q
          BY <1>0, <3>1
        <5> HIDE DEF q
        <5>2. BatchEnd(q) = BatchEnd(p)
          BY <3>7 DEF BatchEnd
        <5>3. HandledUpTo(p.from - 1)' /\ HandledUpTo(p.current - 1)'
          BY <3>1, <3>2, <3>3 DEF RunInv, HandledUpTo
        <5>4. \A f \in q.todo : f \in events' /\ f.block =< BatchEnd(q)
          BY <3>2, <3>3, <3>7, <5>2 DEF RunInv
        <5>5. \A f \in events' : start' < f.block /\ f.block =< BatchEnd(q)
                                    => f \in handled' \/ f \in q.todo
          BY <3>1, <3>2, <3>3, <3>7, <5>2 DEF RunInv
        <5>6. RunInv(q)'
          BY <1>0, <3>2, <3>3, <3>4, <3>5, <3>7, <5>2, <5>3, <5>4, <5>5 DEF RunInv, NoCursor
        <5> QED
          BY <4>1, <5>1, <5>6
      <4>2. CASE m # n
        <5>1. polls'[m] = polls[m]
          BY <1>0, <3>1, <4>2
        <5> QED
          BY <3>1, <3>2, <5>1, OtherRuns
      <4> QED
        BY <4>1, <4>2
    <3> QED
      BY <3>9, <3>10, <3>11 DEF IInv
  <2>7. CASE BatchFinished(n)
    <3> DEFINE p == polls[n]
               q == [p EXCEPT !.current = p.current + BatchSize + 1]
    <3>1. polls' = [polls EXCEPT ![n] = Looped(q)]
      BY <2>7 DEF BatchFinished
    <3>2. p \in Runs /\ p.st = "handle" /\ p.todo = {} /\ RunInv(p) /\ head =< MaxBlock
      BY <1>0, <2>0, <2>7 DEF BatchFinished, IInv, TypeOK, Blocks
    <3> HIDE DEF p
    <3>3. /\ p.from \in Nat /\ p.current \in Nat /\ p.maxBlock \in Nat /\ p.last \in Nat
          /\ BatchEnd(p) \in Nat
          /\ BatchEnd(p) = IF p.current + BatchSize =< p.last
                           THEN p.current + BatchSize ELSE p.last
      BY <1>0, <3>2, BatchEndValue DEF Runs, Blocks
    <3>4. /\ cursor # NoCursor /\ start < p.from /\ p.from =< head + 1
          /\ HandledUpTo(p.from - 1) /\ p.from =< p.current /\ p.current < p.last
          /\ p.last =< head /\ p.from =< p.maxBlock
          /\ p.maxBlock = p.from \/ p.maxBlock =< BatchEnd(p)
      BY <3>2 DEF RunInv
    <3>5. HandledUpTo(BatchEnd(p))
      BY <3>2 DEF RunInv, HandledUpTo
    <3>6. /\ q.from = p.from /\ q.current = p.current + BatchSize + 1 /\ q.last = p.last
          /\ q.maxBlock = p.maxBlock
      BY <3>2 DEF Runs
    <3>7. q \in Runs
      <4>1. p.current + BatchSize + 1 \in 0 .. (MaxBlock + BatchSize + 1)
        BY <1>0, <3>2, <3>3, <3>4
      <4> QED
        BY <3>2, <4>1 DEF Runs
    <3> HIDE DEF q
    <3>8. q.current < q.last => HandledUpTo(q.current - 1)
      BY <1>0, <3>3, <3>5, <3>6
    <3>9. q.maxBlock > q.from => HandledUpTo(q.maxBlock) /\ q.maxBlock =< head
      BY <1>0, <3>3, <3>4, <3>5, <3>6 DEF HandledUpTo
    <3>10. Looped(q) \in Runs /\ RunInv(Looped(q))
      BY <1>0, <3>3, <3>4, <3>6, <3>7, <3>8, <3>9, LoopedRun
    <3> QED
      BY <1>0, <2>7, <3>1, <3>10, OneRunMoves DEF BatchFinished
  <2>8. CASE PollFails(n)
    <3>1. errors' \in 0 .. MaxErrors
      BY <1>0, <2>8 DEF PollFails
    <3>2. Idle \in Runs /\ RunInv(Idle)
      BY IdleRun
    <3> QED
      BY <2>8, <3>1, <3>2, OneRunMoves DEF PollFails
  <2> QED
    BY <2>1, <2>2, <2>3, <2>4, <2>5, <2>6, <2>7, <2>8 DEF Poll
<1>3. CASE UNCHANGED vars
  <2>1. TypeOK' /\ ChainInv' /\ NoEventSkipped'
    BY <1>3 DEF vars, IInv, TypeOK, ChainInv, NoEventSkipped
  <2>2. \A n \in Instances : RunInv(polls[n])'
    BY <1>3 DEF vars, IInv, RunInv, HandledUpTo, BatchEnd
  <2> QED
    BY <2>1, <2>2 DEF IInv
<1> QED
  BY <1>1, <1>2, <1>3 DEF Next

-----------------------------------------------------------------------------

\* EventPolling has its types, whatever the constants: the block a batch of
\* fetchAndProcessEvents starts at stays within a batch of the chain's head.
THEOREM TypesHold == Spec => []TypeOK
<1>1. IInv => TypeOK
  BY DEF IInv
<1> QED
  BY <1>1, InitIInv, NextIInv, PTL DEF Spec

\* runUsingLastNotifiedBlock skips no event, for any number of processes that
\* poll one key with any batch size, and any failures and restarts.
THEOREM NothingIsSkipped == Spec => []NoEventSkipped
<1>1. IInv => NoEventSkipped
  BY DEF IInv
<1> QED
  BY <1>1, InitIInv, NextIInv, PTL DEF Spec

\* The conditional update of runUsingLastNotifiedBlock never takes the cursor
\* back, and the row of the cursor is inserted once.
THEOREM CursorIsMonotonic == Spec => CursorNeverMovesBack
<1>1. IInv /\ [Next]_vars => [cursor # NoCursor => cursor' >= cursor]_vars
  <2> SUFFICES ASSUME IInv, Next, cursor # NoCursor PROVE cursor' >= cursor
    OBVIOUS
  <2>0. cursor \in Nat
    BY PollingAssumption DEF IInv, TypeOK, Blocks, NoCursor, PollingAssumption
  <2>1. CASE BlockAdded
    BY <2>0, <2>1 DEF BlockAdded
  <2>2. CASE \E n \in Instances : Poll(n) \/ PollFails(n)
    <3>1. PICK n \in Instances : Poll(n) \/ PollFails(n)
      BY <2>2
    <3>2. polls[n].maxBlock \in Nat
      BY PollingAssumption DEF IInv, TypeOK, Runs, PollingAssumption
    <3> QED
      <4>1. CASE CursorUpdated(n)
        BY <2>0, <3>2, <4>1 DEF CursorUpdated
      <4>2. CASE CursorInserted(n)
        BY <2>0, <4>2 DEF CursorInserted
      <4>3. CASE ~CursorUpdated(n) /\ ~CursorInserted(n)
        <5>1. cursor' = cursor
          <6>1. CASE PollStarts(n) \/ HeightRead(n) \/ BatchFetched(n)
            BY <6>1 DEF PollStarts, HeightRead, BatchFetched
          <6>2. CASE EventHandled(n) \/ BatchFinished(n) \/ PollFails(n)
            BY <6>2 DEF EventHandled, BatchFinished, PollFails
          <6> QED
            BY <3>1, <4>3, <6>1, <6>2 DEF Poll
        <5> QED
          BY <2>0, <5>1
      <4> QED
        BY <4>1, <4>2, <4>3
  <2> QED
    BY <2>1, <2>2 DEF Next
<1> QED
  BY <1>1, InitIInv, NextIInv, PTL DEF Spec, CursorNeverMovesBack
=============================================================================
