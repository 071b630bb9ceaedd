----------------------- MODULE LarkWriteBudgetProofs -----------------------
(***************************************************************************)
(* For every set of calls, requests and past events and all limits: calls  *)
(* that neither overlap nor are cut short by a crash or a file error stay  *)
(* within the write budget, and write no request twice.                    *)
(***************************************************************************)
EXTENDS LarkWriteProofs, FiniteSetTheorems

-----------------------------------------------------------------------------
(* The inductive invariant *)

\* Nothing has overlapped, the process has not been restarted, and no file failed.
Alone == overlapped = "no" /\ crashes = 0 /\ ioFailed = "no"

\* What the budget file and its writes hold is finite.
FiniteInv ==
  /\ IsFiniteSet(past)
  /\ IsFiniteSet(written)
  /\ IsFiniteSet(budgetFile.items)
  /\ \A a \in Actors : \A k \in 1..Len(writes[a]) :
       writes[a][k].file = "budget" => IsFiniteSet(writes[a][k].items)

\* A call that wrote and has not put its event into the file.
Unlogged(c) == pc[c] = "record" \/ (pc[c] \in AtWrite /\ next[c] = "onSuccess")

\* Where a call is after its write.
WrittenPlace ==
  \A c \in written :
    Unlogged(c) \/ pc[c] \in {"onSuccess", "succeeded", "failed", "over", "lost"}

\* The event of a write.
Logged(c) == Event(c, req[c], "yes")

\* The last write of the record step puts the event into the file.
LastLogs ==
  \A c \in Calls : pc[c] \in AtWrite /\ next[c] = "onSuccess" =>
    /\ writes[c][Len(writes[c])].file = "budget"
    /\ Logged(c) \in writes[c][Len(writes[c])].items

\* A set of events that has those of the past and of all writes but a's.
Complete(events, a) ==
  /\ past \subseteq events
  /\ \A c \in written : c # a => Logged(c) \in events

\* Every state of the budget that a call is about to write is complete.
Restores(a) ==
  pc[a] \in AtWrite =>
    \A k \in 1..Len(writes[a]) :
      writes[a][k].file = "budget" => Complete(writes[a][k].items, a)

WritesComplete == Alone => \A a \in Actors : Restores(a)

\* The budget file is truncated, and a fills it.
Filling(a) == pc[a] = "writing" /\ writes[a][1].file = "budget"

\* While it is not, it has every event that it should.
FileComplete ==
  Alone /\ (\A a \in Actors : ~Filling(a)) =>
    /\ past \subseteq budgetFile.items
    /\ \A c \in written : Unlogged(c) \/ Logged(c) \in budgetFile.items

\* While it is, nobody else has filled it.
TornWhileFilling == Alone => \A a \in Actors : Filling(a) => budgetFile.json = "no"

\* A call that the budget let through and that has not written yet.
Admitted(c) ==
  \/ pc[c] \in {"consume", "perform"}
  \/ pc[c] \in AtWrite /\ next[c] \in {"consume", "perform"}

\* There is room for its write, and no write like it.
Fits(c) ==
  /\ req[c].whitelist = "no" => Counted(written) < HardLimit
  /\ req[c].whitelist = "no" /\ req[c].essential = "no" => Counted(written) < SoftLimit
  /\ \A d \in written :
       /\ req[c].key # None => req[d].key # req[c].key
       /\ req[c].key = None => req[d].print # req[c].print

AdmittedFits == Alone => \A c \in Calls : Admitted(c) => Fits(c)

BudgetInv ==
  /\ WrittenPlace
  /\ LastLogs
  /\ WritesComplete
  /\ FileComplete
  /\ TornWhileFilling
  /\ AdmittedFits
  /\ BudgetHeldAlone
  /\ NoDuplicateAlone

-----------------------------------------------------------------------------
(* Everything is finite *)

\* A step that writes nothing of its own keeps what is finite.
LEMMA FiniteKept ==
  ASSUME FiniteInv, NEW a \in Actors, UNCHANGED <<past, written>>,
         IsFiniteSet(budgetFile'.items),
         \A b \in Actors : b # a => writes'[b] = writes[b],
         \A k \in 1..Len(writes'[a]) :
           writes'[a][k].file = "budget" => IsFiniteSet(writes'[a][k].items)
  PROVE  FiniteInv'
BY DEF FiniteInv

\* The writes that the steps make up.
LEMMA FiniteWrites ==
  ASSUME Types, FiniteInv, NEW c \in Calls, pc[c] # "new", NEW allowed \in {"yes", "no"}
  PROVE  /\ IsFiniteSet(LiveEvents)
         /\ \A k \in 1..Len(PruneEvents) : IsFiniteSet(PruneEvents[k].items)
         /\ \A k \in 1..Len(AppendEvent(c, allowed)) :
              IsFiniteSet(AppendEvent(c, allowed)[k].items)
<1> DEFINE new == LiveEvents \cup {Event(c, req[c], allowed)}
           u == W("budget", LiveEvents)
           v == W("budget", new)
<1>1. IsFiniteSet(LiveEvents)
  BY FS_Difference DEF FiniteInv, LiveEvents
<1>2. IsFiniteSet(new)
  BY <1>1, FS_AddElement
<1>3. new \in SUBSET Events
  BY AppendWrites
<1>4. PruneEvents \in {<<>>, <<u>>} /\ AppendEvent(c, allowed) \in {<<v>>, <<u, v>>}
  BY <1>3, BudgetWrites DEF AppendEvent
<1>5. IsFiniteSet(u.items) /\ IsFiniteSet(v.items)
  BY <1>1, <1>2 DEF W
<1> HIDE DEF u, v, new
<1>6. \A k \in 1..Len(PruneEvents) : IsFiniteSet(PruneEvents[k].items)
  BY <1>4, <1>5
<1>7. \A k \in 1..Len(AppendEvent(c, allowed)) : IsFiniteSet(AppendEvent(c, allowed)[k].items)
  <2>1. CASE AppendEvent(c, allowed) = <<v>>
    BY <1>5, <2>1
  <2>2. CASE AppendEvent(c, allowed) = <<u, v>>
    BY <1>5, <2>2
  <2> QED
    BY <1>4, <2>1, <2>2
<1> QED
  BY <1>1, <1>6, <1>7

\* The confirmation's writes are none of the budget.
LEMMA ConfirmOnly ==
  ASSUME Types, NEW items \in SUBSET Ids
  PROVE  /\ \A k \in 1..Len(PruneConfirmations) : PruneConfirmations[k].file = "confirm"
         /\ LET ws == PruneConfirmations \o <<W("confirm", items)>>
            IN  \A k \in 1..Len(ws) : ws[k].file = "confirm"
<1> DEFINE u == W("confirm", LiveIds)
           v == W("confirm", items)
           ws == PruneConfirmations \o <<W("confirm", items)>>
<1>1. PruneConfirmations \in {<<>>, <<u>>} /\ ws \in {<<v>>, <<u, v>>}
  BY ConfirmWrites
<1>2. u.file = "confirm" /\ v.file = "confirm"
  BY DEF W
<1> HIDE DEF u, v, ws
<1>3. \A k \in 1..Len(PruneConfirmations) : PruneConfirmations[k].file = "confirm"
  BY <1>1, <1>2
<1>4. \A k \in 1..Len(ws) : ws[k].file = "confirm"
  <2>1. CASE ws = <<v>>
    BY <1>2, <2>1
  <2>2. CASE ws = <<u, v>>
    BY <1>2, <2>2
  <2> QED
    BY <1>1, <2>1, <2>2
<1> QED
  BY <1>3, <1>4 DEF ws

\* Goto with writes that are finite.
LEMMA GotoFinite ==
  ASSUME Types, FiniteInv, NEW a \in Actors, NEW p \in Stops, NEW ws \in Seq(Write),
         Goto(a, p, ws), UNCHANGED <<past, written, budgetFile>>,
         \A k \in 1..Len(ws) : ws[k].file = "budget" => IsFiniteSet(ws[k].items)
  PROVE  FiniteInv'
<1>1. writes'[a] = ws /\ \A b \in Actors : b # a => writes'[b] = writes[b]
  BY AfterGoto
<1>2. IsFiniteSet(budgetFile'.items)
  BY DEF FiniteInv
<1> QED
  BY <1>1, <1>2, FiniteKept

LEMMA WriteFinite ==
  ASSUME Types, FiniteInv, NEW a \in Actors, WriteOpen(a) \/ WriteData(a)
  PROVE  FiniteInv'
<1>1. UNCHANGED <<past, written>>
  BY DEF WriteOpen, WriteData, outcome
<1>2. pc[a] \in AtWrite
  BY DEF WriteOpen, WriteData, AtWrite
<1>3. /\ Len(writes[a]) \in Nat /\ Len(writes[a]) > 0
      /\ Head(writes[a]) = writes[a][1] /\ Tail(writes[a]) \in Seq(Write)
      /\ Len(Tail(writes[a])) = Len(writes[a]) - 1
      /\ \A k \in 1..Len(Tail(writes[a])) : Tail(writes[a])[k] = writes[a][k + 1]
      /\ Head(writes[a]) \in Write
  BY <1>2, HeadWrite
<1>4. \A k \in 1..Len(writes[a]) :
        writes[a][k].file = "budget" => IsFiniteSet(writes[a][k].items)
  BY DEF FiniteInv
<1>5. CASE WriteOpen(a)
  <2>1. IsFiniteSet(budgetFile'.items)
    <3>1. budgetFile'.items \in {{}, budgetFile.items}
      BY <1>5 DEF WriteOpen, TornFile
    <3> QED
      BY <3>1, FS_EmptySet DEF FiniteInv
  <2>2. UNCHANGED writes
    BY <1>5 DEF WriteOpen
  <2> QED
    BY <1>1, <1>4, <2>1, <2>2, FiniteKept
<1>6. CASE WriteData(a)
  <2>1. IsFiniteSet(budgetFile'.items)
    <3>1. CASE Head(writes[a]).file = "confirm"
      BY <1>6, <3>1 DEF WriteData, FiniteInv
    <3>2. CASE Head(writes[a]).file # "confirm"
      <4>1. budgetFile' \in Filled(budgetFile, Head(writes[a]).items)
        BY <1>6, <3>2 DEF WriteData
      <4>2. budgetFile'.items \in {Head(writes[a]).items, {}}
        BY <4>1, FilledItems
      <4>3. Head(writes[a]).file = "budget"
        BY <1>3, <3>2 DEF Write
      <4>4. IsFiniteSet(Head(writes[a]).items)
        BY <1>3, <1>4, <4>3
      <4> QED
        BY <4>2, <4>4, FS_EmptySet
    <3> QED
      BY <3>1, <3>2
  <2>2. Goto(a, next[a], Tail(writes[a])) /\ next[a] \in Stops
    BY <1>6 DEF WriteData, Types, LocalsOK
  <2>3. /\ writes'[a] = Tail(writes[a])
        /\ \A b \in Actors : b # a => writes'[b] = writes[b]
    <3> DEFINE rest == Tail(writes[a])
    <3>1. rest \in Seq(Write) /\ Goto(a, next[a], rest)
      BY <1>3, <2>2
    <3> HIDE DEF rest
    <3>2. writes'[a] = rest /\ \A b \in Actors : b # a => writes'[b] = writes[b]
      BY <2>2, <3>1, AfterGoto
    <3> QED
      BY <3>2 DEF rest
  <2>4. \A k \in 1..Len(Tail(writes[a])) :
          Tail(writes[a])[k].file = "budget" => IsFiniteSet(Tail(writes[a])[k].items)
    BY <1>3, <1>4
  <2> QED
    BY <1>1, <2>1, <2>3, <2>4, FiniteKept
<1> QED
  BY <1>5, <1>6

LEMMA IoFinite ==
  ASSUME Types, FiniteInv, NEW a \in Actors, IoFails(a)
  PROVE  FiniteInv'
<1>1. UNCHANGED <<past, written>>
  BY DEF IoFails
<1>2. writes'[a] = <<>> /\ \A b \in Actors : b # a => writes'[b] = writes[b]
  BY IoGoto
<1>3. IsFiniteSet(budgetFile'.items)
  <2>1. CASE UNCHANGED budgetFile
    BY <2>1 DEF FiniteInv
  <2>2. CASE /\ pc[a] \in AtWrite /\ writes[a][1].file = "budget"
             /\ budgetFile' \in {File(writes[a][1].items), TornFile}
    <3>1. 1 \in 1..Len(writes[a])
      BY <2>2, HeadWrite
    <3>2. IsFiniteSet(writes[a][1].items)
      BY <2>2, <3>1 DEF FiniteInv
    <3>3. budgetFile'.items \in {writes[a][1].items, {}}
      BY <2>2 DEF File, TornFile
    <3> QED
      BY <3>2, <3>3, FS_EmptySet
  <2> QED
    BY <2>1, <2>2, IoFiles
<1>4. \A k \in 1..Len(writes'[a]) : FALSE
  BY <1>2
<1> QED
  BY <1>1, <1>2, <1>3, <1>4, FiniteKept

LEMMA CallFinite ==
  ASSUME Types, FiniteInv, NEW c \in Calls, Proceed(c), ~Ends(c)
  PROVE  FiniteInv'
<1>1. c \in Actors /\ <<>> \in Seq(Write) /\ \A k \in 1..Len(<<>>) : FALSE
  BY WriteLists DEF Actors
<1>2. CASE WriteOpen(c) \/ WriteData(c)
  BY <1>1, <1>2, WriteFinite
<1>3. CASE Peek(c) \/ Consume(c)
  <2>1. LiveIds \ {req[c].id} \in SUBSET Ids
    BY ConfirmWrites
  <2>2. /\ PruneConfirmations \in Seq(Write) /\ ConsumeWrites(c) \in Seq(Write)
        /\ \A k \in 1..Len(PruneConfirmations) : PruneConfirmations[k].file # "budget"
        /\ \A k \in 1..Len(ConsumeWrites(c)) : ConsumeWrites(c)[k].file # "budget"
    BY <2>1, ConfirmWrites, ConfirmOnly DEF ConsumeWrites
  <2>3. PICK p \in {"check", "refused", "perform"},
             ws \in {PruneConfirmations, ConsumeWrites(c)} : Goto(c, p, ws)
    BY <1>3 DEF Peek, Consume
  <2>4. p \in Stops /\ UNCHANGED <<past, written, budgetFile>>
    BY <1>3 DEF Peek, Consume, Stops, files, outcome
  <2>5. \A k \in 1..Len(ws) : ws[k].file = "budget" => IsFiniteSet(ws[k].items)
    BY <2>2
  <2> QED
    BY <1>1, <2>2, <2>3, <2>4, <2>5, GotoFinite
<1>4. CASE Check(c)
  <2>1. PICK p \in {"deny", "consume", "perform"} : Goto(c, p, PruneEvents)
    BY <1>4 DEF Check
  <2>2. p \in Stops /\ UNCHANGED <<past, written, budgetFile>> /\ pc[c] # "new"
    BY <1>4 DEF Check, Stops, files, outcome
  <2>3. /\ PruneEvents \in Seq(Write)
        /\ \A k \in 1..Len(PruneEvents) : IsFiniteSet(PruneEvents[k].items)
    BY <2>2, BudgetWrites, FiniteWrites
  <2> QED
    BY <1>1, <2>1, <2>2, <2>3, GotoFinite
<1>5. CASE Deny(c) \/ Record(c)
  <2>1. PICK p \in {"refused", "onSuccess"}, allowed \in {"yes", "no"} :
          Goto(c, p, AppendEvent(c, allowed))
    BY <1>5 DEF Deny, Record
  <2>2. p \in Stops /\ UNCHANGED <<past, written, budgetFile>> /\ pc[c] # "new"
    BY <1>5 DEF Deny, Record, Stops, files, outcome
  <2>3. /\ AppendEvent(c, allowed) \in Seq(Write)
        /\ \A k \in 1..Len(AppendEvent(c, allowed)) :
             IsFiniteSet(AppendEvent(c, allowed)[k].items)
    BY <2>2, AppendWrites, FiniteWrites
  <2> QED
    BY <1>1, <2>1, <2>2, <2>3, GotoFinite
<1>6. CASE OnSuccess(c)
  <2>1. PICK p \in {"succeeded", "failed"} : Goto(c, p, <<>>)
    BY <1>6 DEF OnSuccess
  <2>2. p \in Stops /\ UNCHANGED <<past, written, budgetFile>>
    BY <1>6 DEF OnSuccess, Stops, files, outcome
  <2> QED
    BY <1>1, <2>1, <2>2, GotoFinite
<1>7. CASE Perform(c)
  <2>1. PICK p \in {"record", "failed"} : Goto(c, p, <<>>)
    BY <1>7 DEF Perform
  <2>2. p \in Stops /\ UNCHANGED <<past, budgetFile>>
    BY <1>7 DEF Perform, Stops, files
  <2>3. writes'[c] = <<>> /\ \A b \in Actors : b # c => writes'[b] = writes[b]
    BY <1>1, <2>1, <2>2, AfterGoto
  <2>4. IsFiniteSet(written')
    <3>1. IsFiniteSet(written) /\ IsFiniteSet(written \cup {c})
      BY FS_AddElement DEF FiniteInv
    <3>2. written' = written \/ written' = written \cup {c}
      BY <1>7 DEF Perform
    <3> QED
      BY <3>1, <3>2
  <2> QED
    BY <1>1, <2>2, <2>3, <2>4 DEF FiniteInv
<1> QED
  BY <1>2, <1>3, <1>4, <1>5, <1>6, <1>7 DEF Proceed, Ends

LEMMA InitFinite == Init => FiniteInv
<1> SUFFICES ASSUME Init PROVE FiniteInv
  OBVIOUS
<1>1. /\ past \in SUBSET (OldEvents \cup PastEvents)
      /\ OldEvents \cup past \in SUBSET (OldEvents \cup PastEvents)
  BY DEF Init
<1>2. IsFiniteSet(past) /\ IsFiniteSet(OldEvents \cup past)
  BY <1>1, LarkWriteAssumption, FS_Subset
<1>3. budgetFile.items = OldEvents \cup past /\ written = {}
  BY DEF Init, File
<1>4. \A a \in Actors : writes[a] = <<>>
  BY DEF Init
<1> QED
  BY <1>2, <1>3, <1>4, FS_EmptySet DEF FiniteInv

LEMMA NextFinite == Types /\ FiniteInv /\ [Next]_vars => FiniteInv'
<1> SUFFICES ASSUME Types, FiniteInv, [Next]_vars PROVE FiniteInv'
  OBVIOUS
<1>1. CASE UNCHANGED <<past, written, budgetFile, writes>>
  BY <1>1 DEF FiniteInv
<1>2. ASSUME NEW c \in Calls, NEW q \in Requests, Begin(c, q) PROVE FiniteInv'
  <2>1. PICK p \in {"check", "peek", "refused"} : Goto(c, p, <<>>)
    BY <1>2 DEF Begin
  <2>2. c \in Actors /\ p \in Stops /\ <<>> \in Seq(Write)
    BY WriteLists DEF Actors, Stops
  <2>3. UNCHANGED <<past, written, budgetFile>>
    BY <1>2 DEF Begin, files
  <2>4. \A k \in 1..Len(<<>>) : FALSE
    OBVIOUS
  <2> QED
    BY <2>1, <2>2, <2>3, <2>4, GotoFinite
<1>3. ASSUME NEW c \in Calls, Proceed(c) PROVE FiniteInv'
  <2>1. CASE Ends(c)
    <3>1. UNCHANGED <<past, written, budgetFile, writes>>
      BY <2>1 DEF Ends, Conclude, Fail, files, outcome
    <3> QED
      BY <1>1, <3>1
  <2> QED
    BY <1>3, <2>1, CallFinite
<1>4. ASSUME NEW i \in Ids, Preview(i) PROVE FiniteInv'
  <2> DEFINE ws == PruneConfirmations \o <<W("confirm", LiveIds \cup {i})>>
  <2>1. LiveIds \cup {i} \in SUBSET Ids
    BY ConfirmWrites
  <2>2. ws \in Seq(Write) /\ \A k \in 1..Len(ws) : ws[k].file = "confirm"
    BY <2>1, ConfirmWrites, ConfirmOnly
  <2>3. Goto(i, "issued", ws) /\ i \in Actors /\ "issued" \in Stops
    BY <1>4 DEF Preview, Actors, Stops, Idle
  <2>4. UNCHANGED <<past, written, budgetFile>>
    BY <1>4 DEF Preview, files, outcome
  <2> HIDE DEF ws
  <2> QED
    BY <2>2, <2>3, <2>4, GotoFinite
<1>5. ASSUME NEW i \in Ids, WriteOpen(i) \/ WriteData(i) PROVE FiniteInv'
  BY <1>5, WriteFinite DEF Actors
<1>6. CASE Crash \/ UNCHANGED vars
  BY <1>1, <1>6 DEF Crash, vars, files, outcome
<1>7. ASSUME NEW c \in Calls, NEW q \in Requests, Turned(c, q) PROVE FiniteInv'
  BY <1>1, <1>7 DEF Turned, Block, InProgress, Replay, files, outcome
<1>8. ASSUME NEW i \in Ids, Expire(i) PROVE FiniteInv'
  BY <1>1, <1>8 DEF Expire, files, outcome
<1>9. ASSUME NEW a \in Actors, IoFails(a) PROVE FiniteInv'
  BY <1>9, IoFinite
<1> QED
  BY <1>2, <1>3, <1>4, <1>5, <1>6, <1>7, <1>8, <1>9 DEF Next, Submit, Turned

-----------------------------------------------------------------------------
(* The budget *)

\* The writes that are limited, and those that are not essential.
Limited == {c \in written : req[c].whitelist = "no"}
Ordinary == {c \in Limited : req[c].essential = "no"}

LEMMA BudgetHeldIs ==
  BudgetHeldAlone <=>
    (Alone => /\ Limited # {} => Counted(Limited) <= HardLimit
              /\ Ordinary # {} => Counted(Ordinary) <= SoftLimit)
BY DEF BudgetHeldAlone, Alone, Limited, Ordinary

\* While nobody else wrote, the totals are what they were.
LEMMA TotalsKept ==
  ASSUME BudgetHeldAlone, NoDuplicateAlone, Alone' => Alone,
         UNCHANGED <<written, past>>, \A c \in written : req'[c] = req[c]
  PROVE  BudgetHeldAlone' /\ NoDuplicateAlone'
<1>1. NoDuplicateAlone'
  BY DEF NoDuplicateAlone, Alone
<1>2. Limited' = Limited /\ Ordinary' = Ordinary
  BY DEF Limited, Ordinary
<1>3. Counted(Limited)' = Counted(Limited) /\ Counted(Ordinary)' = Counted(Ordinary)
  BY <1>2 DEF Counted
<1>4. (Alone => /\ Limited # {} => Counted(Limited) <= HardLimit
                /\ Ordinary # {} => Counted(Ordinary) <= SoftLimit)'
  BY <1>2, <1>3, BudgetHeldIs
<1>5. BudgetHeldAlone'
  BY <1>4, BudgetHeldIs DEF BudgetHeldAlone, Alone, Limited, Ordinary
<1> QED
  BY <1>1, <1>5

\* Alone, a call that is not at a write reads the whole budget.
LEMMA ReadsAll ==
  ASSUME Types, ConfirmInv, BudgetInv, Alone, NEW c \in Calls,
         pc[c] \notin Idle, pc[c] \notin AtWrite
  PROVE  Complete(LiveEvents, c)
<1>1. \A a \in Actors : a # c => pc[a] \in Idle
  BY DEF ConfirmInv, Solo, Alone, Actors
<1>2. \A a \in Actors : ~Filling(a)
  BY <1>1 DEF Filling, Idle, AtWrite
<1>3. /\ past \subseteq budgetFile.items
      /\ \A d \in written : Unlogged(d) \/ Logged(d) \in budgetFile.items
  BY <1>2 DEF BudgetInv, FileComplete
<1>4. written \subseteq Calls /\ Calls \subseteq Actors
  BY DEF Types, TypeOK, Actors
<1>5. \A d \in written : d # c => Logged(d) \in budgetFile.items
  BY <1>1, <1>3, <1>4 DEF Unlogged, Idle, AtWrite
<1>6. \A d \in Calls : Logged(d) \notin OldEvents
  BY LarkWriteAssumption DEF Logged, Event
<1>7. past \subseteq LiveEvents
  BY <1>3, LarkWriteAssumption DEF LiveEvents, Types, TypeOK
<1> QED
  BY <1>4, <1>5, <1>6, <1>7 DEF Complete, LiveEvents

\* The events of the past and of the writes are as many as there were.
LEMMA CountRead ==
  ASSUME Types, FiniteInv, NEW c \in Calls, c \notin written, Complete(LiveEvents, c)
  PROVE  /\ Counted(written) \in Nat /\ Cardinality(LiveEvents) \in Nat
         /\ Counted(written) <= Cardinality(LiveEvents)
<1> DEFINE f == [d \in written |-> Logged(d)]
           T == LiveEvents \ past
<1>1. IsFiniteSet(LiveEvents) /\ IsFiniteSet(past) /\ IsFiniteSet(written)
  BY FS_Difference DEF FiniteInv, LiveEvents
<1>2. /\ IsFiniteSet(T)
      /\ Cardinality(T) = Cardinality(LiveEvents) - Cardinality(LiveEvents \cap past)
  BY <1>1, FS_Difference
<1>3. LiveEvents \cap past = past
  BY DEF Complete
<1>4. /\ Cardinality(past) \in Nat /\ Cardinality(written) \in Nat
      /\ Cardinality(LiveEvents) \in Nat /\ Cardinality(T) \in Nat
  BY <1>1, <1>2, FS_CardinalityType
<1>5. written \subseteq Calls /\ past \subseteq PastEvents
  BY DEF Types, TypeOK
<1>6. \A d \in written : Logged(d).by = d
  BY DEF Logged, Event
<1>7. \A d \in written : Logged(d) \in T
  BY <1>5, <1>6, LarkWriteAssumption DEF Complete
<1>8. f \in [written -> T] /\ \A d, e \in written : f[d] = f[e] => d = e
  BY <1>6, <1>7
<1>9. f \in Injection(written, T)
  BY <1>8 DEF Injection, IsInjective
<1>10. Cardinality(written) <= Cardinality(T)
  BY <1>2, <1>9, FS_Injection
<1>11. Cardinality(T) = Cardinality(LiveEvents) - Cardinality(past)
  BY <1>2, <1>3
<1> HIDE DEF T
<1> QED
  BY <1>4, <1>10, <1>11 DEF Counted

\* What the budget lets through fits.
LEMMA AllowedFits ==
  ASSUME Types, FiniteInv, NEW c \in Calls, c \notin written, Complete(LiveEvents, c),
         Decision(req[c], LiveEvents) = "allow"
  PROVE  Fits(c)
<1>1. /\ Counted(written) \in Nat /\ Cardinality(LiveEvents) \in Nat
      /\ Counted(written) <= Cardinality(LiveEvents)
      /\ HardLimit \in Nat /\ SoftLimit \in Nat
  BY CountRead, LarkWriteAssumption
<1>2. ~Duplicate(req[c], LiveEvents \ PastEvents)
  BY DEF Decision
<1>3. /\ req[c].whitelist = "no" => ~Reached(Cardinality(LiveEvents), HardLimit)
      /\ req[c].whitelist = "no" /\ req[c].essential = "no" =>
           ~Reached(Cardinality(LiveEvents), SoftLimit)
  BY <1>2 DEF Decision
<1>4. \A d \in written : Logged(d) \in LiveEvents \ PastEvents
  <2>1. \A d \in written : Logged(d).by = d /\ d \in Calls
    BY DEF Logged, Event, Types, TypeOK
  <2> QED
    BY <2>1, LarkWriteAssumption DEF Complete
<1>5. \A d \in written : Logged(d).key = req[d].key /\ Logged(d).print = req[d].print
  BY DEF Logged, Event
<1>6. \A d \in written : /\ req[c].key # None => req[d].key # req[c].key
                         /\ req[c].key = None => req[d].print # req[c].print
  BY <1>2, <1>4, <1>5 DEF Duplicate
<1>7. /\ req[c].whitelist = "no" => Counted(written) < HardLimit
      /\ req[c].whitelist = "no" /\ req[c].essential = "no" => Counted(written) < SoftLimit
  BY <1>1, <1>3 DEF Reached
<1> QED
  BY <1>6, <1>7 DEF Fits

\* A call goes on, with the writes of its step.
LEMMA GotoBudget ==
  ASSUME Types, BudgetInv, NEW c \in Calls, pc[c] \notin Idle, pc[c] \notin AtWrite,
         NEW p \in Stops, NEW ws \in Seq(Write), Goto(c, p, ws),
         UNCHANGED <<budgetFile, req, written, past, overlapped, ioFailed, crashes>>,
         \A k \in 1..Len(ws) : Alone /\ ws[k].file = "budget" => Complete(ws[k].items, c),
         p = "onSuccess" /\ ws # <<>> =>
           ws[Len(ws)].file = "budget" /\ Logged(c) \in ws[Len(ws)].items,
         Alone /\ p \in {"consume", "perform"} => Fits(c),
         c \in written => \/ p = "onSuccess" /\ ws # <<>>
                          \/ p \in {"succeeded", "failed"} /\ ws = <<>> /\ pc[c] # "record"
  PROVE  BudgetInv'
<1>1. c \in Actors /\ Calls \subseteq Actors /\ written \subseteq Calls
  BY DEF Actors, Types, TypeOK
<1>2. /\ pc'[c] = IF ws = <<>> THEN p ELSE "write"
      /\ next'[c] = p /\ writes'[c] = ws
      /\ \A b \in Actors : b # c =>
           pc'[b] = pc[b] /\ next'[b] = next[b] /\ writes'[b] = writes[b]
  BY <1>1, AfterGoto
<1>3. p \notin AtWrite /\ "write" \in AtWrite
  BY DEF Stops, Idle, AtWrite
<1>4. Alone' <=> Alone
  BY DEF Alone
<1>5. \A d \in written : Unlogged(d) => Unlogged(d)'
  BY <1>1, <1>2, <1>3 DEF Unlogged
<1>6. WrittenPlace'
  BY <1>1, <1>2, <1>3, <1>5 DEF BudgetInv, WrittenPlace, Unlogged
<1>7. LastLogs'
  <2> SUFFICES ASSUME NEW d \in Calls, pc'[d] \in AtWrite, next'[d] = "onSuccess"
               PROVE  /\ writes'[d][Len(writes'[d])].file = "budget"
                      /\ Logged(d) \in writes'[d][Len(writes'[d])].items
    BY DEF LastLogs, Logged
  <2>1. CASE d = c
    BY <1>2, <1>3, <2>1
  <2>2. CASE d # c
    BY <1>1, <1>2, <2>2 DEF BudgetInv, LastLogs
  <2> QED
    BY <2>1, <2>2
<1>8. WritesComplete'
  <2> SUFFICES ASSUME Alone, NEW a \in Actors, pc'[a] \in AtWrite,
                      NEW k \in 1..Len(writes'[a]), writes'[a][k].file = "budget"
               PROVE  Complete(writes'[a][k].items, a)
    BY <1>4 DEF WritesComplete, Restores, Complete, Logged
  <2>1. CASE a = c
    BY <1>2, <2>1
  <2>2. CASE a # c
    BY <1>2, <2>2 DEF BudgetInv, WritesComplete, Restores
  <2> QED
    BY <2>1, <2>2
<1>9. \A a \in Actors : Filling(a)' <=> Filling(a)
  BY <1>1, <1>2, <1>3 DEF Filling, AtWrite
<1>10. FileComplete'
  BY <1>4, <1>5, <1>9 DEF BudgetInv, FileComplete, Logged
<1>11. TornWhileFilling'
  BY <1>4, <1>9 DEF BudgetInv, TornWhileFilling
<1>12. AdmittedFits'
  <2>1. \A d \in Calls : Admitted(d)' => Admitted(d) \/ (d = c /\ p \in {"consume", "perform"})
    BY <1>1, <1>2, <1>3 DEF Admitted
  <2>2. \A d \in Calls : Fits(d)' <=> Fits(d)
    BY DEF Fits, Counted
  <2> QED
    BY <1>4, <2>1, <2>2 DEF BudgetInv, AdmittedFits
<1>13. BudgetHeldAlone' /\ NoDuplicateAlone'
  BY <1>4, TotalsKept DEF BudgetInv
<1> QED
  BY <1>6, <1>7, <1>8, <1>10, <1>11, <1>12, <1>13 DEF BudgetInv

\* The steps that write confirmations only, before the write to Lark.
LEMMA ConfirmStepBudget ==
  ASSUME Types, BudgetInv, NEW c \in Calls, Peek(c) \/ Consume(c)
  PROVE  BudgetInv'
<1>1. /\ pc[c] \in {"peek", "consume"} /\ pc[c] \notin Idle /\ pc[c] \notin AtWrite
      /\ c \notin written
  BY DEF Peek, Consume, Idle, AtWrite, BudgetInv, WrittenPlace, Unlogged
<1>2. LiveIds \ {req[c].id} \in SUBSET Ids
  BY ConfirmWrites
<1>3. /\ PruneConfirmations \in Seq(Write) /\ ConsumeWrites(c) \in Seq(Write)
      /\ \A k \in 1..Len(PruneConfirmations) : PruneConfirmations[k].file # "budget"
      /\ \A k \in 1..Len(ConsumeWrites(c)) : ConsumeWrites(c)[k].file # "budget"
  BY <1>2, ConfirmWrites, ConfirmOnly DEF ConsumeWrites
<1>4. PICK p \in {"check", "refused", "perform"},
           ws \in {PruneConfirmations, ConsumeWrites(c)} :
        Goto(c, p, ws) /\ (p = "perform" => pc[c] = "consume")
  BY DEF Peek, Consume
<1>5. p \in Stops /\ ws \in Seq(Write) /\ \A k \in 1..Len(ws) : ws[k].file # "budget"
  BY <1>3 DEF Stops
<1>6. UNCHANGED <<budgetFile, req, written, past, overlapped, ioFailed, crashes>>
  BY DEF Peek, Consume, files, outcome
<1>7. Alone /\ p = "perform" => Fits(c)
  BY <1>4 DEF BudgetInv, AdmittedFits, Admitted
<1> QED
  BY <1>1, <1>4, <1>5, <1>6, <1>7, GotoBudget

LEMMA CheckBudget ==
  ASSUME Types, ConfirmInv, FiniteInv, BudgetInv, NEW c \in Calls, Check(c)
  PROVE  BudgetInv'
<1>1. /\ pc[c] = "check" /\ pc[c] \notin Idle /\ pc[c] \notin AtWrite /\ c \notin written
  BY DEF Check, Idle, AtWrite, BudgetInv, WrittenPlace, Unlogged
<1>2. PICK p \in {"deny", "consume", "perform"} :
        /\ Goto(c, p, PruneEvents)
        /\ p \in {"consume", "perform"} => Decision(req[c], LiveEvents) = "allow"
  BY DEF Check
<1>3. p \in Stops /\ PruneEvents \in Seq(Write)
  BY BudgetWrites DEF Stops
<1>4. Alone => Complete(LiveEvents, c)
  BY <1>1, ReadsAll
<1>5. \A k \in 1..Len(PruneEvents) : PruneEvents[k].items = LiveEvents
  <2>1. PruneEvents \in {<<>>, <<W("budget", LiveEvents)>>}
    BY BudgetWrites
  <2>2. W("budget", LiveEvents).items = LiveEvents
    BY DEF W
  <2> QED
    BY <2>1, <2>2
<1>6. UNCHANGED <<budgetFile, req, written, past, overlapped, ioFailed, crashes>>
  BY DEF Check, files, outcome
<1>7. Alone /\ p \in {"consume", "perform"} => Fits(c)
  BY <1>1, <1>2, <1>4, AllowedFits
<1>8. \A k \in 1..Len(PruneEvents) :
        Alone /\ PruneEvents[k].file = "budget" => Complete(PruneEvents[k].items, c)
  BY <1>4, <1>5
<1> QED
  BY <1>1, <1>2, <1>3, <1>6, <1>7, <1>8, GotoBudget

LEMMA AppendBudget ==
  ASSUME Types, ConfirmInv, BudgetInv, NEW c \in Calls, Deny(c) \/ Record(c)
  PROVE  BudgetInv'
<1>1. /\ pc[c] \in {"deny", "record"} /\ pc[c] \notin Idle /\ pc[c] \notin AtWrite
      /\ c \in written => pc[c] = "record"
      /\ pc[c] # "new"
  BY DEF Deny, Record, Idle, AtWrite, BudgetInv, WrittenPlace, Unlogged
<1>2. PICK p \in {"refused", "onSuccess"}, allowed \in {"yes", "no"} :
        /\ Goto(c, p, AppendEvent(c, allowed))
        /\ p = "onSuccess" <=> pc[c] = "record"
        /\ p = "onSuccess" <=> allowed = "yes"
  BY DEF Deny, Record
<1> DEFINE new == LiveEvents \cup {Event(c, req[c], allowed)}
           u == W("budget", LiveEvents)
           v == W("budget", new)
           ws == AppendEvent(c, allowed)
<1>3. new \in SUBSET Events /\ ws \in Seq(Write) /\ ws # <<>> /\ p \in Stops
  BY <1>1, AppendWrites DEF Stops
<1>4. ws \in {<<v>>, <<u, v>>}
  BY <1>3, BudgetWrites DEF AppendEvent
<1>5. /\ u.items = LiveEvents /\ v.items = new /\ v.file = "budget"
  BY DEF W
<1>6. Alone => Complete(LiveEvents, c) /\ Complete(new, c)
  <2>1. Alone => Complete(LiveEvents, c)
    BY <1>1, ReadsAll
  <2> QED
    BY <2>1 DEF Complete
<1>7. UNCHANGED <<budgetFile, req, written, past, overlapped, ioFailed, crashes>>
  BY DEF Deny, Record, files, outcome
<1>8. p = "onSuccess" => Logged(c) \in new
  BY <1>2 DEF Logged
<1>9. Goto(c, p, ws)
  BY <1>2
<1> HIDE DEF u, v, new, ws
<1>10. ws[Len(ws)] = v /\ \A k \in 1..Len(ws) : ws[k] \in {u, v}
  <2>1. CASE ws = <<v>>
    BY <2>1
  <2>2. CASE ws = <<u, v>>
    BY <2>2
  <2> QED
    BY <1>4, <2>1, <2>2
<1>11. \A k \in 1..Len(ws) : Alone /\ ws[k].file = "budget" => Complete(ws[k].items, c)
  BY <1>5, <1>6, <1>10
<1> QED
  BY <1>1, <1>2, <1>3, <1>5, <1>7, <1>8, <1>9, <1>10, <1>11, GotoBudget

\* The steps that write no file and return from no write.
LEMMA PlainBudget ==
  ASSUME Types, BudgetInv, NEW c \in Calls,
         OnSuccess(c) \/ (Perform(c) /\ written' = written)
  PROVE  BudgetInv'
<1>1. /\ pc[c] \in {"onSuccess", "perform"} /\ pc[c] \notin Idle /\ pc[c] \notin AtWrite
      /\ c \in written => pc[c] = "onSuccess"
  BY DEF OnSuccess, Perform, Idle, AtWrite, BudgetInv, WrittenPlace, Unlogged
<1>2. PICK p \in {"succeeded", "failed", "record"} :
        Goto(c, p, <<>>) /\ (pc[c] = "onSuccess" => p # "record")
  BY DEF OnSuccess, Perform
<1>3. p \in Stops /\ <<>> \in Seq(Write)
  BY WriteLists DEF Stops
<1>4. \A k \in 1..Len(<<>>) : FALSE
  OBVIOUS
<1>5. UNCHANGED <<budgetFile, req, written, past, overlapped, ioFailed, crashes>>
  BY DEF OnSuccess, Perform, files, outcome
<1> QED
  BY <1>1, <1>2, <1>3, <1>4, <1>5, GotoBudget

\* One more write that fits.
LEMMA TotalsGrow ==
  ASSUME Types, FiniteInv, BudgetInv, NEW c \in Calls, c \notin written, Alone, Fits(c),
         written' = written \cup {c}, UNCHANGED <<past, req>>
  PROVE  BudgetHeldAlone' /\ NoDuplicateAlone'
<1>1. NoDuplicateAlone'
  BY DEF BudgetInv, NoDuplicateAlone, Alone, Fits
<1>2. /\ IsFiniteSet(written) /\ IsFiniteSet(written')
      /\ Cardinality(written') = Cardinality(written) + 1
  BY FS_AddElement DEF FiniteInv
<1>3. /\ Limited' \in SUBSET written' /\ Ordinary' \in SUBSET written'
      /\ IsFiniteSet(past)
  BY DEF Limited, Ordinary, FiniteInv
<1>4. /\ Cardinality(Limited') \in Nat /\ Cardinality(Limited') <= Cardinality(written')
      /\ Cardinality(Ordinary') \in Nat /\ Cardinality(Ordinary') <= Cardinality(written')
      /\ Cardinality(past) \in Nat /\ Cardinality(written) \in Nat
  BY <1>2, <1>3, FS_Subset, FS_CardinalityType
<1>5. HardLimit \in Nat /\ SoftLimit \in Nat
  BY LarkWriteAssumption
<1>6. Limited' # {} => Cardinality(Limited') + Cardinality(past) <= HardLimit
  <2>1. CASE req[c].whitelist = "no"
    <3>1. Cardinality(written) + Cardinality(past) < HardLimit
      BY <2>1 DEF Fits, Counted
    <3> QED
      BY <1>2, <1>4, <1>5, <3>1
  <2>2. CASE req[c].whitelist # "no"
    <3>1. Limited' = Limited
      BY <2>2 DEF Limited
    <3>2. Limited # {} => Cardinality(Limited) + Cardinality(past) <= HardLimit
      BY BudgetHeldIs DEF BudgetInv, Counted
    <3> QED
      BY <3>1, <3>2
  <2> QED
    BY <2>1, <2>2
<1>7. Ordinary' # {} => Cardinality(Ordinary') + Cardinality(past) <= SoftLimit
  <2>1. CASE req[c].whitelist = "no" /\ req[c].essential = "no"
    <3>1. Cardinality(written) + Cardinality(past) < SoftLimit
      BY <2>1 DEF Fits, Counted
    <3> QED
      BY <1>2, <1>4, <1>5, <3>1
  <2>2. CASE ~(req[c].whitelist = "no" /\ req[c].essential = "no")
    <3>1. Ordinary' = Ordinary
      BY <2>2 DEF Limited, Ordinary
    <3>2. Ordinary # {} => Cardinality(Ordinary) + Cardinality(past) <= SoftLimit
      BY BudgetHeldIs DEF BudgetInv, Counted
    <3> QED
      BY <3>1, <3>2
  <2> QED
    BY <2>1, <2>2
<1>8. BudgetHeldAlone'
  BY <1>6, <1>7 DEF BudgetHeldAlone, Limited, Ordinary, Counted
<1> QED
  BY <1>1, <1>8

LEMMA PerformBudget ==
  ASSUME Types, ConfirmInv, FiniteInv, BudgetInv, NEW c \in Calls, Perform(c),
         written' # written
  PROVE  BudgetInv'
<1>1. /\ pc[c] = "perform" /\ pc[c] \notin Idle /\ c \notin written
  BY DEF Perform, Idle, AtWrite, BudgetInv, WrittenPlace, Unlogged
<1>2. written' = written \cup {c} /\ Goto(c, "record", <<>>)
  BY DEF Perform
<1>3. UNCHANGED <<budgetFile, req, past, overlapped, ioFailed, crashes>>
  BY DEF Perform, files
<1>4. c \in Actors /\ Calls \subseteq Actors /\ written \subseteq Calls
  BY DEF Actors, Types, TypeOK
<1>5. "record" \in Stops /\ <<>> \in Seq(Write)
  BY WriteLists DEF Stops
<1>6. /\ pc'[c] = "record"
      /\ \A b \in Actors : b # c =>
           pc'[b] = pc[b] /\ next'[b] = next[b] /\ writes'[b] = writes[b]
  BY <1>2, <1>4, <1>5, AfterGoto
<1>7. /\ Alone' <=> Alone
      /\ Alone => \A a \in Actors : a # c => pc[a] \in Idle
  BY <1>1, <1>3, <1>4 DEF Alone, ConfirmInv, Solo
<1>8. WrittenPlace'
  BY <1>2, <1>4, <1>6 DEF BudgetInv, WrittenPlace, Unlogged
<1>9. LastLogs'
  BY <1>3, <1>4, <1>6 DEF BudgetInv, LastLogs, Logged, AtWrite
<1>10. Alone => \A a \in Actors : pc'[a] \notin AtWrite
  BY <1>6, <1>7 DEF Idle, AtWrite
<1>11. WritesComplete'
  BY <1>7, <1>10 DEF WritesComplete, Restores
<1>12. TornWhileFilling'
  BY <1>7, <1>10 DEF TornWhileFilling, Filling, AtWrite
<1>13. FileComplete'
  <2>1. Alone => \A a \in Actors : ~Filling(a)
    BY <1>1, <1>7 DEF Filling, Idle
  <2>2. \A d \in written : Unlogged(d) => Unlogged(d)'
    BY <1>1, <1>4, <1>6 DEF Unlogged, AtWrite
  <2>3. Unlogged(c)'
    BY <1>6 DEF Unlogged
  <2> QED
    BY <1>2, <1>3, <1>7, <2>1, <2>2, <2>3 DEF BudgetInv, FileComplete, Logged
<1>14. AdmittedFits'
  BY <1>4, <1>6, <1>7 DEF AdmittedFits, Admitted, Idle, AtWrite
<1>15. BudgetHeldAlone' /\ NoDuplicateAlone'
  <2>1. CASE Alone
    <3>1. Fits(c)
      BY <1>1, <2>1 DEF BudgetInv, AdmittedFits, Admitted
    <3> QED
      BY <1>1, <1>2, <1>3, <2>1, <3>1, TotalsGrow
  <2>2. CASE ~Alone
    BY <1>3, <2>2 DEF Alone, BudgetHeldAlone, NoDuplicateAlone
  <2> QED
    BY <2>1, <2>2
<1> QED
  BY <1>8, <1>9, <1>11, <1>12, <1>13, <1>14, <1>15 DEF BudgetInv

LEMMA WriteOpenBudget ==
  ASSUME Types, ConfirmInv, BudgetInv, NEW a \in Actors, WriteOpen(a)
  PROVE  BudgetInv'
<1>1. UNCHANGED <<next, writes, req, written, past, overlapped, ioFailed, crashes>>
  BY DEF WriteOpen, outcome
<1>2. /\ pc[a] = "write" /\ pc'[a] = "writing"
      /\ \A b \in Actors : b # a => pc'[b] = pc[b]
  BY DEF WriteOpen, Types, TypeOK
<1>3. /\ Head(writes[a]) = writes[a][1] /\ Head(writes[a]) \in Write
  BY <1>2, HeadWrite DEF AtWrite
<1>4. /\ writes[a][1].file = "budget" => budgetFile' = TornFile
      /\ writes[a][1].file # "budget" => budgetFile' = budgetFile
  BY <1>3 DEF WriteOpen, Write
<1>5. \A b \in Actors : pc'[b] \in AtWrite <=> pc[b] \in AtWrite
  BY <1>2 DEF AtWrite
<1>6. /\ Alone' <=> Alone
      /\ Alone => \A b \in Actors : b # a => pc[b] \in Idle
  BY <1>1, <1>2 DEF Alone, ConfirmInv, Solo, Idle
<1>7. Calls \subseteq Actors /\ written \subseteq Calls
  BY DEF Actors, Types, TypeOK
<1>8. \A d \in written : Unlogged(d)' <=> Unlogged(d)
  BY <1>1, <1>2, <1>5, <1>7 DEF Unlogged, AtWrite
<1>9. WrittenPlace'
  BY <1>1, <1>2, <1>7, <1>8 DEF BudgetInv, WrittenPlace
<1>10. LastLogs'
  BY <1>1, <1>5, <1>7 DEF BudgetInv, LastLogs, Logged
<1>11. WritesComplete'
  BY <1>1, <1>5, <1>6 DEF BudgetInv, WritesComplete, Restores, Complete, Logged
<1>12. FileComplete'
  <2> SUFFICES ASSUME Alone, \A b \in Actors : ~Filling(b)'
               PROVE  /\ past \subseteq budgetFile'.items
                      /\ \A d \in written : Unlogged(d) \/ Logged(d) \in budgetFile'.items
    BY <1>1, <1>6, <1>8 DEF FileComplete, Logged
  <2>1. budgetFile' = budgetFile
    BY <1>1, <1>2, <1>4 DEF Filling
  <2>2. \A b \in Actors : ~Filling(b)
    BY <1>2, <1>6 DEF Filling, Idle
  <2> QED
    BY <2>1, <2>2 DEF BudgetInv, FileComplete
<1>13. TornWhileFilling'
  BY <1>1, <1>2, <1>4, <1>6 DEF TornWhileFilling, Filling, TornFile, Idle
<1>14. AdmittedFits'
  <2>1. \A d \in Calls : Admitted(d)' => Admitted(d)
    BY <1>1, <1>2, <1>5, <1>7 DEF Admitted
  <2>2. \A d \in Calls : Fits(d)' <=> Fits(d)
    BY <1>1 DEF Fits, Counted
  <2> QED
    BY <1>6, <2>1, <2>2 DEF BudgetInv, AdmittedFits
<1>15. BudgetHeldAlone' /\ NoDuplicateAlone'
  BY <1>1, <1>6, TotalsKept DEF BudgetInv
<1> QED
  BY <1>9, <1>10, <1>11, <1>12, <1>13, <1>14, <1>15 DEF BudgetInv

\* The file is filled with a complete state: nobody else wrote since it was read.
LEMMA WriteDataBudget ==
  ASSUME Types, ConfirmInv, BudgetInv, NEW a \in Actors, WriteData(a)
  PROVE  BudgetInv'
<1> DEFINE w == Head(writes[a])
           rest == Tail(writes[a])
<1>1. UNCHANGED <<req, written, past, overlapped, ioFailed, crashes>>
  BY DEF WriteData, outcome
<1>2. pc[a] = "writing" /\ Goto(a, next[a], rest)
  BY DEF WriteData
<1>3. pc[a] \in AtWrite /\ pc[a] \notin Idle
  BY <1>2 DEF AtWrite, Idle
<1>4. /\ Len(writes[a]) \in Nat /\ Len(writes[a]) > 0
      /\ w \in Write /\ w = writes[a][1]
      /\ rest \in Seq(Write) /\ Len(rest) = Len(writes[a]) - 1
      /\ rest = <<>> <=> Len(writes[a]) = 1
      /\ \A k \in 1..Len(rest) : rest[k] = writes[a][k + 1]
  BY <1>3, HeadWrite
<1>5. /\ w.file # "budget" => budgetFile' = budgetFile
      /\ w.file = "budget" /\ budgetFile.json = "no" => budgetFile' = File(w.items)
  BY <1>4 DEF WriteData, Filled, Write
<1> HIDE DEF w, rest
<1>6. next[a] \in Stops
  BY DEF Types, LocalsOK
<1>7. /\ pc'[a] = IF rest = <<>> THEN next[a] ELSE "write"
      /\ next'[a] = next[a] /\ writes'[a] = rest
      /\ \A b \in Actors : b # a =>
           pc'[b] = pc[b] /\ next'[b] = next[b] /\ writes'[b] = writes[b]
  BY <1>2, <1>4, <1>6, AfterGoto
<1>8. Calls \subseteq Actors /\ written \subseteq Calls
  BY DEF Actors, Types, TypeOK
<1>9. /\ Alone' <=> Alone
      /\ Alone => \A b \in Actors : b # a => pc[b] \in Idle
  BY <1>1, <1>3 DEF Alone, ConfirmInv, Solo
<1>10. a \in written => next[a] = "onSuccess"
  BY <1>2 DEF BudgetInv, WrittenPlace, Unlogged
<1>11. /\ \A d \in written : d # a => (Unlogged(d)' <=> Unlogged(d))
       /\ a \in written /\ rest # <<>> => Unlogged(a)'
  BY <1>7, <1>8, <1>10 DEF Unlogged, AtWrite
<1>12. WrittenPlace'
  BY <1>1, <1>7, <1>8, <1>10, <1>11 DEF BudgetInv, WrittenPlace
<1>13. LastLogs'
  <2> SUFFICES ASSUME NEW c \in Calls, pc'[c] \in AtWrite, next'[c] = "onSuccess"
               PROVE  /\ writes'[c][Len(writes'[c])].file = "budget"
                      /\ Logged(c) \in writes'[c][Len(writes'[c])].items
    BY <1>1 DEF LastLogs, Logged
  <2>1. CASE c # a
    BY <1>7, <1>8, <2>1 DEF BudgetInv, LastLogs
  <2>2. CASE c = a
    <3>1. rest # <<>>
      BY <1>6, <1>7, <2>2 DEF Stops, Idle, AtWrite
    <3>2. rest[Len(rest)] = writes[a][Len(writes[a])]
      BY <1>4, <3>1
    <3> QED
      BY <1>3, <1>7, <2>2, <3>2 DEF BudgetInv, LastLogs
  <2> QED
    BY <2>1, <2>2
<1>14. Alone => \A k \in 1..Len(writes[a]) :
         writes[a][k].file = "budget" => Complete(writes[a][k].items, a)
  BY <1>3 DEF BudgetInv, WritesComplete, Restores
<1>15. WritesComplete'
  <2> SUFFICES ASSUME Alone, NEW b \in Actors, pc'[b] \in AtWrite,
                      NEW k \in 1..Len(writes'[b]), writes'[b][k].file = "budget"
               PROVE  Complete(writes'[b][k].items, b)
    BY <1>1, <1>9 DEF WritesComplete, Restores, Complete, Logged
  <2>1. CASE b = a
    BY <1>4, <1>7, <1>14, <2>1
  <2>2. CASE b # a
    BY <1>7, <2>2 DEF BudgetInv, WritesComplete, Restores
  <2> QED
    BY <2>1, <2>2
<1>16. ~Filling(a)'
  BY <1>6, <1>7 DEF Filling, Stops, Idle
<1>17. TornWhileFilling'
  BY <1>7, <1>9, <1>16 DEF TornWhileFilling, Filling, Idle
<1>18. FileComplete'
  <2> SUFFICES ASSUME Alone
               PROVE  /\ past \subseteq budgetFile'.items
                      /\ \A d \in written : Unlogged(d)' \/ Logged(d) \in budgetFile'.items
    BY <1>1, <1>9 DEF FileComplete, Logged
  <2>1. a \in written /\ rest = <<>> => w.file = "budget" /\ Logged(a) \in w.items
    BY <1>3, <1>4, <1>8, <1>10 DEF BudgetInv, LastLogs
  <2>2. CASE w.file = "budget"
    <3>1. Filling(a)
      BY <1>2, <1>4, <2>2 DEF Filling
    <3>2. budgetFile'.items = w.items
      BY <1>5, <2>2, <3>1 DEF BudgetInv, TornWhileFilling, File
    <3>3. Complete(w.items, a)
      BY <1>4, <1>14, <2>2
    <3> QED
      BY <1>11, <2>1, <3>2, <3>3 DEF Complete
  <2>3. CASE w.file # "budget"
    <3>1. \A b \in Actors : ~Filling(b)
      BY <1>4, <1>9, <2>3 DEF Filling, Idle
    <3>2. /\ past \subseteq budgetFile.items
          /\ \A d \in written : Unlogged(d) \/ Logged(d) \in budgetFile.items
      BY <3>1 DEF BudgetInv, FileComplete
    <3>3. \A d \in written : Unlogged(d) => Unlogged(d)'
      BY <1>11, <2>1, <2>3
    <3> QED
      BY <1>5, <2>3, <3>2, <3>3
  <2> QED
    BY <2>2, <2>3
<1>19. AdmittedFits'
  <2>1. \A d \in Calls : Admitted(d)' => Admitted(d)
    BY <1>3, <1>7, <1>8 DEF Admitted, AtWrite
  <2>2. \A d \in Calls : Fits(d)' <=> Fits(d)
    BY <1>1 DEF Fits, Counted
  <2> QED
    BY <1>9, <2>1, <2>2 DEF BudgetInv, AdmittedFits
<1>20. BudgetHeldAlone' /\ NoDuplicateAlone'
  BY <1>1, <1>9, TotalsKept DEF BudgetInv
<1> QED
  BY <1>12, <1>13, <1>15, <1>17, <1>18, <1>19, <1>20 DEF BudgetInv

\* A step of an actor that has not written to Lark: it begins, is turned away,
\* or starts a preview.
LEMMA StartBudget ==
  ASSUME Types, BudgetInv, NEW a \in Actors, pc[a] = "new",
         pc'[a] \notin {"consume", "perform", "writing"},
         pc'[a] \in AtWrite =>
           /\ a \notin Calls
           /\ \A k \in 1..Len(writes'[a]) : writes'[a][k].file # "budget",
         \A b \in Actors : b # a =>
           pc'[b] = pc[b] /\ next'[b] = next[b] /\ writes'[b] = writes[b],
         \A d \in Calls : d # a => req'[d] = req[d],
         UNCHANGED <<budgetFile, written, past>>, Alone' => Alone
  PROVE  BudgetInv'
<1>1. Calls \subseteq Actors /\ written \subseteq Calls /\ a \notin written
  BY DEF Actors, Types, TypeOK, CallsOK
<1>2. \A d \in written : d # a /\ req'[d] = req[d] /\ pc'[d] = pc[d]
  BY <1>1
<1>3. \A d \in written : (Unlogged(d)' <=> Unlogged(d)) /\ Logged(d)' = Logged(d)
  BY <1>1, <1>2 DEF Unlogged, Logged
<1>4. WrittenPlace'
  BY <1>2, <1>3 DEF BudgetInv, WrittenPlace
<1>5. LastLogs'
  BY <1>1 DEF BudgetInv, LastLogs, Logged
<1>6. WritesComplete'
  <2> SUFFICES ASSUME Alone, NEW b \in Actors, pc'[b] \in AtWrite,
                      NEW k \in 1..Len(writes'[b]), writes'[b][k].file = "budget"
               PROVE  Complete(writes'[b][k].items, b)
    BY <1>3 DEF WritesComplete, Restores, Complete
  <2> QED
    BY DEF BudgetInv, WritesComplete, Restores
<1>7. \A b \in Actors : Filling(b)' <=> Filling(b)
  BY DEF Filling
<1>8. FileComplete'
  BY <1>3, <1>7 DEF BudgetInv, FileComplete
<1>9. TornWhileFilling'
  BY <1>7 DEF BudgetInv, TornWhileFilling
<1>10. AdmittedFits'
  <2>1. \A d \in Calls : Admitted(d)' => Admitted(d) /\ d # a
    BY <1>1 DEF Admitted
  <2>2. \A d \in Calls : d # a => (Fits(d)' <=> Fits(d))
    BY <1>2 DEF Fits, Counted
  <2> QED
    BY <2>1, <2>2 DEF BudgetInv, AdmittedFits
<1>11. BudgetHeldAlone' /\ NoDuplicateAlone'
  BY <1>2, TotalsKept DEF BudgetInv
<1> QED
  BY <1>4, <1>5, <1>6, <1>8, <1>9, <1>10, <1>11 DEF BudgetInv

\* A call ends, or nothing of this changes.
LEMMA StopBudget ==
  ASSUME Types, BudgetInv,
         \A a \in Actors : \/ pc'[a] = pc[a]
                           \/ pc[a] \in {"succeeded", "refused", "failed"} /\ pc'[a] = "over",
         UNCHANGED <<budgetFile, next, writes, req, written, past, overlapped, ioFailed, crashes>>
  PROVE  BudgetInv'
<1>1. Calls \subseteq Actors /\ written \subseteq Calls
  BY DEF Actors, Types, TypeOK
<1>2. \A a \in Actors : /\ pc'[a] \in AtWrite <=> pc[a] \in AtWrite
                        /\ pc'[a] = "writing" <=> pc[a] = "writing"
                        /\ pc'[a] = "record" <=> pc[a] = "record"
                        /\ pc'[a] \in {"consume", "perform"} => pc'[a] = pc[a]
  BY DEF AtWrite
<1>3. Alone' <=> Alone
  BY DEF Alone
<1>4. \A d \in written : Unlogged(d)' <=> Unlogged(d)
  BY <1>1, <1>2 DEF Unlogged
<1>5. WrittenPlace'
  BY <1>1, <1>4 DEF BudgetInv, WrittenPlace
<1>6. LastLogs'
  BY <1>1, <1>2 DEF BudgetInv, LastLogs, Logged
<1>7. WritesComplete'
  BY <1>2, <1>3 DEF BudgetInv, WritesComplete, Restores, Complete, Logged
<1>8. \A a \in Actors : Filling(a)' <=> Filling(a)
  BY <1>2 DEF Filling
<1>9. FileComplete' /\ TornWhileFilling'
  BY <1>3, <1>4, <1>8 DEF BudgetInv, FileComplete, TornWhileFilling, Logged
<1>10. AdmittedFits'
  <2>1. \A d \in Calls : Admitted(d)' => Admitted(d)
    BY <1>1, <1>2 DEF Admitted
  <2>2. \A d \in Calls : Fits(d)' <=> Fits(d)
    BY DEF Fits, Counted
  <2> QED
    BY <1>3, <2>1, <2>2 DEF BudgetInv, AdmittedFits
<1>11. BudgetHeldAlone' /\ NoDuplicateAlone'
  BY <1>3, TotalsKept DEF BudgetInv
<1> QED
  BY <1>5, <1>6, <1>7, <1>9, <1>10, <1>11 DEF BudgetInv

\* After a crash only where calls are is left to say.
LEMMA CrashBudget ==
  ASSUME Types, BudgetInv, Crash
  PROVE  BudgetInv'
<1>1. /\ \A a \in Actors : pc'[a] = IF pc[a] \in Idle THEN pc[a] ELSE "lost"
      /\ written' = written /\ written \subseteq Calls /\ Calls \subseteq Actors
  BY CrashTypes DEF Crash, outcome, Actors, Types, TypeOK
<1>2. crashes \in Nat /\ crashes' = crashes + 1
  BY LarkWriteAssumption DEF Crash, Types, LocalsOK
<1>3. crashes' # 0
  BY <1>2
<1>4. WrittenPlace' /\ LastLogs'
  BY <1>1 DEF BudgetInv, WrittenPlace, LastLogs, Unlogged, Idle, AtWrite
<1> QED
  BY <1>3, <1>4 DEF BudgetInv, WritesComplete, FileComplete, TornWhileFilling,
       AdmittedFits, Alone, BudgetHeldAlone, NoDuplicateAlone

\* After a file error, too, only where calls are is left to say.
LEMMA IoBudget ==
  ASSUME Types, BudgetInv, NEW a \in Actors, IoFails(a)
  PROVE  BudgetInv'
<1>1. /\ pc'[a] = IF a \in Calls THEN "failed" ELSE "lost"
      /\ \A b \in Actors : b # a =>
           pc'[b] = pc[b] /\ next'[b] = next[b] /\ writes'[b] = writes[b]
  BY IoGoto
<1>2. UNCHANGED <<written, req>> /\ ioFailed' # "no"
  BY DEF IoFails
<1>3. written \subseteq Calls /\ Calls \subseteq Actors
  BY DEF Actors, Types, TypeOK
<1>4. \A d \in written : d # a => (Unlogged(d)' <=> Unlogged(d))
  BY <1>1, <1>3 DEF Unlogged
<1>5. WrittenPlace'
  BY <1>1, <1>2, <1>3, <1>4 DEF BudgetInv, WrittenPlace
<1>6. LastLogs'
  BY <1>1, <1>2, <1>3 DEF BudgetInv, LastLogs, Logged, AtWrite
<1> QED
  BY <1>2, <1>5, <1>6 DEF BudgetInv, WritesComplete, FileComplete, TornWhileFilling,
       AdmittedFits, Alone, BudgetHeldAlone, NoDuplicateAlone

LEMMA SubmitBudget ==
  ASSUME Types, ConfirmInv, BudgetInv, NEW c \in Calls, NEW q \in Requests,
         Turned(c, q) \/ Begin(c, q)
  PROVE  BudgetInv'
<1>1. c \in Actors
  BY DEF Actors
<1>2. pc[c] = "new" /\ req' = [req EXCEPT ![c] = q]
  BY DEF Turned, Block, InProgress, Replay, Begin, Asks
<1>3. UNCHANGED <<budgetFile, written, past, ioFailed, crashes>>
  BY DEF Turned, Block, InProgress, Replay, Begin, files, outcome
<1>4. /\ pc'[c] \notin AtWrite /\ pc'[c] \notin {"consume", "perform"}
      /\ \A b \in Actors : b # c =>
           pc'[b] = pc[b] /\ next'[b] = next[b] /\ writes'[b] = writes[b]
  <2>1. CASE Turned(c, q)
    BY <1>1, <2>1 DEF Turned, Block, InProgress, Replay, Return, Types, TypeOK, AtWrite
  <2>2. CASE Begin(c, q)
    <3>1. PICK p \in {"check", "peek", "refused"} : Goto(c, p, <<>>)
      BY <2>2 DEF Begin
    <3>2. p \in Stops /\ p \notin AtWrite /\ <<>> \in Seq(Write)
      BY WriteLists DEF Stops, AtWrite
    <3> QED
      BY <1>1, <3>1, <3>2, AfterGoto
  <2> QED
    BY <2>1, <2>2
<1>5. Alone' => Alone
  <2>1. overlapped' = overlapped \/ overlapped' = Overlaps(c)
    BY DEF Turned, Block, InProgress, Replay, Begin
  <2> QED
    BY <1>3, <2>1 DEF Alone, Overlaps
<1>6. \A d \in Calls : d # c => req'[d] = req[d]
  BY <1>2 DEF Types, TypeOK
<1> QED
  BY <1>1, <1>2, <1>3, <1>4, <1>5, <1>6, StartBudget DEF AtWrite

LEMMA PreviewBudget ==
  ASSUME Types, ConfirmInv, BudgetInv, NEW i \in Ids, Preview(i)
  PROVE  BudgetInv'
<1> DEFINE ws == PruneConfirmations \o <<W("confirm", LiveIds \cup {i})>>
<1>1. LiveIds \cup {i} \in SUBSET Ids
  BY ConfirmWrites
<1>2. /\ ws \in Seq(Write) /\ ws # <<>>
      /\ \A k \in 1..Len(ws) : ws[k].file = "confirm"
  BY <1>1, ConfirmWrites, ConfirmOnly, PreviewWrites
<1>3. Goto(i, "issued", ws) /\ pc[i] = "new" /\ overlapped' = Overlaps(i)
  BY DEF Preview
<1>4. UNCHANGED <<budgetFile, req, written, past, ioFailed, crashes>>
  BY DEF Preview, files, outcome
<1> HIDE DEF ws
<1>5. i \in Actors /\ i \notin Calls /\ "issued" \in Stops
  BY LarkWriteAssumption DEF Actors, Stops, Idle
<1>6. /\ pc'[i] = "write" /\ writes'[i] = ws
      /\ \A b \in Actors : b # i =>
           pc'[b] = pc[b] /\ next'[b] = next[b] /\ writes'[b] = writes[b]
  BY <1>2, <1>3, <1>5, AfterGoto
<1>7. Alone' => Alone
  BY <1>3, <1>4 DEF Alone, Overlaps
<1>8. \A k \in 1..Len(writes'[i]) : writes'[i][k].file # "budget"
  BY <1>2, <1>6
<1> QED
  BY <1>3, <1>4, <1>5, <1>6, <1>7, <1>8, StartBudget

LEMMA InitBudget == Init => BudgetInv
<1> SUFFICES ASSUME Init PROVE BudgetInv
  OBVIOUS
<1>1. \A a \in Actors : pc[a] = "new" /\ pc[a] \notin AtWrite
  BY DEF Init, AtWrite
<1>2. Calls \subseteq Actors /\ written = {}
  BY DEF Init, Actors
<1>3. past \subseteq budgetFile.items
  BY DEF Init, File
<1>4. BudgetHeldAlone /\ NoDuplicateAlone
  BY <1>2 DEF BudgetHeldAlone, NoDuplicateAlone
<1> QED
  BY <1>1, <1>2, <1>3, <1>4 DEF BudgetInv, WrittenPlace, LastLogs, WritesComplete, Restores,
       FileComplete, TornWhileFilling, Filling, AdmittedFits, Admitted

LEMMA NextBudget ==
  Types /\ ConfirmInv /\ FiniteInv /\ BudgetInv /\ [Next]_vars => BudgetInv'
<1> SUFFICES ASSUME Types, ConfirmInv, FiniteInv, BudgetInv, [Next]_vars PROVE BudgetInv'
  OBVIOUS
<1>1. CASE Crash
  BY <1>1, CrashBudget
<1>2. ASSUME NEW c \in Calls, NEW q \in Requests, Turned(c, q) \/ Begin(c, q)
      PROVE  BudgetInv'
  BY <1>2, SubmitBudget
<1>3. ASSUME NEW c \in Calls, Ends(c) PROVE BudgetInv'
  <2>1. /\ pc[c] \in {"succeeded", "refused", "failed"} /\ pc'[c] = "over"
        /\ \A b \in Actors : b # c => pc'[b] = pc[b]
    BY <1>3, EndsTypes DEF Ends, Conclude, Fail
  <2>2. UNCHANGED <<budgetFile, next, writes, req, written, past, overlapped, ioFailed, crashes>>
    BY <1>3 DEF Ends, Conclude, Fail, files, outcome
  <2> QED
    BY <2>1, <2>2, StopBudget
<1>4. ASSUME NEW c \in Calls, Proceed(c), ~Ends(c) PROVE BudgetInv'
  <2>1. \/ WriteOpen(c) \/ WriteData(c) \/ Peek(c) \/ Check(c) \/ Deny(c) \/ Consume(c)
        \/ Perform(c) \/ Record(c) \/ OnSuccess(c)
    BY <1>4 DEF Proceed, Ends
  <2>2. c \in Actors
    BY DEF Actors
  <2> QED
    BY <2>1, <2>2, WriteOpenBudget, WriteDataBudget, ConfirmStepBudget, CheckBudget,
       AppendBudget, PlainBudget, PerformBudget
<1>5. ASSUME NEW i \in Ids, Preview(i) \/ WriteOpen(i) \/ WriteData(i)
      PROVE  BudgetInv'
  BY <1>5, PreviewBudget, WriteOpenBudget, WriteDataBudget DEF Actors
<1>6. ASSUME NEW i \in Ids, Expire(i) PROVE BudgetInv'
  BY <1>6, StopBudget DEF Expire, files, outcome
<1>7. CASE UNCHANGED vars
  BY <1>7, StopBudget DEF vars, files, outcome
<1>8. ASSUME NEW a \in Actors, IoFails(a) PROVE BudgetInv'
  BY <1>8, IoBudget
<1> QED
  BY <1>1, <1>2, <1>3, <1>4, <1>5, <1>6, <1>7, <1>8 DEF Next, Submit, Turned

LEMMA BudgetHolds == Spec => []BudgetInv
<1> DEFINE Inv == Types /\ ConfirmInv /\ FiniteInv /\ BudgetInv
<1>1. Init => Inv
  BY InitTypes, InitConfirm, InitFinite, InitBudget
<1>2. Inv /\ [Next]_vars => Inv'
  BY NextTypes, NextConfirm, NextFinite, NextBudget
<1>3. Inv => BudgetInv
  OBVIOUS
<1> HIDE DEF Inv
<1> QED
  BY <1>1, <1>2, <1>3, PTL DEF Spec

\* Calls that neither overlap nor are cut short by a crash or a file error stay
\* within the hard limit, and those that are not essential within the soft limit.
THEOREM BudgetHeldWhenAlone == Spec => []BudgetHeldAlone
BY BudgetHolds, PTL DEF BudgetInv

\* Calls that neither overlap nor are cut short by a crash or a file error write
\* no request a second time, by its key or, without one, by its fingerprint.
THEOREM NoDuplicateWhenAlone == Spec => []NoDuplicateAlone
BY BudgetHolds, PTL DEF BudgetInv
============================================================================
