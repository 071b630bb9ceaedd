-------------------------- MODULE LarkWriteProofs --------------------------
(***************************************************************************)
(* For every set of calls, confirmation ids, keys and requests and any     *)
(* number of crashes and file errors: in one life of the process a key is  *)
(* executed again only after a failure, however calls overlap; and calls   *)
(* that do not overlap write at most once with a confirmation, across      *)
(* crashes and file errors.                                                *)
(***************************************************************************)
EXTENDS LarkWrite, SequenceTheorems, TLAPS

-----------------------------------------------------------------------------
(* Types: what TypeOK leaves out *)

\* Where a call or a preview goes on from, other than a write.
Stops == Idle \cup {"peek", "check", "deny", "consume", "perform", "record",
                    "onSuccess", "succeeded", "refused", "failed"}
AtWrite == {"write", "writing"}

\* Where a call goes on after its writes.
Onward == {"check", "refused", "deny", "consume", "perform", "onSuccess"}

Write == [file : {"confirm"}, items : SUBSET Ids]
         \cup [file : {"budget"}, items : SUBSET Events]

LocalsOK ==
  /\ next \in [Actors -> Stops]
  /\ writes \in [Actors -> Seq(Write)]
  /\ overlapped \in {"yes", "no"}
  /\ crashes \in 0..MaxCrashes

\* A call that began has a request, and goes on with runMutation after a write.
CallsOK ==
  \A c \in Calls :
    /\ pc[c] # "issued"
    /\ pc[c] # "new" => req[c] \in Requests
    /\ pc[c] \in AtWrite => next[c] \in Onward
    /\ c \in performed => pc[c] # "new"

\* A preview only writes.
PreviewsOK ==
  \A i \in Ids :
    /\ pc[i] \in {"new", "issued", "lost"} \cup AtWrite
    /\ pc[i] \in AtWrite => next[i] = "issued"

Types == TypeOK /\ LocalsOK /\ CallsOK /\ PreviewsOK

-----------------------------------------------------------------------------
(* The operators *)

\* Where a and the others are after Goto.
LEMMA AfterGoto ==
  ASSUME Types, NEW a \in Actors, NEW p \in Stops, NEW ws \in Seq(Write),
         Goto(a, p, ws)
  PROVE  /\ pc' \in [Actors -> Stops \cup AtWrite]
         /\ next' \in [Actors -> Stops]
         /\ writes' \in [Actors -> Seq(Write)]
         /\ pc'[a] = IF ws = <<>> THEN p ELSE "write"
         /\ next'[a] = p
         /\ writes'[a] = ws
         /\ \A b \in Actors : b # a =>
              pc'[b] = pc[b] /\ next'[b] = next[b] /\ writes'[b] = writes[b]
<1>1. pc \in [Actors -> Stops \cup AtWrite]
  BY DEF Types, TypeOK, Stops, AtWrite
<1>2. next \in [Actors -> Stops] /\ writes \in [Actors -> Seq(Write)]
  BY DEF Types, LocalsOK
<1>3. "write" \in AtWrite
  BY DEF AtWrite
<1> QED
  BY <1>1, <1>2, <1>3 DEF Goto

\* What a step may write: nothing, one state of one file, or two.
LEMMA WriteLists ==
  /\ <<>> \in Seq(Write)
  /\ \A w \in Write : <<w>> \in Seq(Write) /\ <<w>> # <<>>
  /\ \A v, w \in Write :
       /\ <<v>> \o <<w>> \in Seq(Write)
       /\ <<v>> \o <<w>> = <<v, w>>
       /\ <<v, w>> # <<>>
       /\ <<>> \o <<w>> = <<w>>
<1>1. <<>> \in Seq(Write)
  OBVIOUS
<1>2. ASSUME NEW w \in Write
      PROVE  <<w>> \in Seq(Write) /\ <<w>> # <<>> /\ <<>> \o <<w>> = <<w>>
  OBVIOUS
<1>3. ASSUME NEW v \in Write, NEW w \in Write
      PROVE  <<v, w>> \in Seq(Write) /\ <<v, w>> # <<>>
  OBVIOUS
<1>4. ASSUME NEW v \in Write, NEW w \in Write
      PROVE  <<v>> \o <<w>> = <<v, w>>
  <2>1. <<v>> \in Seq(Write) /\ <<w>> \in Seq(Write) /\ <<v, w>> \in Seq(Write)
    OBVIOUS
  <2>2. /\ <<v>> \o <<w>> \in Seq(Write)
        /\ Len(<<v>> \o <<w>>) = 2
        /\ (<<v>> \o <<w>>)[1] = v /\ (<<v>> \o <<w>>)[2] = w
    BY <2>1, ConcatProperties
  <2>3. Len(<<v, w>>) = 2 /\ \A i \in 1..2 : i = 1 \/ i = 2
    OBVIOUS
  <2>4. \A i \in 1..Len(<<v>> \o <<w>>) : (<<v>> \o <<w>>)[i] = <<v, w>>[i]
    BY <2>2, <2>3
  <2> QED
    BY <2>1, <2>2, <2>3, <2>4, SeqEqual
<1> QED
  BY <1>1, <1>2, <1>3, <1>4

LEMMA ConfirmWrites ==
  ASSUME Types, NEW items \in SUBSET Ids
  PROVE  /\ W("confirm", items) \in Write
         /\ LiveIds \in SUBSET confirmFile.items
         /\ LiveIds \in SUBSET Ids
         /\ PruneConfirmations \in Seq(Write)
         /\ PruneConfirmations \in {<<>>, <<W("confirm", LiveIds)>>}
         /\ PruneConfirmations \o <<W("confirm", items)>> \in Seq(Write)
         /\ PruneConfirmations \o <<W("confirm", items)>> \in
              {<<W("confirm", items)>>, <<W("confirm", LiveIds), W("confirm", items)>>}
<1>1. LiveIds \in SUBSET confirmFile.items /\ LiveIds \in SUBSET Ids
  BY DEF Types, TypeOK, LiveIds
<1>2. W("confirm", items) \in Write /\ W("confirm", LiveIds) \in Write
  BY <1>1 DEF W, Write
<1>3. PruneConfirmations \in {<<>>, <<W("confirm", LiveIds)>>}
  BY DEF PruneConfirmations, WriteBack
<1> QED
  BY <1>1, <1>2, <1>3, WriteLists

LEMMA BudgetWrites ==
  ASSUME Types, NEW items \in SUBSET Events
  PROVE  /\ W("budget", items) \in Write
         /\ LiveEvents \in SUBSET Events
         /\ PruneEvents \in Seq(Write)
         /\ PruneEvents \in {<<>>, <<W("budget", LiveEvents)>>}
         /\ PruneEvents \o <<W("budget", items)>> \in Seq(Write)
         /\ PruneEvents \o <<W("budget", items)>> \in
              {<<W("budget", items)>>, <<W("budget", LiveEvents), W("budget", items)>>}
<1>1. LiveEvents \in SUBSET Events
  BY DEF Types, TypeOK, LiveEvents
<1>2. W("budget", items) \in Write /\ W("budget", LiveEvents) \in Write
  BY <1>1 DEF W, Write
<1>3. PruneEvents \in {<<>>, <<W("budget", LiveEvents)>>}
  BY DEF PruneEvents, WriteBack
<1> QED
  BY <1>1, <1>2, <1>3, WriteLists

\* The writes of recordCall.
LEMMA AppendWrites ==
  ASSUME Types, NEW c \in Calls, pc[c] # "new", NEW allowed \in {"yes", "no"}
  PROVE  /\ LiveEvents \cup {Event(c, req[c], allowed)} \in SUBSET Events
         /\ AppendEvent(c, allowed) \in Seq(Write)
         /\ AppendEvent(c, allowed) # <<>>
<1>1. Event(c, req[c], allowed) \in Events
  BY DEF Types, CallsOK, Events
<1>2. LiveEvents \cup {Event(c, req[c], allowed)} \in SUBSET Events
  BY <1>1 DEF Types, TypeOK, LiveEvents
<1> QED
  BY <1>2, BudgetWrites, WriteLists DEF AppendEvent

\* A write that is under way.
LEMMA HeadWrite ==
  ASSUME Types, NEW a \in Actors, pc[a] \in AtWrite
  PROVE  /\ Len(writes[a]) \in Nat /\ Len(writes[a]) > 0
         /\ Head(writes[a]) \in Write
         /\ Head(writes[a]) = writes[a][1]
         /\ Tail(writes[a]) \in Seq(Write)
         /\ Len(Tail(writes[a])) = Len(writes[a]) - 1
         /\ Tail(writes[a]) = <<>> <=> Len(writes[a]) = 1
         /\ \A k \in 1..Len(Tail(writes[a])) : Tail(writes[a])[k] = writes[a][k + 1]
<1>1. writes[a] \in Seq(Write) /\ writes[a] # <<>>
  BY DEF Types, TypeOK, LocalsOK, AtWrite
<1> DEFINE s == writes[a]
<1> HIDE DEF s
<1>2. s \in Seq(Write) /\ s # <<>>
  BY <1>1 DEF s
<1>3. Len(s) \in Nat /\ Len(s) > 0
  BY <1>2, EmptySeq
<1>4. Head(s) \in Write /\ Tail(s) \in Seq(Write) /\ Len(Tail(s)) = Len(s) - 1
  BY <1>2, HeadTailProperties
<1>5. Head(s) = s[1]
  BY <1>2
<1>6. Tail(s) = <<>> <=> Len(s) = 1
  BY <1>3, <1>4, EmptySeq
<1>7. \A k \in 1..Len(Tail(s)) : Tail(s)[k] = s[k + 1]
  BY <1>2, <1>3, <1>4
<1> QED
  BY <1>3, <1>4, <1>5, <1>6, <1>7 DEF s

\* What filling a file leaves in it.
LEMMA FilledItems ==
  ASSUME NEW file, NEW items, NEW new \in Filled(file, items)
  PROVE  new.items \in {items, {}} /\ new \in {File(items), TornFile}
BY DEF Filled, File, TornFile

-----------------------------------------------------------------------------
(* Every step keeps the types *)

\* The step of a call that goes on.
LEMMA CallGoes ==
  ASSUME Types, NEW c \in Calls, pc[c] \notin Idle,
         NEW p \in Stops \ Idle, NEW ws \in Seq(Write), ws # <<>> => p \in Onward,
         Goto(c, p, ws),
         confirmFile' \in [json : {"yes", "no"}, items : SUBSET Ids],
         budgetFile' \in [json : {"yes", "no"}, items : SUBSET Events],
         performed' \in SUBSET (performed \cup {c}),
         written' \in SUBSET performed', effects' \in SUBSET performed',
         UNCHANGED <<idem, req, result, life, past, expired, overlapped, crashes>>
  PROVE  Types'
<1> c \in Actors /\ p \in Stops
  BY DEF Actors
<1>1. /\ pc' \in [Actors -> Stops \cup AtWrite]
      /\ next' \in [Actors -> Stops] /\ writes' \in [Actors -> Seq(Write)]
      /\ pc'[c] = IF ws = <<>> THEN p ELSE "write"
      /\ next'[c] = p /\ writes'[c] = ws
      /\ \A b \in Actors : b # c =>
           pc'[b] = pc[b] /\ next'[b] = next[b] /\ writes'[b] = writes[b]
  BY AfterGoto
<1>2. pc'[c] \notin Idle
  BY <1>1 DEF Idle
<1>3. LocalsOK'
  BY <1>1 DEF Types, LocalsOK
<1>4. \A a \in Actors : pc'[a] \in {"write", "writing"} => writes'[a] # <<>>
  <2>1. p \notin {"write", "writing"}
    BY DEF Stops, Idle
  <2>2. pc'[c] \in {"write", "writing"} => writes'[c] # <<>>
    BY <1>1, <2>1
  <2>3. \A b \in Actors : pc[b] \in {"write", "writing"} => writes[b] # <<>>
    BY DEF Types, TypeOK
  <2> QED
    BY <1>1, <2>2, <2>3
<1>5. TypeOK'
  BY <1>1, <1>4 DEF Types, TypeOK, Stops, AtWrite
<1>6. CallsOK'
  BY <1>1, <1>2 DEF Types, CallsOK, Actors, Stops, Idle, AtWrite
<1>7. PreviewsOK'
  BY <1>1, LarkWriteAssumption DEF Types, PreviewsOK, Actors
<1> QED
  BY <1>3, <1>5, <1>6, <1>7 DEF Types

\* What the step of call c leaves alone while runMutation goes on.
Goes(c) ==
  /\ c \in Calls
  /\ pc[c] \notin Idle
  /\ pc'[c] \notin Idle
  /\ \A b \in Actors : b # c => pc'[b] = pc[b]
  /\ performed' \subseteq performed \cup {c}
  /\ UNCHANGED <<idem, req, result, life, past, expired, overlapped, crashes>>

LEMMA CallGoesOn ==
  ASSUME Types, NEW c \in Calls, pc[c] \notin Idle,
         NEW p \in Stops \ Idle, NEW ws \in Seq(Write), ws # <<>> => p \in Onward,
         Goto(c, p, ws), UNCHANGED files,
         performed' \in SUBSET (performed \cup {c}),
         written' \in SUBSET performed', effects' \in SUBSET performed',
         UNCHANGED <<idem, req, result, life, past, expired, overlapped, crashes>>
  PROVE  Types' /\ Goes(c)
<1>1. /\ confirmFile' \in [json : {"yes", "no"}, items : SUBSET Ids]
      /\ budgetFile' \in [json : {"yes", "no"}, items : SUBSET Events]
  BY DEF Types, TypeOK, files
<1>2. Types'
  BY <1>1, CallGoes
<1>3. c \in Actors /\ p \in Stops
  BY DEF Actors
<1>4. /\ pc'[c] = IF ws = <<>> THEN p ELSE "write"
      /\ \A b \in Actors : b # c => pc'[b] = pc[b]
  BY <1>3, AfterGoto
<1>5. pc'[c] \notin Idle
  BY <1>4 DEF Idle
<1> QED
  BY <1>2, <1>4, <1>5 DEF Goes

LEMMA PeekTypes ==
  ASSUME Types, NEW c \in Calls, Peek(c)
  PROVE  Types' /\ Goes(c)
<1>1. pc[c] \notin Idle
  BY DEF Peek, Idle
<1>2. PICK p \in {"check", "refused"} : Goto(c, p, PruneConfirmations)
  BY DEF Peek
<1>3. p \in Stops \ Idle /\ p \in Onward
  BY DEF Stops, Idle, Onward
<1>4. PruneConfirmations \in Seq(Write)
  BY ConfirmWrites
<1>5. UNCHANGED <<files, idem, req, result, performed, effects, written, life, past,
                  expired, overlapped, crashes>>
  BY DEF Peek, outcome
<1>6. written \in SUBSET performed /\ effects \in SUBSET performed
  BY DEF Types, TypeOK
<1> QED
  BY <1>1, <1>2, <1>3, <1>4, <1>5, <1>6, CallGoesOn

LEMMA CheckTypes ==
  ASSUME Types, NEW c \in Calls, Check(c)
  PROVE  Types' /\ Goes(c)
<1>1. pc[c] \notin Idle
  BY DEF Check, Idle
<1>2. PICK p \in {"deny", "consume", "perform"} : Goto(c, p, PruneEvents)
  BY DEF Check
<1>3. p \in Stops \ Idle /\ p \in Onward
  BY DEF Stops, Idle, Onward
<1>4. PruneEvents \in Seq(Write)
  BY BudgetWrites
<1>5. UNCHANGED <<files, idem, req, result, performed, effects, written, life, past,
                  expired, overlapped, crashes>>
  BY DEF Check, outcome
<1>6. written \in SUBSET performed /\ effects \in SUBSET performed
  BY DEF Types, TypeOK
<1> QED
  BY <1>1, <1>2, <1>3, <1>4, <1>5, <1>6, CallGoesOn

\* The two steps that append an event.
LEMMA AppendTypes ==
  ASSUME Types, NEW c \in Calls, Deny(c) \/ Record(c)
  PROVE  Types' /\ Goes(c)
<1>1. pc[c] \notin Idle
  BY DEF Deny, Record, Idle
<1>2. PICK p \in {"refused", "onSuccess"}, allowed \in {"yes", "no"} :
        Goto(c, p, AppendEvent(c, allowed))
  BY DEF Deny, Record
<1>3. p \in Stops \ Idle /\ p \in Onward
  BY DEF Stops, Idle, Onward
<1>4. AppendEvent(c, allowed) \in Seq(Write)
  BY <1>1, AppendWrites DEF Idle
<1>5. UNCHANGED <<files, idem, req, result, performed, effects, written, life, past,
                  expired, overlapped, crashes>>
  BY DEF Deny, Record, outcome
<1>6. written \in SUBSET performed /\ effects \in SUBSET performed
  BY DEF Types, TypeOK
<1> QED
  BY <1>1, <1>2, <1>3, <1>4, <1>5, <1>6, CallGoesOn

LEMMA ConsumeTypes ==
  ASSUME Types, NEW c \in Calls, Consume(c)
  PROVE  Types' /\ Goes(c)
<1>1. pc[c] \notin Idle
  BY DEF Consume, Idle
<1>2. LiveIds \ {req[c].id} \in SUBSET Ids
  BY ConfirmWrites
<1>3. ConsumeWrites(c) \in Seq(Write) /\ PruneConfirmations \in Seq(Write)
  BY <1>2, ConfirmWrites DEF ConsumeWrites
<1>4. PICK p \in {"perform", "refused"}, ws \in Seq(Write) : Goto(c, p, ws)
  BY <1>3 DEF Consume
<1>5. p \in Stops \ Idle /\ p \in Onward
  BY DEF Stops, Idle, Onward
<1>6. UNCHANGED <<files, idem, req, result, performed, effects, written, life, past,
                  expired, overlapped, crashes>>
  BY DEF Consume, outcome
<1>7. written \in SUBSET performed /\ effects \in SUBSET performed
  BY DEF Types, TypeOK
<1> QED
  BY <1>1, <1>4, <1>5, <1>6, <1>7, CallGoesOn

LEMMA PerformTypes ==
  ASSUME Types, NEW c \in Calls, Perform(c)
  PROVE  Types' /\ Goes(c)
<1>1. pc[c] \notin Idle
  BY DEF Perform, Idle
<1>2. PICK p \in {"record", "failed"} : Goto(c, p, <<>>)
  BY DEF Perform
<1>3. p \in Stops \ Idle
  BY DEF Stops, Idle
<1>4. <<>> \in Seq(Write)
  BY WriteLists
<1>5. UNCHANGED files /\ performed' = performed \cup {c}
  BY DEF Perform
<1>6. UNCHANGED <<idem, req, result, life, past, expired, overlapped, crashes>>
  BY DEF Perform
<1>7. /\ performed' \in SUBSET (performed \cup {c})
      /\ written' \in SUBSET performed' /\ effects' \in SUBSET performed'
  BY DEF Types, TypeOK, Perform
<1> QED
  BY <1>1, <1>2, <1>3, <1>4, <1>5, <1>6, <1>7, CallGoesOn

LEMMA OnSuccessTypes ==
  ASSUME Types, NEW c \in Calls, OnSuccess(c)
  PROVE  Types' /\ Goes(c)
<1>1. pc[c] \notin Idle
  BY DEF OnSuccess, Idle
<1>2. PICK p \in {"succeeded", "failed"} : Goto(c, p, <<>>)
  BY DEF OnSuccess
<1>3. p \in Stops \ Idle
  BY DEF Stops, Idle
<1>4. <<>> \in Seq(Write)
  BY WriteLists
<1>5. UNCHANGED <<files, idem, req, result, performed, effects, written, life, past,
                  expired, overlapped, crashes>>
  BY DEF OnSuccess, outcome
<1>6. written \in SUBSET performed /\ effects \in SUBSET performed
  BY DEF Types, TypeOK
<1> QED
  BY <1>1, <1>2, <1>3, <1>4, <1>5, <1>6, CallGoesOn

\* The files after a step of a write.
LEMMA WriteFiles ==
  ASSUME Types, NEW a \in Actors, WriteOpen(a) \/ WriteData(a)
  PROVE  /\ confirmFile' \in [json : {"yes", "no"}, items : SUBSET Ids]
         /\ budgetFile' \in [json : {"yes", "no"}, items : SUBSET Events]
<1>1. pc[a] \in AtWrite
  BY DEF WriteOpen, WriteData, AtWrite
<1>2. Head(writes[a]) \in Write
  BY <1>1, HeadWrite
<1>3. /\ confirmFile \in [json : {"yes", "no"}, items : SUBSET Ids]
      /\ budgetFile \in [json : {"yes", "no"}, items : SUBSET Events]
  BY DEF Types, TypeOK
<1>4. CASE WriteOpen(a)
  BY <1>3, <1>4 DEF WriteOpen, TornFile
<1>5. CASE WriteData(a)
  BY <1>2, <1>3, <1>5 DEF WriteData, Filled, File, TornFile, Write
<1> QED
  BY <1>4, <1>5

LEMMA CallWriteOpenTypes ==
  ASSUME Types, NEW c \in Calls, WriteOpen(c)
  PROVE  Types' /\ Goes(c)
<1> c \in Actors
  BY DEF Actors
<1>1. /\ confirmFile' \in [json : {"yes", "no"}, items : SUBSET Ids]
      /\ budgetFile' \in [json : {"yes", "no"}, items : SUBSET Events]
  BY WriteFiles
<1>2. UNCHANGED <<idem, next, writes, req, result, performed, effects, written, life,
                  past, expired, overlapped, crashes>>
  BY DEF WriteOpen, outcome
<1>3. pc[c] = "write" /\ pc' = [pc EXCEPT ![c] = "writing"]
  BY DEF WriteOpen
<1>4. pc \in [Actors -> Stops \cup AtWrite]
  BY DEF Types, TypeOK, Stops, AtWrite
<1>5. /\ pc' \in [Actors -> Stops \cup AtWrite]
      /\ pc'[c] = "writing" /\ \A b \in Actors : b # c => pc'[b] = pc[b]
  BY <1>3, <1>4 DEF AtWrite
<1>6. TypeOK'
  BY <1>1, <1>2, <1>3, <1>5 DEF Types, TypeOK, Stops, AtWrite
<1>7. LocalsOK'
  BY <1>2 DEF Types, LocalsOK
<1>8. CallsOK'
  BY <1>2, <1>3, <1>5 DEF Types, CallsOK, AtWrite, Actors
<1>9. PreviewsOK'
  BY <1>2, <1>5, LarkWriteAssumption DEF Types, PreviewsOK, AtWrite, Actors
<1> QED
  BY <1>2, <1>3, <1>5, <1>6, <1>7, <1>8, <1>9 DEF Types, Goes, Idle

LEMMA CallWriteDataTypes ==
  ASSUME Types, NEW c \in Calls, WriteData(c)
  PROVE  Types' /\ Goes(c)
<1> c \in Actors
  BY DEF Actors
<1>1. /\ confirmFile' \in [json : {"yes", "no"}, items : SUBSET Ids]
      /\ budgetFile' \in [json : {"yes", "no"}, items : SUBSET Events]
  BY WriteFiles
<1>2. UNCHANGED <<idem, req, result, performed, effects, written, life, past,
                  expired, overlapped, crashes>>
  BY DEF WriteData, outcome
<1>3. pc[c] = "writing" /\ Goto(c, next[c], Tail(writes[c]))
  BY DEF WriteData
<1>4. Tail(writes[c]) \in Seq(Write)
  BY <1>3, HeadWrite DEF AtWrite
<1>5. next[c] \in Onward
  BY <1>3 DEF Types, CallsOK, AtWrite
<1>6. next[c] \in Stops \ Idle
  BY <1>5 DEF Onward, Stops, Idle
<1>7. written \in SUBSET performed /\ effects \in SUBSET performed
  BY DEF Types, TypeOK
<1>8. pc[c] \notin Idle
  BY <1>3 DEF Idle
<1>9. Types'
  BY <1>1, <1>2, <1>3, <1>4, <1>5, <1>6, <1>7, <1>8, CallGoes
<1>10. /\ pc'[c] = IF Tail(writes[c]) = <<>> THEN next[c] ELSE "write"
       /\ \A b \in Actors : b # c => pc'[b] = pc[b]
  BY <1>3, <1>4, <1>6, AfterGoto
<1>11. pc'[c] \notin Idle
  BY <1>6, <1>10 DEF Idle
<1> QED
  BY <1>2, <1>8, <1>9, <1>10, <1>11 DEF Goes

\* The steps of runMutation that return: before the executor, or after it.
Turned(c, q) == Block(c, q) \/ InProgress(c, q) \/ Replay(c, q)
Ends(c) == Conclude(c) \/ Fail(c)

\* What the entries become at the end of a call.
LEMMA EntriesTypes ==
  ASSUME Types, NEW c \in Calls, req[c] \in Requests, NEW what \in {"written", "refused"}
  PROVE  Cleared(req[c].key) \in [Keys -> Entries] /\ Stored(c, what) \in [Keys -> Entries]
<1>1. req[c].key \in Keys \cup {None}
  BY LarkWriteAssumption
<1>2. idem \in [Keys -> Entries]
  BY DEF Types, TypeOK
<1>3. Done(c, what) \in Entries /\ NoEntry \in Entries
  BY DEF Entries
<1> QED
  BY <1>1, <1>2, <1>3 DEF Cleared, Stored

LEMMA TurnedTypes ==
  ASSUME Types, NEW c \in Calls, NEW q \in Requests, Turned(c, q)
  PROVE  Types'
<1> c \in Actors
  BY DEF Actors
<1>1. /\ pc[c] = "new" /\ pc' = [pc EXCEPT ![c] = "over"]
      /\ req' = [req EXCEPT ![c] = q]
      /\ \E r \in {"blocked", "in_progress", "replayed"} :
           result' = [result EXCEPT ![c] = r]
  BY DEF Turned, Block, InProgress, Replay, Asks, Return
<1>2. UNCHANGED <<files, idem, next, writes, performed, effects, written, life, past,
                  expired, overlapped, crashes>>
  BY DEF Turned, Block, InProgress, Replay, outcome
<1>3. pc \in [Actors -> Stops \cup AtWrite]
  BY DEF Types, TypeOK, Stops, AtWrite
<1>4. /\ pc' \in [Actors -> Stops \cup AtWrite]
      /\ pc'[c] = "over" /\ \A b \in Actors : b # c => pc'[b] = pc[b]
  BY <1>1, <1>3 DEF Stops, Idle
<1>5. /\ req' \in [Calls -> Requests \cup {NoRequest}]
      /\ req'[c] = q /\ \A d \in Calls : d # c => req'[d] = req[d]
  BY <1>1 DEF Types, TypeOK
<1>6. TypeOK'
  BY <1>1, <1>2, <1>4, <1>5 DEF Types, TypeOK, Stops, AtWrite, files
<1>7. LocalsOK'
  BY <1>2 DEF Types, LocalsOK
<1>8. CallsOK'
  BY <1>2, <1>4, <1>5 DEF Types, CallsOK, AtWrite, Actors
<1>9. PreviewsOK'
  BY <1>2, <1>4, LarkWriteAssumption DEF Types, PreviewsOK, AtWrite, Actors
<1> QED
  BY <1>6, <1>7, <1>8, <1>9 DEF Types

LEMMA BeginTypes ==
  ASSUME Types, NEW c \in Calls, NEW q \in Requests, Begin(c, q)
  PROVE  /\ Types'
         /\ pc'[c] \notin Idle \cup AtWrite
         /\ \A b \in Actors : b # c => pc'[b] = pc[b]
<1> c \in Actors
  BY DEF Actors
<1>1. PICK p \in {"check", "peek", "refused"} : Goto(c, p, <<>>)
  BY DEF Begin
<1>2. p \in Stops \ Idle /\ <<>> \in Seq(Write)
  BY WriteLists DEF Stops, Idle
<1>3. /\ pc' \in [Actors -> Stops \cup AtWrite]
      /\ next' \in [Actors -> Stops] /\ writes' \in [Actors -> Seq(Write)]
      /\ pc'[c] = p /\ next'[c] = p
      /\ \A b \in Actors : b # c =>
           pc'[b] = pc[b] /\ next'[b] = next[b] /\ writes'[b] = writes[b]
  BY <1>1, <1>2, AfterGoto
<1>4. /\ req' = [req EXCEPT ![c] = q] /\ life' = [life EXCEPT ![c] = crashes]
      /\ idem' = IF q.key = None THEN idem ELSE [idem EXCEPT ![q.key] = Pending]
      /\ overlapped' = Overlaps(c)
  BY DEF Begin, Asks
<1>5. UNCHANGED <<files, result, performed, effects, written, past, expired, crashes>>
  BY DEF Begin
<1>6. overlapped' \in {"yes", "no"}
  BY <1>4 DEF Overlaps, Types, LocalsOK
<1>7. /\ req' \in [Calls -> Requests \cup {NoRequest}]
      /\ req'[c] = q /\ \A d \in Calls : d # c => req'[d] = req[d]
  BY <1>4 DEF Types, TypeOK
<1>8. life' \in [Calls -> 0..MaxCrashes]
  BY <1>4 DEF Types, TypeOK, LocalsOK
<1>9. idem' \in [Keys -> Entries]
  <2>1. idem \in [Keys -> Entries]
    BY DEF Types, TypeOK
  <2>2. CASE q.key = None
    BY <1>4, <2>1, <2>2
  <2>3. Pending \in Entries
    BY DEF Entries
  <2>4. CASE q.key # None
    BY <1>4, <2>1, <2>3, <2>4
  <2> QED
    BY <2>2, <2>4
<1>10. \A a \in Actors : pc'[a] \in {"write", "writing"} => writes'[a] # <<>>
  <2>1. \A b \in Actors : pc[b] \in {"write", "writing"} => writes[b] # <<>>
    BY DEF Types, TypeOK
  <2>2. p \notin {"write", "writing"}
    OBVIOUS
  <2> QED
    BY <1>3, <2>1, <2>2
<1>11. TypeOK'
  BY <1>3, <1>5, <1>7, <1>8, <1>9, <1>10 DEF Types, TypeOK, Stops, AtWrite, files
<1>12. LocalsOK'
  BY <1>3, <1>5, <1>6 DEF Types, LocalsOK
<1>13. p \notin Idle \cup AtWrite
  BY DEF Idle, AtWrite
<1>14. CallsOK'
  BY <1>3, <1>5, <1>7, <1>13 DEF Types, CallsOK, Idle, Actors
<1>15. PreviewsOK'
  BY <1>3, LarkWriteAssumption DEF Types, PreviewsOK, Actors
<1> QED
  BY <1>3, <1>11, <1>12, <1>13, <1>14, <1>15 DEF Types

LEMMA EndsTypes ==
  ASSUME Types, NEW c \in Calls, Ends(c)
  PROVE  /\ Types'
         /\ pc[c] \notin Idle /\ pc'[c] = "over"
         /\ \A b \in Actors : b # c => pc'[b] = pc[b]
<1> c \in Actors
  BY DEF Actors
<1>1. pc[c] \in {"succeeded", "refused", "failed"} /\ pc' = [pc EXCEPT ![c] = "over"]
  BY DEF Ends, Conclude, Fail, Return
<1>2. req[c] \in Requests
  BY <1>1 DEF Types, CallsOK
<1>3. /\ \E what \in {"written", "refused"} :
           idem' \in {Stored(c, what), Cleared(req[c].key)}
      /\ \E r \in {"written", "refused", "unverified", "failed"} :
           result' = [result EXCEPT ![c] = r]
      /\ effects' \subseteq effects
  BY DEF Ends, Conclude, Fail, Return, outcome
<1>4. UNCHANGED <<files, next, writes, req, performed, written, life, past,
                  expired, overlapped, crashes>>
  BY DEF Ends, Conclude, Fail, outcome
<1>5. pc \in [Actors -> Stops \cup AtWrite]
  BY DEF Types, TypeOK, Stops, AtWrite
<1>6. /\ pc' \in [Actors -> Stops \cup AtWrite]
      /\ pc'[c] = "over" /\ \A b \in Actors : b # c => pc'[b] = pc[b]
  BY <1>1, <1>5 DEF Stops, Idle
<1>7. idem' \in [Keys -> Entries]
  <2>1. PICK what \in {"written", "refused"} :
          idem' \in {Stored(c, what), Cleared(req[c].key)}
    BY <1>3
  <2> QED
    BY <1>2, <2>1, EntriesTypes
<1>8. result' \in [Calls -> {"none", "blocked", "in_progress", "replayed", "written",
                             "refused", "unverified", "failed"}]
  BY <1>3 DEF Types, TypeOK
<1>9. TypeOK'
  BY <1>3, <1>4, <1>6, <1>7, <1>8 DEF Types, TypeOK, Stops, AtWrite, files
<1>10. LocalsOK'
  BY <1>4 DEF Types, LocalsOK
<1>11. CallsOK'
  BY <1>2, <1>4, <1>6 DEF Types, CallsOK, AtWrite, Actors
<1>12. PreviewsOK'
  BY <1>4, <1>6, LarkWriteAssumption DEF Types, PreviewsOK, AtWrite, Actors
<1> QED
  BY <1>1, <1>6, <1>9, <1>10, <1>11, <1>12 DEF Types, Idle

LEMMA CrashTypes ==
  ASSUME Types, Crash
  PROVE  /\ Types'
         /\ \A a \in Actors : pc'[a] = IF pc[a] \in Idle THEN pc[a] ELSE "lost"
<1>1. pc' = [a \in Actors |-> IF pc[a] \in Idle THEN pc[a] ELSE "lost"]
  BY DEF Crash
<1>2. /\ crashes < MaxCrashes /\ crashes' = crashes + 1
      /\ idem' = [k \in Keys |-> NoEntry]
  BY DEF Crash
<1>3. UNCHANGED <<files, next, writes, req, result, performed, effects, written,
                  life, past, expired, overlapped>>
  BY DEF Crash, outcome
<1>4. pc' \in [Actors -> Stops \cup AtWrite]
      /\ \A a \in Actors : pc'[a] \notin AtWrite
  BY <1>1 DEF Stops, Idle, AtWrite
<1>5. idem' \in [Keys -> Entries]
  BY <1>2 DEF Entries
<1>6. TypeOK'
  BY <1>3, <1>4, <1>5 DEF Types, TypeOK, Stops, AtWrite, files
<1>7. LocalsOK'
  <2>1. crashes' \in 0..MaxCrashes
    BY <1>2, LarkWriteAssumption DEF Types, LocalsOK
  <2> QED
    BY <1>3, <2>1 DEF Types, LocalsOK
<1>8. CallsOK'
  BY <1>1, <1>3, <1>4 DEF Types, CallsOK, Actors, Idle
<1>9. PreviewsOK'
  BY <1>1, <1>4 DEF Types, PreviewsOK, Actors, Idle
<1> QED
  BY <1>1, <1>6, <1>7, <1>8, <1>9 DEF Types

-----------------------------------------------------------------------------
(* The steps of a preview *)

\* What the step of a preview leaves alone.
PreviewGoes(i) ==
  /\ i \in Ids
  /\ \A b \in Actors : b # i => pc'[b] = pc[b]
  /\ UNCHANGED <<idem, req, result, performed, effects, written, life, past, crashes>>

LEMMA PreviewWrites ==
  ASSUME Types, NEW i \in Ids
  PROVE  LET ws == PruneConfirmations \o <<W("confirm", LiveIds \cup {i})>>
         IN  ws \in Seq(Write) /\ ws # <<>>
<1>1. LiveIds \cup {i} \in SUBSET Ids
  BY ConfirmWrites
<1> QED
  BY <1>1, ConfirmWrites, WriteLists

LEMMA PreviewTypes ==
  ASSUME Types, NEW i \in Ids, Preview(i)
  PROVE  Types' /\ PreviewGoes(i) /\ pc'[i] = "write"
<1> DEFINE ws == PruneConfirmations \o <<W("confirm", LiveIds \cup {i})>>
<1> HIDE DEF ws
<1> i \in Actors
  BY DEF Actors
<1>1. Goto(i, "issued", ws) /\ pc[i] = "new" /\ overlapped' = Overlaps(i)
  BY DEF Preview, ws
<1>2. UNCHANGED <<files, idem, req, result, performed, effects, written, life, past,
                  expired, crashes>>
  BY DEF Preview, outcome
<1>3. ws \in Seq(Write) /\ ws # <<>> /\ "issued" \in Stops
  BY PreviewWrites DEF ws, Stops, Idle
<1>4. /\ pc' \in [Actors -> Stops \cup AtWrite]
      /\ next' \in [Actors -> Stops] /\ writes' \in [Actors -> Seq(Write)]
      /\ pc'[i] = "write" /\ next'[i] = "issued" /\ writes'[i] # <<>>
      /\ \A b \in Actors : b # i =>
           pc'[b] = pc[b] /\ next'[b] = next[b] /\ writes'[b] = writes[b]
  BY <1>1, <1>3, AfterGoto
<1>5. \A a \in Actors : pc'[a] \in {"write", "writing"} => writes'[a] # <<>>
  <2>1. \A b \in Actors : pc[b] \in {"write", "writing"} => writes[b] # <<>>
    BY DEF Types, TypeOK
  <2> QED
    BY <1>4, <2>1
<1>6. TypeOK'
  BY <1>2, <1>4, <1>5 DEF Types, TypeOK, Stops, AtWrite, files
<1>7. LocalsOK'
  BY <1>1, <1>2, <1>4 DEF Types, LocalsOK, Overlaps
<1>8. CallsOK'
  BY <1>2, <1>4, LarkWriteAssumption DEF Types, CallsOK, Actors
<1>9. PreviewsOK'
  BY <1>4 DEF Types, PreviewsOK, Actors, AtWrite
<1> QED
  BY <1>2, <1>4, <1>6, <1>7, <1>8, <1>9 DEF Types, PreviewGoes

LEMMA PreviewWriteTypes ==
  ASSUME Types, NEW i \in Ids, WriteOpen(i) \/ WriteData(i)
  PROVE  /\ Types' /\ PreviewGoes(i)
         /\ pc[i] \in AtWrite /\ pc'[i] \in AtWrite \cup {"issued"}
         /\ UNCHANGED <<expired, overlapped>>
<1> i \in Actors
  BY DEF Actors
<1>1. /\ confirmFile' \in [json : {"yes", "no"}, items : SUBSET Ids]
      /\ budgetFile' \in [json : {"yes", "no"}, items : SUBSET Events]
  BY WriteFiles
<1>2. UNCHANGED <<idem, req, result, performed, effects, written, life, past,
                  expired, overlapped, crashes>>
  BY DEF WriteOpen, WriteData, outcome
<1>3. pc[i] \in AtWrite
  BY DEF WriteOpen, WriteData, AtWrite
<1>4. next[i] = "issued" /\ "issued" \in Stops
  BY <1>3 DEF Types, PreviewsOK, Stops, Idle
<1>5. /\ pc' \in [Actors -> Stops \cup AtWrite]
      /\ next' \in [Actors -> Stops] /\ writes' \in [Actors -> Seq(Write)]
      /\ pc'[i] \in AtWrite \cup {"issued"}
      /\ pc'[i] \in AtWrite => writes'[i] # <<>>
      /\ next'[i] = "issued"
      /\ \A b \in Actors : b # i =>
           pc'[b] = pc[b] /\ next'[b] = next[b] /\ writes'[b] = writes[b]
  <2>1. CASE WriteOpen(i)
    <3>1. pc' = [pc EXCEPT ![i] = "writing"] /\ UNCHANGED <<next, writes>>
      BY <2>1 DEF WriteOpen
    <3>2. pc \in [Actors -> Stops \cup AtWrite] /\ writes[i] # <<>>
      BY <1>3 DEF Types, TypeOK, Stops, AtWrite
    <3>3. next \in [Actors -> Stops] /\ writes \in [Actors -> Seq(Write)]
      BY DEF Types, LocalsOK
    <3> QED
      BY <1>4, <3>1, <3>2, <3>3 DEF AtWrite
  <2>2. CASE WriteData(i)
    <3>1. Goto(i, "issued", Tail(writes[i]))
      BY <1>4, <2>2 DEF WriteData
    <3>2. Tail(writes[i]) \in Seq(Write)
      BY <1>3, HeadWrite
    <3>3. "issued" \notin AtWrite /\ "write" \in AtWrite
      BY DEF AtWrite
    <3> QED
      BY <1>4, <3>1, <3>2, <3>3, AfterGoto
  <2> QED
    BY <2>1, <2>2
<1>6. \A a \in Actors : pc'[a] \in {"write", "writing"} => writes'[a] # <<>>
  <2>1. \A b \in Actors : pc[b] \in {"write", "writing"} => writes[b] # <<>>
    BY DEF Types, TypeOK
  <2> QED
    BY <1>5, <2>1 DEF AtWrite
<1>7. TypeOK'
  BY <1>1, <1>2, <1>5, <1>6 DEF Types, TypeOK, Stops, AtWrite
<1>8. LocalsOK'
  BY <1>2, <1>5 DEF Types, LocalsOK
<1>9. CallsOK'
  BY <1>2, <1>5, LarkWriteAssumption DEF Types, CallsOK, Actors
<1>10. PreviewsOK'
  BY <1>5 DEF Types, PreviewsOK, Actors
<1> QED
  BY <1>2, <1>3, <1>5, <1>7, <1>8, <1>9, <1>10 DEF Types, PreviewGoes

LEMMA ExpireTypes ==
  ASSUME Types, NEW i \in Ids, Expire(i)
  PROVE  Types' /\ UNCHANGED <<files, idem, pc, next, writes, req, result, outcome,
                               overlapped, crashes>>
<1>1. UNCHANGED <<files, idem, pc, next, writes, req, result, outcome, overlapped, crashes>>
  BY DEF Expire
<1>2. expired' \in SUBSET Ids
  BY DEF Expire, Types, TypeOK
<1> QED
  BY <1>1, <1>2 DEF Types, TypeOK, LocalsOK, CallsOK, PreviewsOK, files, outcome

\* A file that cannot be read or written: a call fails, a preview is given up.
LEMMA IoGoto ==
  ASSUME Types, NEW a \in Actors, IoFails(a)
  PROVE  LET p == IF a \in Calls THEN "failed" ELSE "lost" IN
         /\ pc[a] \notin Idle
         /\ p \in Stops /\ Goto(a, p, <<>>)
         /\ pc' \in [Actors -> Stops \cup AtWrite]
         /\ next' \in [Actors -> Stops] /\ writes' \in [Actors -> Seq(Write)]
         /\ pc'[a] = p /\ next'[a] = p /\ writes'[a] = <<>>
         /\ \A b \in Actors : b # a =>
              pc'[b] = pc[b] /\ next'[b] = next[b] /\ writes'[b] = writes[b]
<1> DEFINE p == IF a \in Calls THEN "failed" ELSE "lost"
<1>1. pc[a] \notin Idle /\ Goto(a, p, <<>>)
  BY DEF IoFails, Idle
<1>2. p \in Stops /\ <<>> \in Seq(Write)
  BY WriteLists DEF Stops, Idle
<1> HIDE DEF p
<1>3. /\ pc' \in [Actors -> Stops \cup AtWrite]
      /\ next' \in [Actors -> Stops] /\ writes' \in [Actors -> Seq(Write)]
      /\ pc'[a] = p /\ next'[a] = p /\ writes'[a] = <<>>
      /\ \A b \in Actors : b # a =>
           pc'[b] = pc[b] /\ next'[b] = next[b] /\ writes'[b] = writes[b]
  BY <1>1, <1>2, AfterGoto
<1> QED
  BY <1>1, <1>2, <1>3 DEF p

\* It leaves each file as it was, with what was to be written to it, or empty.
LEMMA IoFiles ==
  ASSUME Types, NEW a \in Actors, IoFails(a)
  PROVE  /\ \/ UNCHANGED confirmFile
            \/ /\ pc[a] \in AtWrite /\ writes[a][1] \in Write
               /\ writes[a][1].file = "confirm"
               /\ confirmFile' \in {File(writes[a][1].items), TornFile}
         /\ \/ UNCHANGED budgetFile
            \/ /\ pc[a] \in AtWrite /\ writes[a][1] \in Write
               /\ writes[a][1].file = "budget"
               /\ budgetFile' \in {File(writes[a][1].items), TornFile}
<1>1. CASE pc[a] = "writing"
  <2>1. pc[a] \in AtWrite /\ Head(writes[a]) = writes[a][1] /\ Head(writes[a]) \in Write
    BY <1>1, HeadWrite DEF AtWrite
  <2> QED
    BY <2>1 DEF IoFails, files
<1>2. CASE pc[a] # "writing"
  BY <1>2 DEF IoFails, files
<1> QED
  BY <1>1, <1>2

LEMMA IoTypes ==
  ASSUME Types, NEW a \in Actors, IoFails(a)
  PROVE  Types' /\ (a \in Calls => Goes(a)) /\ (a \in Ids => PreviewGoes(a))
<1> DEFINE p == IF a \in Calls THEN "failed" ELSE "lost"
<1>1. /\ pc[a] \notin Idle /\ pc[a] # "new" /\ p \in Stops
      /\ pc' \in [Actors -> Stops \cup AtWrite]
      /\ next' \in [Actors -> Stops] /\ writes' \in [Actors -> Seq(Write)]
      /\ pc'[a] = p
      /\ \A b \in Actors : b # a =>
           pc'[b] = pc[b] /\ next'[b] = next[b] /\ writes'[b] = writes[b]
  BY IoGoto DEF Idle
<1>2. UNCHANGED <<idem, req, result, performed, effects, written, life, past,
                  expired, overlapped, crashes>>
  BY DEF IoFails
<1>3. /\ confirmFile' \in [json : {"yes", "no"}, items : SUBSET Ids]
      /\ budgetFile' \in [json : {"yes", "no"}, items : SUBSET Events]
  BY IoFiles DEF Types, TypeOK, File, TornFile, Write
<1>4. p \notin AtWrite
  BY DEF AtWrite
<1>5. \A b \in Actors : pc'[b] \in {"write", "writing"} => writes'[b] # <<>>
  <2>1. \A b \in Actors : pc[b] \in {"write", "writing"} => writes[b] # <<>>
    BY DEF Types, TypeOK
  <2> QED
    BY <1>1, <1>4, <2>1 DEF AtWrite
<1>6. TypeOK'
  BY <1>1, <1>2, <1>3, <1>5 DEF Types, TypeOK, Stops, AtWrite
<1>7. LocalsOK'
  BY <1>1, <1>2 DEF Types, LocalsOK
<1>8. CallsOK'
  BY <1>1, <1>2, <1>4 DEF Types, CallsOK, Actors
<1>9. PreviewsOK'
  BY <1>1, <1>4, LarkWriteAssumption DEF Types, PreviewsOK, Actors
<1>10. a \in Calls => Goes(a)
  BY <1>1, <1>2 DEF Goes, Idle
<1>11. a \in Ids => PreviewGoes(a)
  BY <1>1, <1>2 DEF PreviewGoes
<1> QED
  BY <1>6, <1>7, <1>8, <1>9, <1>10, <1>11 DEF Types

-----------------------------------------------------------------------------
(* Next, sorted by what a step does *)

LEMMA CallGoesTypes ==
  ASSUME Types, NEW c \in Calls, Proceed(c), ~Ends(c)
  PROVE  Types' /\ Goes(c)
<1>1. \/ WriteOpen(c) \/ WriteData(c) \/ Peek(c) \/ Check(c) \/ Deny(c) \/ Consume(c)
      \/ Perform(c) \/ Record(c) \/ OnSuccess(c)
  BY DEF Proceed, Ends
<1> QED
  BY <1>1, CallWriteOpenTypes, CallWriteDataTypes, PeekTypes, CheckTypes, AppendTypes,
     ConsumeTypes, PerformTypes, OnSuccessTypes

LEMMA InitTypes == Init => Types
<1> SUFFICES ASSUME Init PROVE Types
  OBVIOUS
<1>1. budgetFile = File(OldEvents \cup past) /\ past \in SUBSET PastEvents
  BY DEF Init
<1>2. budgetFile \in [json : {"yes", "no"}, items : SUBSET Events]
  BY <1>1 DEF File, Events
<1>3. confirmFile \in [json : {"yes", "no"}, items : SUBSET Ids]
  BY DEF Init, File
<1>4. TypeOK
  <2>1. idem \in [Keys -> Entries]
    BY DEF Init, Entries
  <2>2. \A a \in Actors : pc[a] \in {"write", "writing"} => writes[a] # <<>>
    BY DEF Init
  <2>3. life \in [Calls -> 0..MaxCrashes]
    BY LarkWriteAssumption DEF Init
  <2>4. /\ pc \in [Actors -> Idle \cup {"peek", "check", "deny", "consume", "perform",
                                      "record", "onSuccess", "succeeded", "refused",
                                      "failed", "write", "writing"}]
        /\ req \in [Calls -> Requests \cup {NoRequest}]
        /\ result \in [Calls -> {"none", "blocked", "in_progress", "replayed", "written",
                                 "refused", "unverified", "failed"}]
    BY DEF Init, Idle
  <2>5. performed = {} /\ effects = {} /\ written = {} /\ expired = {}
    BY DEF Init
  <2> QED
    BY <1>1, <1>2, <1>3, <2>1, <2>2, <2>3, <2>4, <2>5 DEF TypeOK
<1>5. LocalsOK
  BY LarkWriteAssumption, WriteLists DEF Init, LocalsOK, Stops, Idle
<1>6. CallsOK /\ PreviewsOK
  BY DEF Init, CallsOK, PreviewsOK, AtWrite, Actors
<1> QED
  BY <1>4, <1>5, <1>6 DEF Types

LEMMA NextTypes == Types /\ [Next]_vars => Types'
<1> SUFFICES ASSUME Types, [Next]_vars PROVE Types'
  OBVIOUS
<1>1. CASE Crash
  BY <1>1, CrashTypes
<1>2. ASSUME NEW c \in Calls, NEW q \in Requests, Turned(c, q) PROVE Types'
  BY <1>2, TurnedTypes
<1>3. ASSUME NEW c \in Calls, NEW q \in Requests, Begin(c, q) PROVE Types'
  BY <1>3, BeginTypes
<1>4. ASSUME NEW c \in Calls, Proceed(c) PROVE Types'
  BY <1>4, CallGoesTypes, EndsTypes
<1>5. ASSUME NEW i \in Ids, Preview(i) \/ WriteOpen(i) \/ WriteData(i) \/ Expire(i)
      PROVE  Types'
  BY <1>5, PreviewTypes, PreviewWriteTypes, ExpireTypes
<1>6. ASSUME NEW a \in Actors, IoFails(a) PROVE Types'
  BY <1>6, IoTypes
<1>7. CASE UNCHANGED vars
  BY <1>7 DEF vars, files, outcome, Types, TypeOK, LocalsOK, CallsOK, PreviewsOK
<1> QED
  BY <1>1, <1>2, <1>3, <1>4, <1>5, <1>6, <1>7 DEF Next, Submit, Turned

LEMMA TypesHold == Spec => []Types
BY InitTypes, NextTypes, PTL DEF Spec

\* The types of the state of runMutation, of the files and of the writes that
\* are under way: what is written to a file is a state of that file.
THEOREM LarkTypeCorrect == Spec => []TypeOK
BY TypesHold, PTL DEF Types

-----------------------------------------------------------------------------
(* Keys: who executes holds the key *)

\* A call that is under way began in this life, and its key is pending.
ActivePending ==
  \A c \in Calls : pc[c] \notin Idle =>
    /\ life[c] = crashes
    /\ req[c].key # None => idem[req[c].key] = Pending

\* Two calls with a key are not under way at once.
ActiveAlone ==
  \A c, d \in Calls :
    /\ pc[c] \notin Idle /\ pc[d] \notin Idle
    /\ req[c].key # None /\ req[c].key = req[d].key
    => c = d

\* A call that performed its write in this life and did not fail has left its
\* answer under its key.
DoneStored ==
  \A c \in performed :
    /\ life[c] = crashes /\ pc[c] \in Idle /\ req[c].key # None
    /\ result[c] \notin {"failed", "unverified"}
    => idem[req[c].key] \notin {NoEntry, Pending}

\* A call that a crash cut short is of an earlier life; a result is final.
LifeOK ==
  \A c \in Calls :
    /\ life[c] <= crashes
    /\ pc[c] = "lost" => life[c] < crashes
    /\ result[c] # "none" => pc[c] = "over"

KeysInv ==
  /\ ActivePending
  /\ ActiveAlone
  /\ DoneStored
  /\ LifeOK
  /\ RepeatOnlyAfterFailure

LEMMA Marks ==
  /\ NoEntry # Pending
  /\ \A c, what : what \in {"written", "refused"} => Done(c, what) \notin {NoEntry, Pending}
BY DEF NoEntry, Pending, Done

\* While a call goes on nothing of this changes but that it may perform: no
\* other call of its life with its key performed and did not fail.
LEMMA GoesKeys ==
  ASSUME Types, KeysInv, NEW c \in Calls, Types', Goes(c)
  PROVE  KeysInv'
<1>1. /\ performed \subseteq Calls /\ performed' \subseteq Calls /\ Calls \subseteq Actors
      /\ \A d \in Calls : pc'[d] \in Idle <=> pc[d] \in Idle
      /\ \A d \in Calls : pc[d] \in Idle => pc'[d] = pc[d]
  BY DEF Types, TypeOK, Goes, Actors
<1>2. UNCHANGED <<idem, req, result, life, crashes>>
  BY DEF Goes
<1>3. ActivePending' /\ ActiveAlone'
  BY <1>1, <1>2 DEF KeysInv, ActivePending, ActiveAlone
<1>4. LifeOK'
  BY <1>1, <1>2 DEF KeysInv, LifeOK, Idle
<1>5. \A d \in performed' : d = c \/ d \in performed
  BY DEF Goes
<1>6. DoneStored'
  BY <1>1, <1>2, <1>5 DEF KeysInv, DoneStored, Goes
<1>7. RepeatOnlyAfterFailure'
  <2> SUFFICES ASSUME NEW d \in performed', NEW e \in performed', d # e,
                      req[d].key # None, req[d].key = req[e].key, life[d] = life[e]
               PROVE  \E f \in {d, e} : result[f] \in {"failed", "unverified"}
    BY <1>2 DEF RepeatOnlyAfterFailure
  <2>1. CASE d \in performed /\ e \in performed
    BY <2>1 DEF KeysInv, RepeatOnlyAfterFailure
  <2>2. ASSUME NEW g \in performed, g # c, req[g].key = req[c].key, req[c].key # None,
               life[g] = life[c]
        PROVE  result[g] \in {"failed", "unverified"}
    <3>1. life[c] = crashes /\ idem[req[c].key] = Pending
      BY <2>2 DEF KeysInv, ActivePending, Goes
    <3>2. pc[g] \in Idle
      BY <1>1, <2>2 DEF KeysInv, ActiveAlone, Goes
    <3> QED
      BY <2>2, <3>1, <3>2 DEF KeysInv, DoneStored
  <2> QED
    BY <1>5, <2>1, <2>2
<1> QED
  BY <1>3, <1>4, <1>6, <1>7 DEF KeysInv

LEMMA TurnedKeys ==
  ASSUME Types, KeysInv, NEW c \in Calls, NEW q \in Requests, Turned(c, q)
  PROVE  KeysInv'
<1>1. /\ pc[c] = "new" /\ pc' = [pc EXCEPT ![c] = "over"]
      /\ req' = [req EXCEPT ![c] = q]
      /\ \E r : result' = [result EXCEPT ![c] = r]
  BY DEF Turned, Block, InProgress, Replay, Asks, Return
<1>2. UNCHANGED <<idem, life, crashes, performed>>
  BY DEF Turned, Block, InProgress, Replay, outcome
<1>3. /\ pc'[c] = "over" /\ c \notin performed /\ performed \subseteq Calls
      /\ \A d \in Calls : d # c => pc'[d] = pc[d] /\ req'[d] = req[d] /\ result'[d] = result[d]
  BY <1>1 DEF Types, TypeOK, CallsOK, Actors
<1>4. ActivePending' /\ ActiveAlone'
  BY <1>2, <1>3 DEF KeysInv, ActivePending, ActiveAlone, Idle
<1>5. LifeOK'
  BY <1>2, <1>3 DEF KeysInv, LifeOK
<1>6. DoneStored' /\ RepeatOnlyAfterFailure'
  BY <1>2, <1>3 DEF KeysInv, DoneStored, RepeatOnlyAfterFailure
<1> QED
  BY <1>4, <1>5, <1>6 DEF KeysInv

\* A call begins only when its key has no entry: no call with the key is under
\* way, and none of this life performed its write without a failure.
LEMMA BeginKeys ==
  ASSUME Types, KeysInv, NEW c \in Calls, NEW q \in Requests, Begin(c, q)
  PROVE  KeysInv'
<1>1. /\ pc[c] = "new" /\ req' = [req EXCEPT ![c] = q]
      /\ life' = [life EXCEPT ![c] = crashes]
      /\ idem' = IF q.key = None THEN idem ELSE [idem EXCEPT ![q.key] = Pending]
  BY DEF Begin, Asks
<1>2. UNCHANGED <<crashes, performed, result>>
  BY DEF Begin
<1>3. q.key # None => q.key \in Keys /\ idem[q.key] = NoEntry
  BY LarkWriteAssumption DEF Begin, Entry, HeldOff
<1>4. /\ pc'[c] \notin Idle /\ c \notin performed /\ performed \subseteq Calls
      /\ req'[c] = q /\ life'[c] = crashes
      /\ \A d \in Calls : d # c => pc'[d] = pc[d] /\ req'[d] = req[d] /\ life'[d] = life[d]
  BY <1>1, BeginTypes DEF Types, TypeOK, CallsOK, Actors
<1>5. /\ \A k \in Keys : k # q.key => idem'[k] = idem[k]
      /\ q.key # None => idem'[q.key] = Pending
      /\ q.key = None => idem' = idem
  BY <1>1, <1>3 DEF Types, TypeOK
<1>6. \A d \in Calls : pc[d] # "new" /\ req[d].key # None => req[d].key \in Keys
  BY LarkWriteAssumption DEF Types, CallsOK
<1>7. \A d \in Calls : pc[d] \notin Idle /\ q.key # None => req[d].key # q.key
  BY <1>3, Marks DEF KeysInv, ActivePending
<1>8. ActivePending'
  <2> SUFFICES ASSUME NEW d \in Calls, pc'[d] \notin Idle
               PROVE  /\ life'[d] = crashes
                      /\ req'[d].key # None => idem'[req'[d].key] = Pending
    BY <1>2 DEF ActivePending
  <2>1. CASE d = c
    BY <1>4, <1>5, <2>1
  <2>2. CASE d # c
    <3>1. pc[d] \notin Idle /\ pc[d] # "new" /\ req'[d] = req[d] /\ life'[d] = life[d]
      BY <1>4, <2>2 DEF Idle
    <3> QED
      BY <1>5, <1>6, <1>7, <3>1 DEF KeysInv, ActivePending
  <2> QED
    BY <2>1, <2>2
<1>9. ActiveAlone'
  BY <1>4, <1>7 DEF KeysInv, ActiveAlone
<1>10. LifeOK'
  <2>1. result[c] = "none"
    BY <1>1 DEF KeysInv, LifeOK
  <2>2. crashes \in Nat
    BY LarkWriteAssumption DEF Types, LocalsOK
  <2> QED
    BY <1>2, <1>4, <2>1, <2>2 DEF KeysInv, LifeOK, Idle
<1>11. DoneStored'
  <2> SUFFICES ASSUME NEW d \in performed, life[d] = crashes, pc[d] \in Idle,
                      req[d].key # None, result[d] \notin {"failed", "unverified"}
               PROVE  idem'[req[d].key] \notin {NoEntry, Pending}
    BY <1>2, <1>4 DEF DoneStored
  <2>1. idem[req[d].key] \notin {NoEntry, Pending}
    BY DEF KeysInv, DoneStored
  <2>2. req[d].key \in Keys
    BY <1>4, <1>6 DEF Types, CallsOK
  <2> QED
    BY <1>3, <1>5, <2>1, <2>2
<1>12. RepeatOnlyAfterFailure'
  BY <1>2, <1>4 DEF KeysInv, RepeatOnlyAfterFailure
<1> QED
  BY <1>8, <1>9, <1>10, <1>11, <1>12 DEF KeysInv

\* A call that ends stores its answer, or clears its key and has failed.
LEMMA EndsKeys ==
  ASSUME Types, KeysInv, NEW c \in Calls, Ends(c)
  PROVE  KeysInv'
<1>1. /\ pc[c] \notin Idle /\ pc'[c] = "over"
      /\ \A d \in Calls : d # c => pc'[d] = pc[d]
  BY EndsTypes DEF Actors
<1>2. UNCHANGED <<req, life, crashes, performed>>
  BY DEF Ends, Conclude, Fail, outcome
<1>3. /\ req[c].key # None => req[c].key \in Keys
      /\ \A d \in performed : req[d].key # None => req[d].key \in Keys
      /\ performed \subseteq Calls
  BY <1>1, LarkWriteAssumption DEF Types, TypeOK, CallsOK, Idle
<1>4. \A d \in Calls : d # c => result'[d] = result[d]
  BY DEF Ends, Conclude, Fail, Return, Types, TypeOK
<1>5. \/ result'[c] \in {"failed", "unverified"}
      \/ req[c].key # None => idem'[req[c].key] \notin {NoEntry, Pending}
  <2>1. CASE Fail(c)
    BY <2>1 DEF Fail, Return, Types, TypeOK
  <2>2. CASE Conclude(c) /\ result' = [result EXCEPT ![c] = "unverified"]
    BY <2>2 DEF Types, TypeOK
  <2>3. CASE \E what \in {"written", "refused"} : idem' = Stored(c, what)
    BY <1>3, <2>3, Marks DEF Stored, Types, TypeOK
  <2> QED
    BY <2>1, <2>2, <2>3 DEF Ends, Conclude, Return
<1>6. \A k \in Keys : k # req[c].key => idem'[k] = idem[k]
  <2>1. \/ idem' = Cleared(req[c].key)
        \/ \E what : idem' = Stored(c, what)
    BY DEF Ends, Conclude, Fail
  <2> QED
    BY <2>1 DEF Cleared, Stored, Types, TypeOK
<1>7. ActivePending'
  <2> SUFFICES ASSUME NEW d \in Calls, pc'[d] \notin Idle
               PROVE  /\ life[d] = crashes
                      /\ req[d].key # None => idem'[req[d].key] = Pending
    BY <1>2 DEF ActivePending
  <2>1. d # c /\ pc[d] \notin Idle
    BY <1>1 DEF Idle
  <2>2. req[d].key # None => req[d].key \in Keys /\ req[d].key # req[c].key
    BY <1>1, <2>1, LarkWriteAssumption DEF Types, CallsOK, Idle, KeysInv, ActiveAlone
  <2> QED
    BY <1>6, <2>1, <2>2 DEF KeysInv, ActivePending
<1>8. ActiveAlone'
  BY <1>1, <1>2 DEF KeysInv, ActiveAlone, Idle
<1>9. LifeOK'
  BY <1>1, <1>2, <1>4 DEF KeysInv, LifeOK
<1>10. DoneStored'
  <2> SUFFICES ASSUME NEW d \in performed, life[d] = crashes, pc'[d] \in Idle,
                      req[d].key # None, result'[d] \notin {"failed", "unverified"}
               PROVE  idem'[req[d].key] \notin {NoEntry, Pending}
    BY <1>2 DEF DoneStored
  <2>1. CASE d = c
    BY <1>5, <2>1
  <2>2. CASE d # c
    <3>1. pc[d] \in Idle /\ result[d] \notin {"failed", "unverified"}
      BY <1>1, <1>3, <1>4, <2>2
    <3>2. idem[req[d].key] \notin {NoEntry, Pending}
      BY <3>1 DEF KeysInv, DoneStored
    <3>3. req[d].key # req[c].key
      BY <1>1, <3>2 DEF KeysInv, ActivePending
    <3> QED
      BY <1>3, <1>6, <3>2, <3>3
  <2> QED
    BY <2>1, <2>2
<1>11. RepeatOnlyAfterFailure'
  <2>1. result[c] = "none"
    BY <1>1 DEF KeysInv, LifeOK, Idle
  <2> QED
    BY <1>2, <1>3, <1>4, <2>1 DEF KeysInv, RepeatOnlyAfterFailure
<1> QED
  BY <1>7, <1>8, <1>9, <1>10, <1>11 DEF KeysInv

\* After a crash nothing of the earlier lives is under way.
LEMMA CrashKeys ==
  ASSUME Types, KeysInv, Crash
  PROVE  KeysInv'
<1>1. UNCHANGED <<req, result, life, performed>> /\ crashes' = crashes + 1
  BY DEF Crash, outcome
<1>2. \A a \in Calls : pc'[a] = IF pc[a] \in Idle THEN pc[a] ELSE "lost"
  BY CrashTypes DEF Actors
<1>3. \A c \in Calls : pc'[c] \in Idle
  BY <1>2 DEF Idle
<1>4. /\ crashes \in Nat /\ \A c \in Calls : life[c] \in Nat
      /\ performed \subseteq Calls
  BY LarkWriteAssumption DEF Types, LocalsOK, TypeOK
<1>5. \A c \in Calls : life[c] <= crashes
  BY DEF KeysInv, LifeOK
<1>6. \A c \in Calls : life[c] < crashes'
  BY <1>1, <1>4, <1>5
<1>7. LifeOK'
  <2>1. \A c \in Calls : life[c] <= crashes'
    BY <1>1, <1>4, <1>5
  <2>2. \A c \in Calls : result[c] # "none" => pc'[c] = "over"
    BY <1>2 DEF KeysInv, LifeOK, Idle
  <2> QED
    BY <1>1, <1>6, <2>1, <2>2 DEF LifeOK
<1>8. \A c \in Calls : life[c] # crashes'
  BY <1>1, <1>4, <1>5
<1>9. ActivePending' /\ ActiveAlone' /\ DoneStored'
  BY <1>1, <1>3, <1>4, <1>8 DEF ActivePending, ActiveAlone, DoneStored
<1>10. RepeatOnlyAfterFailure'
  BY <1>1 DEF KeysInv, RepeatOnlyAfterFailure
<1> QED
  BY <1>7, <1>9, <1>10 DEF KeysInv

\* Nothing of this is of the previews.
LEMMA OtherKeys ==
  ASSUME Types, KeysInv, \A c \in Calls : pc'[c] = pc[c],
         UNCHANGED <<idem, req, result, life, performed, crashes>>
  PROVE  KeysInv'
<1>1. performed \subseteq Calls
  BY DEF Types, TypeOK
<1>2. ActivePending' /\ ActiveAlone' /\ LifeOK'
  BY DEF KeysInv, ActivePending, ActiveAlone, LifeOK
<1>3. DoneStored' /\ RepeatOnlyAfterFailure'
  BY <1>1 DEF KeysInv, DoneStored, RepeatOnlyAfterFailure
<1> QED
  BY <1>2, <1>3 DEF KeysInv

LEMMA InitKeys == Init => KeysInv
<1> SUFFICES ASSUME Init PROVE KeysInv
  OBVIOUS
<1>1. ActivePending /\ ActiveAlone /\ DoneStored /\ RepeatOnlyAfterFailure
  BY DEF Init, ActivePending, ActiveAlone, DoneStored, RepeatOnlyAfterFailure, Idle, Actors
<1>2. LifeOK
  BY DEF Init, LifeOK, Actors
<1> QED
  BY <1>1, <1>2 DEF KeysInv

LEMMA NextKeys == Types /\ KeysInv /\ [Next]_vars => KeysInv'
<1> SUFFICES ASSUME Types, KeysInv, [Next]_vars PROVE KeysInv'
  OBVIOUS
<1>1. CASE Crash
  BY <1>1, CrashKeys
<1>2. ASSUME NEW c \in Calls, NEW q \in Requests, Turned(c, q) PROVE KeysInv'
  BY <1>2, TurnedKeys
<1>3. ASSUME NEW c \in Calls, NEW q \in Requests, Begin(c, q) PROVE KeysInv'
  BY <1>3, BeginKeys
<1>4. ASSUME NEW c \in Calls, Proceed(c) PROVE KeysInv'
  BY <1>4, CallGoesTypes, GoesKeys, EndsKeys
<1>5. ASSUME NEW i \in Ids, Preview(i) \/ WriteOpen(i) \/ WriteData(i)
      PROVE  KeysInv'
  <2>1. PreviewGoes(i)
    BY <1>5, PreviewTypes, PreviewWriteTypes
  <2>2. \A c \in Calls : pc'[c] = pc[c]
    BY <2>1, LarkWriteAssumption DEF PreviewGoes, Actors
  <2> QED
    BY <2>1, <2>2, OtherKeys DEF PreviewGoes
<1>6. ASSUME NEW i \in Ids, Expire(i) PROVE KeysInv'
  BY <1>6, OtherKeys DEF Expire, outcome
<1>7. CASE UNCHANGED vars
  BY <1>7, OtherKeys DEF vars, outcome
<1>8. ASSUME NEW a \in Actors, IoFails(a) PROVE KeysInv'
  <2>1. CASE a \in Calls
    BY <1>8, <2>1, IoTypes, GoesKeys
  <2>2. CASE a \in Ids
    <3>1. PreviewGoes(a)
      BY <1>8, <2>2, IoTypes
    <3>2. \A c \in Calls : pc'[c] = pc[c]
      BY <2>2, <3>1, LarkWriteAssumption DEF PreviewGoes, Actors
    <3> QED
      BY <3>1, <3>2, OtherKeys DEF PreviewGoes
  <2> QED
    BY <2>1, <2>2 DEF Actors
<1> QED
  BY <1>1, <1>2, <1>3, <1>4, <1>5, <1>6, <1>7, <1>8 DEF Next, Submit, Turned

\* However calls overlap: in one life of the process performWrite runs for a
\* second call with a key only after the first failed or was not verified.
THEOREM RepeatsFollowFailures == Spec => []RepeatOnlyAfterFailure
<1>1. Types /\ KeysInv /\ [Next]_vars => (Types /\ KeysInv)'
  BY NextTypes, NextKeys
<1>2. Init => Types /\ KeysInv
  BY InitTypes, InitKeys
<1> QED
  BY <1>1, <1>2, PTL DEF Spec, KeysInv

-----------------------------------------------------------------------------
(* Confirmations: who may perform has deleted the id                       *)

\* As long as nothing overlapped, one call or preview is under way.
Solo ==
  overlapped = "no" =>
    \A a, b \in Actors : pc[a] \notin Idle /\ pc[b] \notin Idle => a = b

\* An id that a call came with was given to the client.
IdIssued ==
  \A c \in Calls : req[c].id # None => req[c].id \in Ids /\ pc[req[c].id] = "issued"

\* The last write before the perform step deletes the id.
LastDeletes ==
  \A c \in Calls : pc[c] \in AtWrite /\ next[c] = "perform" /\ req[c].id # None =>
    /\ writes[c][Len(writes[c])].file = "confirm"
    /\ req[c].id \notin writes[c][Len(writes[c])].items

\* A call that may write, or did; and one that will when its own writes are done.
Spent(c) == c \in performed \/ pc[c] = "perform"
Held(c) == Spent(c) \/ (pc[c] \in AtWrite /\ next[c] = "perform")

\* No write of a that is under way brings the id back.
Omits(a, id) ==
  pc[a] \in AtWrite =>
    \A k \in 1..Len(writes[a]) :
      writes[a][k].file = "confirm" => id \notin writes[a][k].items

\* The id of a call that may write is gone, and nobody is about to write it back.
Consumed ==
  overlapped = "no" =>
    \A c \in Calls : Spent(c) /\ req[c].id # None =>
      /\ req[c].id \notin confirmFile.items
      /\ \A a \in Actors : Omits(a, req[c].id)

\* An id takes one call to its perform step.
HeldOnce ==
  overlapped = "no" =>
    \A c, d \in Calls :
      Held(c) /\ Held(d) /\ req[c].id # None /\ req[c].id = req[d].id => c = d

ConfirmInv ==
  /\ Solo
  /\ IdIssued
  /\ LastDeletes
  /\ Consumed
  /\ HeldOnce

LEMMA SoloKept ==
  ASSUME Solo, overlapped' = overlapped,
         \A a \in Actors : pc'[a] \notin Idle => pc[a] \notin Idle
  PROVE  Solo'
BY DEF Solo

LEMMA SoloStarts ==
  ASSUME Solo, NEW a \in Actors, overlapped' = Overlaps(a),
         \A b \in Actors : b # a => pc'[b] = pc[b]
  PROVE  /\ Solo'
         /\ overlapped' = "no" =>
              overlapped = "no" /\ \A b \in Actors : b # a => pc[b] \in Idle
<1>1. overlapped' = "no" =>
        overlapped = "no" /\ \A b \in Actors : b # a => pc[b] \in Idle
  BY DEF Overlaps
<1> QED
  BY <1>1 DEF Solo

\* Issued ids stay issued.
LEMMA IssuedKept ==
  ASSUME Types, IdIssued, UNCHANGED req,
         \A i \in Ids : pc[i] = "issued" => pc'[i] = "issued"
  PROVE  IdIssued'
BY DEF IdIssued

\* A call goes on without the leave to write, or with no id, and writes at most
\* ids that it read.
LEMMA PlainGotoConfirm ==
  ASSUME Types, ConfirmInv, NEW c \in Calls, pc[c] \notin Idle, pc[c] \notin AtWrite,
         NEW p \in Stops, NEW ws \in Seq(Write), Goto(c, p, ws),
         p \notin Idle, p = "perform" => req[c].id = None,
         \/ performed' = performed /\ pc[c] # "perform"
         \/ performed' = performed \cup {c} /\ pc[c] = "perform",
         \A k \in 1..Len(ws) : ws[k].file = "confirm" => ws[k].items \subseteq confirmFile.items,
         UNCHANGED <<confirmFile, req, overlapped>>
  PROVE  ConfirmInv'
<1>1. c \in Actors /\ Calls \subseteq Actors /\ Ids \subseteq Actors /\ c \notin Ids
  BY LarkWriteAssumption DEF Actors
<1>2. /\ pc'[c] = IF ws = <<>> THEN p ELSE "write"
      /\ next'[c] = p /\ writes'[c] = ws
      /\ \A b \in Actors : b # c =>
           pc'[b] = pc[b] /\ next'[b] = next[b] /\ writes'[b] = writes[b]
  BY <1>1, AfterGoto
<1>3. Solo'
  BY <1>1, <1>2, SoloKept DEF ConfirmInv
<1>4. IdIssued'
  BY <1>1, <1>2, IssuedKept DEF ConfirmInv
<1>5. LastDeletes'
  BY <1>1, <1>2 DEF ConfirmInv, LastDeletes
<1>6. \A d \in Calls : Held(d)' /\ req[d].id # None => Held(d)
  BY <1>1, <1>2 DEF Held, Spent, AtWrite
<1>7. HeldOnce'
  BY <1>6 DEF ConfirmInv, HeldOnce
<1>8. \A d \in Calls : Spent(d)' /\ req[d].id # None => Spent(d)
  BY <1>1, <1>2 DEF Spent
<1>9. Consumed'
  <2> SUFFICES ASSUME overlapped = "no", NEW d \in Calls, Spent(d)', req[d].id # None
               PROVE  /\ req[d].id \notin confirmFile.items
                      /\ \A a \in Actors : Omits(a, req[d].id)'
    BY DEF Consumed, Omits
  <2>1. req[d].id \notin confirmFile.items /\ \A a \in Actors : Omits(a, req[d].id)
    BY <1>8 DEF ConfirmInv, Consumed
  <2>2. ASSUME NEW a \in Actors, a # c PROVE Omits(a, req[d].id)'
    BY <1>2, <2>1, <2>2 DEF Omits
  <2>3. Omits(c, req[d].id)'
    BY <1>2, <2>1 DEF Omits
  <2> QED
    BY <2>1, <2>2, <2>3
<1> QED
  BY <1>3, <1>4, <1>5, <1>7, <1>9 DEF ConfirmInv

LEMMA PrunedIds ==
  ASSUME Types
  PROVE  /\ PruneConfirmations \in Seq(Write)
         /\ \A k \in 1..Len(PruneConfirmations) :
              PruneConfirmations[k].items \subseteq confirmFile.items
<1>1. /\ PruneConfirmations \in Seq(Write)
      /\ PruneConfirmations \in {<<>>, <<W("confirm", LiveIds)>>}
      /\ LiveIds \subseteq confirmFile.items
  BY ConfirmWrites
<1>2. CASE PruneConfirmations = <<>>
  BY <1>1, <1>2
<1>3. CASE PruneConfirmations = <<W("confirm", LiveIds)>>
  BY <1>1, <1>3 DEF W
<1> QED
  BY <1>1, <1>2, <1>3

\* The budget's writes are of the budget.
LEMMA EventWrites ==
  ASSUME Types, NEW c \in Calls, pc[c] # "new", NEW allowed \in {"yes", "no"}
  PROVE  /\ \A k \in 1..Len(PruneEvents) : PruneEvents[k].file = "budget"
         /\ \A k \in 1..Len(AppendEvent(c, allowed)) :
              AppendEvent(c, allowed)[k].file = "budget"
<1> DEFINE new == LiveEvents \cup {Event(c, req[c], allowed)}
<1>1. new \in SUBSET Events
  BY AppendWrites
<1>2. /\ PruneEvents \in {<<>>, <<W("budget", LiveEvents)>>}
      /\ AppendEvent(c, allowed) \in
           {<<W("budget", new)>>, <<W("budget", LiveEvents), W("budget", new)>>}
  BY <1>1, BudgetWrites DEF AppendEvent
<1>3. W("budget", LiveEvents).file = "budget" /\ W("budget", new).file = "budget"
  BY DEF W
<1> HIDE DEF new
<1> QED
  BY <1>2, <1>3

LEMMA PeekConfirm ==
  ASSUME Types, ConfirmInv, NEW c \in Calls, Peek(c)
  PROVE  ConfirmInv'
<1>1. PICK p \in {"check", "refused"} : Goto(c, p, PruneConfirmations)
  BY DEF Peek
<1>2. p \in Stops /\ p \notin Idle /\ p # "perform"
  BY DEF Stops, Idle
<1>3. pc[c] \notin Idle /\ pc[c] \notin AtWrite /\ pc[c] # "perform"
  BY DEF Peek, Idle, AtWrite
<1>4. UNCHANGED <<confirmFile, req, overlapped, performed>>
  BY DEF Peek, files, outcome
<1> QED
  BY <1>1, <1>2, <1>3, <1>4, PrunedIds, PlainGotoConfirm

LEMMA CheckConfirm ==
  ASSUME Types, ConfirmInv, NEW c \in Calls, Check(c)
  PROVE  ConfirmInv'
<1>1. PICK p \in {"deny", "consume", "perform"} :
        Goto(c, p, PruneEvents) /\ (p = "perform" => req[c].id = None)
  BY DEF Check
<1>2. p \in Stops /\ p \notin Idle /\ PruneEvents \in Seq(Write)
  BY BudgetWrites DEF Stops, Idle
<1>3. pc[c] \notin Idle /\ pc[c] \notin AtWrite /\ pc[c] # "perform" /\ pc[c] # "new"
  BY DEF Check, Idle, AtWrite
<1>4. \A k \in 1..Len(PruneEvents) : PruneEvents[k].file # "confirm"
  BY <1>3, EventWrites
<1>5. UNCHANGED <<confirmFile, req, overlapped, performed>>
  BY DEF Check, files, outcome
<1> QED
  BY <1>1, <1>2, <1>3, <1>4, <1>5, PlainGotoConfirm

LEMMA AppendConfirm ==
  ASSUME Types, ConfirmInv, NEW c \in Calls, Deny(c) \/ Record(c)
  PROVE  ConfirmInv'
<1>1. PICK p \in {"refused", "onSuccess"}, allowed \in {"yes", "no"} :
        Goto(c, p, AppendEvent(c, allowed))
  BY DEF Deny, Record
<1>2. p \in Stops /\ p \notin Idle /\ p # "perform"
  BY DEF Stops, Idle
<1>3. pc[c] \notin Idle /\ pc[c] \notin AtWrite /\ pc[c] # "perform" /\ pc[c] # "new"
  BY DEF Deny, Record, Idle, AtWrite
<1>4. /\ AppendEvent(c, allowed) \in Seq(Write)
      /\ \A k \in 1..Len(AppendEvent(c, allowed)) :
           AppendEvent(c, allowed)[k].file # "confirm"
  BY <1>3, EventWrites, AppendWrites
<1>5. UNCHANGED <<confirmFile, req, overlapped, performed>>
  BY DEF Deny, Record, files, outcome
<1> QED
  BY <1>1, <1>2, <1>3, <1>4, <1>5, PlainGotoConfirm

LEMMA PerformConfirm ==
  ASSUME Types, ConfirmInv, NEW c \in Calls, Perform(c) \/ OnSuccess(c)
  PROVE  ConfirmInv'
<1>1. PICK p \in {"record", "failed", "succeeded"} : Goto(c, p, <<>>)
  BY DEF Perform, OnSuccess
<1>2. p \in Stops /\ p \notin Idle /\ p # "perform" /\ <<>> \in Seq(Write)
  BY WriteLists DEF Stops, Idle
<1>3. pc[c] \notin Idle /\ pc[c] \notin AtWrite
  BY DEF Perform, OnSuccess, Idle, AtWrite
<1>4. \/ performed' = performed /\ pc[c] # "perform"
      \/ performed' = performed \cup {c} /\ pc[c] = "perform"
  BY DEF Perform, OnSuccess, outcome
<1>5. \A k \in 1..Len(<<>>) : FALSE
  OBVIOUS
<1>6. UNCHANGED <<confirmFile, req, overlapped>>
  BY DEF Perform, OnSuccess, files
<1> QED
  BY <1>1, <1>2, <1>3, <1>4, <1>5, <1>6, PlainGotoConfirm

\* The id is in the file that is read: no call holds it, and c will.
LEMMA ConsumeConfirm ==
  ASSUME Types, ConfirmInv, NEW c \in Calls, Consume(c)
  PROVE  ConfirmInv'
<1>1. c \in Actors /\ Calls \subseteq Actors /\ Ids \subseteq Actors /\ c \notin Ids
  BY LarkWriteAssumption DEF Actors
<1>2. pc[c] = "consume" /\ pc[c] \notin Idle /\ pc[c] \notin AtWrite
  BY DEF Consume, Idle, AtWrite
<1>3. UNCHANGED <<confirmFile, req, overlapped, performed>>
  BY DEF Consume, files, outcome
<1>4. CASE Goto(c, "refused", PruneConfirmations)
  <2>1. "refused" \in Stops /\ "refused" \notin Idle
    BY DEF Stops, Idle
  <2> QED
    BY <1>2, <1>3, <1>4, <2>1, PrunedIds, PlainGotoConfirm
<1>5. CASE req[c].id \in LiveIds /\ Goto(c, "perform", ConsumeWrites(c))
  <2> DEFINE rest == LiveIds \ {req[c].id}
             ws == ConsumeWrites(c)
  <2>1. rest \in SUBSET Ids /\ LiveIds \subseteq confirmFile.items
    BY ConfirmWrites
  <2>2. /\ ws \in Seq(Write)
        /\ ws \in {<<W("confirm", rest)>>, <<W("confirm", LiveIds), W("confirm", rest)>>}
    BY <2>1, ConfirmWrites DEF ConsumeWrites
  <2>3. W("confirm", rest).file = "confirm" /\ W("confirm", rest).items = rest
        /\ W("confirm", LiveIds).items = LiveIds
    BY DEF W
  <2>4. "perform" \in Stops /\ Goto(c, "perform", ws)
    BY <1>5 DEF Stops
  <2> HIDE DEF ws, rest
  <2>5. /\ ws # <<>> /\ ws[Len(ws)] = W("confirm", rest)
        /\ \A k \in 1..Len(ws) : ws[k] \in {W("confirm", rest), W("confirm", LiveIds)}
    <3> DEFINE u == W("confirm", LiveIds)
               v == W("confirm", rest)
    <3> HIDE DEF u, v
    <3>1. CASE ws = <<v>>
      BY <3>1 DEF u, v
    <3>2. CASE ws = <<u, v>>
      BY <3>2 DEF u, v
    <3> QED
      BY <2>2, <3>1, <3>2 DEF u, v
  <2>6. /\ pc'[c] = "write" /\ next'[c] = "perform" /\ writes'[c] = ws
        /\ \A b \in Actors : b # c =>
             pc'[b] = pc[b] /\ next'[b] = next[b] /\ writes'[b] = writes[b]
    BY <1>1, <2>2, <2>4, <2>5, AfterGoto
  <2>7. Solo'
    BY <1>1, <1>2, <1>3, <2>6, SoloKept DEF ConfirmInv
  <2>8. IdIssued'
    BY <1>1, <1>3, <2>6, IssuedKept DEF ConfirmInv
  <2>9. LastDeletes'
    <3>1. req[c].id \notin rest
      BY DEF rest
    <3> QED
      BY <1>1, <1>3, <2>3, <2>5, <2>6, <3>1 DEF ConfirmInv, LastDeletes
  <2>10. \A d \in Calls : /\ Spent(d)' => Spent(d)
                          /\ d # c /\ Held(d)' => Held(d)
    BY <1>1, <1>3, <2>6 DEF Spent, Held
  <2>11. Consumed'
    <3> SUFFICES ASSUME overlapped = "no", NEW d \in Calls, Spent(d)', req[d].id # None
                 PROVE  /\ req[d].id \notin confirmFile.items
                        /\ \A a \in Actors : Omits(a, req[d].id)'
      BY <1>3 DEF Consumed, Omits
    <3>1. req[d].id \notin confirmFile.items /\ \A a \in Actors : Omits(a, req[d].id)
      BY <2>10 DEF ConfirmInv, Consumed
    <3>2. ASSUME NEW a \in Actors, a # c PROVE Omits(a, req[d].id)'
      BY <1>3, <2>6, <3>1, <3>2 DEF Omits
    <3>3. req[d].id \notin rest /\ req[d].id \notin LiveIds
      BY <2>1, <3>1 DEF rest
    <3>4. Omits(c, req[d].id)'
      BY <1>3, <2>3, <2>5, <2>6, <3>3 DEF Omits
    <3> QED
      BY <3>1, <3>2, <3>4
  <2>12. HeldOnce'
    <3> SUFFICES ASSUME overlapped = "no", NEW d \in Calls, Held(d), d # c,
                        req[c].id # None, req[d].id = req[c].id
                 PROVE  FALSE
      BY <1>3, <2>10 DEF ConfirmInv, HeldOnce
    <3>1. ~Spent(d)
      BY <1>5, <2>1 DEF ConfirmInv, Consumed
    <3>2. pc[d] \in AtWrite
      BY <3>1 DEF Held
    <3> QED
      BY <1>1, <1>2, <3>2 DEF ConfirmInv, Solo, AtWrite, Idle
  <2> QED
    BY <2>7, <2>8, <2>9, <2>11, <2>12 DEF ConfirmInv
<1> QED
  BY <1>4, <1>5 DEF Consume

\* Truncating the file brings no id back.
LEMMA WriteOpenConfirm ==
  ASSUME Types, ConfirmInv, NEW a \in Actors, WriteOpen(a)
  PROVE  ConfirmInv'
<1>1. UNCHANGED <<next, writes, req, overlapped, performed>>
  BY DEF WriteOpen, outcome
<1>2. /\ pc[a] = "write" /\ pc'[a] = "writing"
      /\ \A b \in Actors : b # a => pc'[b] = pc[b]
  BY DEF WriteOpen, Types, TypeOK
<1>3. confirmFile'.items \subseteq confirmFile.items
  BY DEF WriteOpen, TornFile
<1>4. Calls \subseteq Actors /\ Ids \subseteq Actors
  BY DEF Actors
<1>5. \A b \in Actors : /\ pc'[b] \in AtWrite <=> pc[b] \in AtWrite
                        /\ pc'[b] \in Idle <=> pc[b] \in Idle
                        /\ pc'[b] = "perform" <=> pc[b] = "perform"
                        /\ pc[b] = "issued" => pc'[b] = "issued"
  BY <1>2 DEF AtWrite, Idle
<1>6. Solo'
  BY <1>1, <1>5, SoloKept DEF ConfirmInv
<1>7. IdIssued'
  BY <1>1, <1>4, <1>5, IssuedKept DEF ConfirmInv
<1>8. LastDeletes'
  BY <1>1, <1>4, <1>5 DEF ConfirmInv, LastDeletes
<1>9. \A c \in Calls : (Spent(c)' <=> Spent(c)) /\ (Held(c)' <=> Held(c))
  BY <1>1, <1>4, <1>5 DEF Spent, Held
<1>10. HeldOnce'
  BY <1>1, <1>9 DEF ConfirmInv, HeldOnce
<1>11. Consumed'
  <2> SUFFICES ASSUME overlapped = "no", NEW c \in Calls, Spent(c), req[c].id # None
               PROVE  /\ req[c].id \notin confirmFile'.items
                      /\ \A b \in Actors : Omits(b, req[c].id)'
    BY <1>1, <1>9 DEF Consumed, Omits
  <2>1. req[c].id \notin confirmFile.items /\ \A b \in Actors : Omits(b, req[c].id)
    BY DEF ConfirmInv, Consumed
  <2> QED
    BY <1>1, <1>3, <1>5, <2>1 DEF Omits
<1> QED
  BY <1>6, <1>7, <1>8, <1>10, <1>11 DEF ConfirmInv

\* What is filled in was written without the ids of the calls that may write:
\* nobody else writes, and a call that goes on to perform deleted its own.
LEMMA WriteDataConfirm ==
  ASSUME Types, ConfirmInv, NEW a \in Actors, WriteData(a)
  PROVE  ConfirmInv'
<1> DEFINE w == Head(writes[a])
           rest == Tail(writes[a])
<1>1. UNCHANGED <<req, overlapped, performed>>
  BY DEF WriteData, outcome
<1>2. pc[a] = "writing" /\ Goto(a, next[a], rest)
  BY DEF WriteData
<1>3. pc[a] \in AtWrite /\ pc[a] \notin Idle
  BY <1>2 DEF AtWrite, Idle
<1>4. /\ Len(writes[a]) \in Nat /\ Len(writes[a]) > 0
      /\ w \in Write /\ w = writes[a][1]
      /\ rest \in Seq(Write) /\ Len(rest) = Len(writes[a]) - 1
      /\ rest = <<>> <=> Len(writes[a]) = 1
      /\ \A k \in 1..Len(rest) : rest[k] = writes[a][k + 1]
  BY <1>3, HeadWrite
<1>5. \/ w.file = "confirm" /\ confirmFile'.items \subseteq w.items
      \/ w.file # "confirm" /\ confirmFile' = confirmFile
  <2>1. CASE w.file = "confirm"
    <3>1. confirmFile' \in Filled(confirmFile, w.items)
      BY <2>1 DEF WriteData
    <3>2. confirmFile'.items \in {w.items, {}}
      BY <3>1, FilledItems
    <3> QED
      BY <2>1, <3>2
  <2>2. CASE w.file # "confirm"
    BY <2>2 DEF WriteData
  <2> QED
    BY <2>1, <2>2
<1> HIDE DEF w, rest
<1>6. next[a] \in Stops
  BY DEF Types, LocalsOK
<1>7. /\ pc'[a] = IF rest = <<>> THEN next[a] ELSE "write"
      /\ next'[a] = next[a] /\ writes'[a] = rest
      /\ \A b \in Actors : b # a =>
           pc'[b] = pc[b] /\ next'[b] = next[b] /\ writes'[b] = writes[b]
  BY <1>2, <1>4, <1>6, AfterGoto
<1>8. Calls \subseteq Actors /\ Ids \subseteq Actors
  BY DEF Actors
<1>9. Solo'
  BY <1>1, <1>3, <1>7, SoloKept DEF ConfirmInv
<1>10. IdIssued'
  <2>1. \A i \in Ids : pc[i] = "issued" => pc'[i] = "issued"
    BY <1>2, <1>7, <1>8
  <2> QED
    BY <1>1, <2>1, IssuedKept DEF ConfirmInv
<1>11. LastDeletes'
  <2> SUFFICES ASSUME NEW c \in Calls, pc'[c] \in AtWrite, next'[c] = "perform",
                      req[c].id # None
               PROVE  /\ writes'[c][Len(writes'[c])].file = "confirm"
                      /\ req[c].id \notin writes'[c][Len(writes'[c])].items
    BY <1>1 DEF LastDeletes
  <2>1. CASE c # a
    BY <1>7, <1>8, <2>1 DEF ConfirmInv, LastDeletes
  <2>2. CASE c = a
    <3>1. rest # <<>>
      BY <1>7, <2>2 DEF AtWrite
    <3>2. rest[Len(rest)] = writes[a][Len(writes[a])]
      BY <1>4, <3>1
    <3> QED
      BY <1>3, <1>7, <2>2, <3>2 DEF ConfirmInv, LastDeletes
  <2> QED
    BY <2>1, <2>2
<1>12. \A c \in Calls : Held(c)' => Held(c)
  BY <1>1, <1>3, <1>7, <1>8 DEF Held, Spent, AtWrite
<1>13. HeldOnce'
  BY <1>1, <1>12 DEF ConfirmInv, HeldOnce
<1>14. Consumed'
  <2> SUFFICES ASSUME overlapped = "no", NEW c \in Calls, Spent(c)', req[c].id # None
               PROVE  /\ req[c].id \notin confirmFile'.items
                      /\ \A b \in Actors : Omits(b, req[c].id)'
    BY <1>1 DEF Consumed, Omits
  <2>1. CASE Spent(c)
    <3>1. req[c].id \notin confirmFile.items /\ \A b \in Actors : Omits(b, req[c].id)
      BY <2>1 DEF ConfirmInv, Consumed
    <3>2. \A k \in 1..Len(writes[a]) :
            writes[a][k].file = "confirm" => req[c].id \notin writes[a][k].items
      BY <1>3, <3>1 DEF Omits
    <3>3. req[c].id \notin confirmFile'.items
      BY <1>4, <1>5, <3>1, <3>2
    <3>4. \A k \in 1..Len(rest) :
            rest[k].file = "confirm" => req[c].id \notin rest[k].items
      BY <1>4, <3>2
    <3>5. ASSUME NEW b \in Actors PROVE Omits(b, req[c].id)'
      BY <1>1, <1>7, <3>1, <3>4 DEF Omits
    <3> QED
      BY <3>3, <3>5
  <2>2. CASE ~Spent(c)
    <3>1. c = a /\ pc'[a] = "perform"
      BY <1>1, <1>7, <1>8, <2>2 DEF Spent
    <3>2. rest = <<>> /\ next[a] = "perform"
      BY <1>7, <3>1
    <3>3. w.file = "confirm" /\ req[c].id \notin w.items
      BY <1>3, <1>4, <3>1, <3>2 DEF ConfirmInv, LastDeletes
    <3>4. ASSUME NEW b \in Actors, pc'[b] \in AtWrite PROVE FALSE
      <4>1. b # a
        BY <3>1, <3>4 DEF AtWrite
      <4>2. pc[b] \notin Idle
        BY <1>7, <3>4, <4>1 DEF AtWrite, Idle
      <4> QED
        BY <1>3, <4>1, <4>2 DEF ConfirmInv, Solo
    <3> QED
      BY <1>5, <3>3, <3>4 DEF Omits
  <2> QED
    BY <2>1, <2>2
<1> QED
  BY <1>9, <1>10, <1>11, <1>13, <1>14 DEF ConfirmInv

\* What a failed write leaves has no id of a call that may write, and the call
\* or preview whose file failed goes no further.
LEMMA IoConfirm ==
  ASSUME Types, ConfirmInv, NEW a \in Actors, IoFails(a)
  PROVE  ConfirmInv'
<1>1. /\ pc[a] \notin Idle
      /\ pc'[a] \in {"failed", "lost"}
      /\ \A b \in Actors : b # a =>
           pc'[b] = pc[b] /\ next'[b] = next[b] /\ writes'[b] = writes[b]
  BY IoGoto
<1>2. UNCHANGED <<req, overlapped, performed>>
  BY DEF IoFails
<1>3. Calls \subseteq Actors /\ Ids \subseteq Actors /\ pc'[a] \notin AtWrite
  BY <1>1 DEF Actors, AtWrite
<1>4. Solo'
  BY <1>1, <1>2, SoloKept DEF ConfirmInv
<1>5. IdIssued'
  <2>1. \A i \in Ids : pc[i] = "issued" => pc'[i] = "issued"
    BY <1>1, <1>3 DEF Idle
  <2> QED
    BY <1>2, <2>1, IssuedKept DEF ConfirmInv
<1>6. LastDeletes'
  BY <1>1, <1>2, <1>3 DEF ConfirmInv, LastDeletes
<1>7. \A c \in Calls : (Spent(c)' => Spent(c)) /\ (Held(c)' => Held(c))
  BY <1>1, <1>2, <1>3 DEF Spent, Held
<1>8. HeldOnce'
  BY <1>2, <1>7 DEF ConfirmInv, HeldOnce
<1>9. Consumed'
  <2> SUFFICES ASSUME overlapped = "no", NEW c \in Calls, Spent(c), req[c].id # None
               PROVE  /\ req[c].id \notin confirmFile'.items
                      /\ \A b \in Actors : Omits(b, req[c].id)'
    BY <1>2, <1>7 DEF Consumed, Omits
  <2>1. req[c].id \notin confirmFile.items /\ \A b \in Actors : Omits(b, req[c].id)
    BY DEF ConfirmInv, Consumed
  <2>2. req[c].id \notin confirmFile'.items
    <3>1. CASE UNCHANGED confirmFile
      BY <2>1, <3>1
    <3>2. CASE /\ pc[a] \in AtWrite /\ writes[a][1].file = "confirm"
               /\ confirmFile' \in {File(writes[a][1].items), TornFile}
      <4>1. 1 \in 1..Len(writes[a])
        BY <3>2, HeadWrite
      <4>2. req[c].id \notin writes[a][1].items
        BY <2>1, <3>2, <4>1 DEF Omits
      <4> QED
        BY <3>2, <4>2 DEF File, TornFile
    <3> QED
      BY <3>1, <3>2, IoFiles
  <2>3. ASSUME NEW b \in Actors PROVE Omits(b, req[c].id)'
    BY <1>1, <1>2, <1>3, <2>1 DEF Omits
  <2> QED
    BY <2>2, <2>3
<1> QED
  BY <1>4, <1>5, <1>6, <1>8, <1>9 DEF ConfirmInv

\* The id of a preview is new: no call came with it.
LEMMA PreviewConfirm ==
  ASSUME Types, ConfirmInv, NEW i \in Ids, Preview(i)
  PROVE  ConfirmInv'
<1> DEFINE new == LiveIds \cup {i}
           ws == PruneConfirmations \o <<W("confirm", new)>>
<1>1. /\ i \in Actors /\ i \notin Calls /\ Calls \subseteq Actors /\ Ids \subseteq Actors
  BY LarkWriteAssumption DEF Actors
<1>2. pc[i] = "new" /\ Goto(i, "issued", ws) /\ overlapped' = Overlaps(i)
  BY DEF Preview
<1>3. UNCHANGED <<confirmFile, req, performed>>
  BY DEF Preview, files, outcome
<1>4. new \in SUBSET Ids /\ LiveIds \subseteq confirmFile.items
  BY ConfirmWrites
<1>5. /\ ws \in Seq(Write) /\ ws # <<>>
      /\ ws \in {<<W("confirm", new)>>, <<W("confirm", LiveIds), W("confirm", new)>>}
  BY <1>4, ConfirmWrites, WriteLists
<1>6. W("confirm", new).items = new /\ W("confirm", LiveIds).items = LiveIds
  BY DEF W
<1> HIDE DEF ws
<1>7. \A k \in 1..Len(ws) : ws[k].items \in {new, LiveIds}
  <2> DEFINE u == W("confirm", LiveIds)
             v == W("confirm", new)
  <2> HIDE DEF u, v, new
  <2>1. CASE ws = <<v>>
    BY <1>6, <2>1 DEF u, v
  <2>2. CASE ws = <<u, v>>
    BY <1>6, <2>2 DEF u, v
  <2> QED
    BY <1>5, <2>1, <2>2 DEF u, v
<1>8. "issued" \in Stops
  BY DEF Stops, Idle
<1>9. /\ pc'[i] = "write" /\ writes'[i] = ws
      /\ \A b \in Actors : b # i =>
           pc'[b] = pc[b] /\ next'[b] = next[b] /\ writes'[b] = writes[b]
  BY <1>1, <1>2, <1>5, <1>8, AfterGoto
<1>10. Solo' /\ (overlapped' = "no" => overlapped = "no")
  BY <1>1, <1>2, <1>9, SoloStarts DEF ConfirmInv
<1>11. IdIssued'
  BY <1>1, <1>2, <1>3, <1>9, IssuedKept DEF ConfirmInv
<1>12. LastDeletes'
  BY <1>1, <1>3, <1>9 DEF ConfirmInv, LastDeletes
<1>13. \A c \in Calls : (Spent(c)' <=> Spent(c)) /\ (Held(c)' <=> Held(c))
  BY <1>1, <1>3, <1>9 DEF Spent, Held
<1>14. HeldOnce'
  BY <1>3, <1>10, <1>13 DEF ConfirmInv, HeldOnce
<1>15. Consumed'
  <2> SUFFICES ASSUME overlapped = "no", NEW c \in Calls, Spent(c), req[c].id # None
               PROVE  /\ req[c].id \notin confirmFile.items
                      /\ \A b \in Actors : Omits(b, req[c].id)'
    BY <1>3, <1>10, <1>13 DEF Consumed, Omits
  <2>1. req[c].id \notin confirmFile.items /\ \A b \in Actors : Omits(b, req[c].id)
    BY DEF ConfirmInv, Consumed
  <2>2. req[c].id # i
    BY <1>2 DEF ConfirmInv, IdIssued
  <2>3. req[c].id \notin new /\ req[c].id \notin LiveIds
    BY <1>4, <2>1, <2>2
  <2> HIDE DEF new
  <2>4. Omits(i, req[c].id)'
    BY <1>3, <1>7, <1>9, <2>3 DEF Omits
  <2>5. ASSUME NEW b \in Actors, b # i PROVE Omits(b, req[c].id)'
    BY <1>3, <1>9, <2>1, <2>5 DEF Omits
  <2> QED
    BY <2>1, <2>4, <2>5
<1> QED
  BY <1>10, <1>11, <1>12, <1>14, <1>15 DEF ConfirmInv

\* A call that begins, or is turned away, comes with an id that was given out.
LEMMA SubmitConfirm ==
  ASSUME Types, ConfirmInv, NEW c \in Calls, NEW q \in Requests,
         Turned(c, q) \/ Begin(c, q)
  PROVE  ConfirmInv'
<1>1. c \in Actors /\ Calls \subseteq Actors /\ Ids \subseteq Actors /\ c \notin Ids
  BY LarkWriteAssumption DEF Actors
<1>2. /\ pc[c] = "new" /\ (q.id # None => pc[q.id] = "issued")
      /\ req' = [req EXCEPT ![c] = q]
  BY DEF Turned, Block, InProgress, Replay, Begin, Asks
<1>3. UNCHANGED <<confirmFile, performed>>
  BY DEF Turned, Block, InProgress, Replay, Begin, files, outcome
<1>4. /\ pc'[c] \notin AtWrite /\ pc'[c] # "perform"
      /\ \A b \in Actors : b # c =>
           pc'[b] = pc[b] /\ next'[b] = next[b] /\ writes'[b] = writes[b]
  <2>1. CASE Turned(c, q)
    BY <1>1, <2>1 DEF Turned, Block, InProgress, Replay, Return, Types, TypeOK, AtWrite
  <2>2. CASE Begin(c, q)
    <3>1. PICK p \in {"check", "peek", "refused"} : Goto(c, p, <<>>)
      BY <2>2 DEF Begin
    <3>2. p \in Stops /\ p \notin AtWrite /\ <<>> \in Seq(Write)
      BY WriteLists DEF Stops, AtWrite
    <3> QED
      BY <1>1, <3>1, <3>2, AfterGoto
  <2> QED
    BY <2>1, <2>2
<1>5. Solo' /\ (overlapped' = "no" => overlapped = "no")
  <2>1. CASE Turned(c, q)
    <3>1. overlapped' = overlapped /\ pc'[c] = "over"
      BY <1>1, <2>1 DEF Turned, Block, InProgress, Replay, Return, Types, TypeOK
    <3> QED
      BY <1>4, <3>1, SoloKept DEF ConfirmInv, Idle
  <2>2. CASE Begin(c, q)
    <3>1. overlapped' = Overlaps(c)
      BY <2>2 DEF Begin
    <3> QED
      BY <1>1, <1>4, <3>1, SoloStarts DEF ConfirmInv
  <2> QED
    BY <2>1, <2>2
<1>6. /\ req'[c] = q /\ c \notin performed
      /\ \A d \in Calls : d # c => req'[d] = req[d]
  BY <1>2 DEF Types, TypeOK, CallsOK
<1>7. IdIssued'
  <2>1. q.id # None => q.id \in Ids
    BY LarkWriteAssumption
  <2>2. \A i \in Ids : pc'[i] = pc[i]
    BY <1>1, <1>4
  <2> QED
    BY <1>2, <1>6, <2>1, <2>2 DEF ConfirmInv, IdIssued
<1>8. LastDeletes'
  BY <1>1, <1>4, <1>6 DEF ConfirmInv, LastDeletes
<1>9. /\ ~Held(c)' /\ ~Spent(c)'
      /\ \A d \in Calls : d # c => (Spent(d)' <=> Spent(d)) /\ (Held(d)' <=> Held(d))
  BY <1>1, <1>3, <1>4, <1>6 DEF Spent, Held
<1>10. HeldOnce'
  BY <1>5, <1>6, <1>9 DEF ConfirmInv, HeldOnce
<1>11. Consumed'
  <2> SUFFICES ASSUME overlapped = "no", NEW d \in Calls, d # c, Spent(d), req[d].id # None
               PROVE  /\ req[d].id \notin confirmFile.items
                      /\ \A b \in Actors : Omits(b, req[d].id)'
    BY <1>3, <1>5, <1>6, <1>9 DEF Consumed, Omits
  <2>1. req[d].id \notin confirmFile.items /\ \A b \in Actors : Omits(b, req[d].id)
    BY DEF ConfirmInv, Consumed
  <2>2. ASSUME NEW b \in Actors PROVE Omits(b, req[d].id)'
    BY <1>4, <1>6, <2>1 DEF Omits
  <2> QED
    BY <2>1, <2>2
<1> QED
  BY <1>5, <1>7, <1>8, <1>10, <1>11 DEF ConfirmInv

\* A step that stops what is under way, or changes nothing of this.
LEMMA StopConfirm ==
  ASSUME Types, ConfirmInv,
         \A a \in Actors : pc'[a] \notin Idle => pc'[a] = pc[a],
         \A i \in Ids : pc[i] = "issued" => pc'[i] = "issued",
         UNCHANGED <<confirmFile, next, writes, req, overlapped, performed>>
  PROVE  ConfirmInv'
<1>1. Calls \subseteq Actors
  BY DEF Actors
<1>2. \A a \in Actors : /\ pc'[a] \in AtWrite => pc[a] \in AtWrite
                        /\ pc'[a] = "perform" => pc[a] = "perform"
  BY DEF AtWrite, Idle
<1>3. Solo' /\ IdIssued'
  BY SoloKept, IssuedKept DEF ConfirmInv
<1>4. LastDeletes'
  BY <1>1, <1>2 DEF ConfirmInv, LastDeletes
<1>5. \A c \in Calls : (Spent(c)' => Spent(c)) /\ (Held(c)' => Held(c))
  BY <1>1, <1>2 DEF Spent, Held
<1>6. HeldOnce'
  BY <1>5 DEF ConfirmInv, HeldOnce
<1>7. \A a \in Actors : \A id : Omits(a, id) => (pc'[a] \in AtWrite =>
        \A k \in 1..Len(writes[a]) :
          writes[a][k].file = "confirm" => id \notin writes[a][k].items)
  BY <1>2 DEF Omits
<1>8. Consumed'
  BY <1>5, <1>7 DEF ConfirmInv, Consumed, Omits
<1> QED
  BY <1>3, <1>4, <1>6, <1>8 DEF ConfirmInv

LEMMA InitConfirm == Init => ConfirmInv
<1> SUFFICES ASSUME Init PROVE ConfirmInv
  OBVIOUS
<1>1. \A a \in Actors : pc[a] = "new" /\ pc[a] \in Idle /\ pc[a] \notin AtWrite
  BY DEF Init, Idle, AtWrite
<1>2. Calls \subseteq Actors /\ performed = {} /\ \A c \in Calls : req[c].id = None
  BY DEF Init, Actors, NoRequest
<1> QED
  BY <1>1, <1>2 DEF ConfirmInv, Solo, IdIssued, LastDeletes, Consumed, HeldOnce

LEMMA NextConfirm == Types /\ ConfirmInv /\ [Next]_vars => ConfirmInv'
<1> SUFFICES ASSUME Types, ConfirmInv, [Next]_vars PROVE ConfirmInv'
  OBVIOUS
<1>1. CASE Crash
  <2>1. \A a \in Actors : pc'[a] = IF pc[a] \in Idle THEN pc[a] ELSE "lost"
    BY <1>1, CrashTypes
  <2>2. UNCHANGED <<confirmFile, next, writes, req, overlapped, performed>>
    BY <1>1 DEF Crash, files, outcome
  <2> QED
    BY <2>1, <2>2, StopConfirm DEF Actors, Idle
<1>2. ASSUME NEW c \in Calls, NEW q \in Requests, Turned(c, q) \/ Begin(c, q)
      PROVE  ConfirmInv'
  BY <1>2, SubmitConfirm
<1>3. ASSUME NEW c \in Calls, Ends(c) PROVE ConfirmInv'
  <2>1. /\ pc[c] \notin Idle /\ pc'[c] = "over"
        /\ \A b \in Actors : b # c => pc'[b] = pc[b]
    BY <1>3, EndsTypes
  <2>2. UNCHANGED <<confirmFile, next, writes, req, overlapped, performed>>
    BY <1>3 DEF Ends, Conclude, Fail, files, outcome
  <2> QED
    BY <2>1, <2>2, StopConfirm DEF Actors, Idle
<1>4. ASSUME NEW c \in Calls, Proceed(c), ~Ends(c) PROVE ConfirmInv'
  <2>1. \/ WriteOpen(c) \/ WriteData(c) \/ Peek(c) \/ Check(c) \/ Deny(c) \/ Consume(c)
        \/ Perform(c) \/ Record(c) \/ OnSuccess(c)
    BY <1>4 DEF Proceed, Ends
  <2>2. c \in Actors
    BY DEF Actors
  <2> QED
    BY <2>1, <2>2, WriteOpenConfirm, WriteDataConfirm, PeekConfirm, CheckConfirm,
       AppendConfirm, ConsumeConfirm, PerformConfirm
<1>5. ASSUME NEW i \in Ids, Preview(i) \/ WriteOpen(i) \/ WriteData(i)
      PROVE  ConfirmInv'
  BY <1>5, PreviewConfirm, WriteOpenConfirm, WriteDataConfirm DEF Actors
<1>6. ASSUME NEW i \in Ids, Expire(i) PROVE ConfirmInv'
  BY <1>6, StopConfirm DEF Expire, files, outcome
<1>7. CASE UNCHANGED vars
  BY <1>7, StopConfirm DEF vars, files, outcome
<1>8. ASSUME NEW a \in Actors, IoFails(a) PROVE ConfirmInv'
  BY <1>8, IoConfirm
<1> QED
  BY <1>1, <1>2, <1>3, <1>4, <1>5, <1>6, <1>7, <1>8 DEF Next, Submit, Turned

LEMMA ConfirmHolds == Spec => [](Types /\ ConfirmInv)
<1>1. Types /\ ConfirmInv /\ [Next]_vars => (Types /\ ConfirmInv)'
  BY NextTypes, NextConfirm
<1>2. Init => Types /\ ConfirmInv
  BY InitTypes, InitConfirm
<1> QED
  BY <1>1, <1>2, PTL DEF Spec

\* Calls and previews that do not overlap write once with a confirmation,
\* wherever a crash or a file error cuts a consumption short.
THEOREM SingleUseWhenAlone == Spec => []SingleUseAlone
<1>1. Types /\ ConfirmInv => SingleUseAlone
  BY DEF Types, TypeOK, ConfirmInv, HeldOnce, Held, Spent, SingleUseAlone, UsedTwice
<1> QED
  BY <1>1, ConfirmHolds, PTL
============================================================================
