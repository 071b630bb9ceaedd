----------------------------- MODULE LarkWrite -----------------------------
(***************************************************************************)
(* A confirmed write to Lark: runMutation with its idempotency store in    *)
(* memory, executeLarkWrite with the confirmation store and the write      *)
(* budget, each a JSON file that is read, changed and written back.        *)
(*                                                                         *)
(* An action is a stretch of code between two awaits.  A file is truncated *)
(* when it is opened for writing and filled in a later step; in between it *)
(* reads as no JSON, which readJsonFile reports like a missing file.  The  *)
(* second of two writes that overlap may leave the tail of the first.      *)
(* The policy checks, the admission, the verifiers and the comparison of a *)
(* confirmation with the request are functions of the request: a choice    *)
(* here.  A behaviour is shorter than the windows of the budget, so that   *)
(* events do not age; it starts with some that did.                        *)
(***************************************************************************)
EXTENDS Naturals, FiniteSets, Sequences

CONSTANTS
  Calls,        \* calls of runCanonicalLarkMutation
  Ids,          \* confirmation ids, each of one preview
  Keys,         \* idempotency keys with their scope
  None,         \* no id, no key, no document
  Requests,     \* what a call may ask for
  OldEvents,    \* events of the budget file that are past both windows
  PastEvents,   \* events it may hold that are past the duplicate window only
  SoftLimit,
  HardLimit,
  MaxCrashes    \* bound on crashes

NoRequest == [id |-> None, key |-> None, print |-> None, doc |-> None,
              essential |-> "no", whitelist |-> "no"]

ASSUME LarkWriteAssumption ==
  /\ Calls \cap Ids = {}
  /\ OldEvents \cap PastEvents = {}
  /\ IsFiniteSet(OldEvents \cup PastEvents)
  /\ \A e \in OldEvents \cup PastEvents : e.by \notin Calls
  /\ \A q \in Requests :
       /\ DOMAIN q = DOMAIN NoRequest
       /\ q.id \in Ids \cup {None}
       /\ q.key \in Keys \cup {None}
       /\ {q.essential, q.whitelist} \subseteq {"yes", "no"}
  /\ SoftLimit \in Nat
  /\ HardLimit \in Nat
  /\ MaxCrashes \in Nat

VARIABLES
  confirmFile,  \* the confirmations: whether the file is JSON, and its ids
  budgetFile,   \* the budget: whether the file is JSON, and its events
  idem,         \* __mutation_idempotency_store__
  pc,           \* where a call or a preview is
  next,         \* where it goes on after its writes
  writes,       \* what it still has to write, in order
  req,          \* the request of a call
  result,       \* what a call returned
  performed,    \* calls whose performWrite was started
  effects,      \* calls whose write is in effect in Lark
  written,      \* calls whose performWrite returned
  life,         \* the life of the process, by its crashes, in which a call began
  past,         \* the events past the duplicate window at the start
  expired,      \* ids whose 15 minutes are over
  overlapped,   \* whether two calls or previews were ever under way at once
  ioFailed,     \* whether a file could ever not be read or written
  crashes

files == <<confirmFile, budgetFile>>
outcome == <<performed, effects, written, life, past, ioFailed>>
vars == <<files, idem, pc, next, writes, req, result, outcome,
          expired, overlapped, crashes>>

Actors == Calls \cup Ids
Idle == {"new", "over", "issued", "lost"}

File(items) == [json |-> "yes", items |-> items]
TornFile == [json |-> "no", items |-> {}]
W(name, items) == [file |-> name, items |-> items]

\* A budget event: whose call it was, and whether the write was allowed.
Event(c, q, allowed) ==
  [by |-> c, key |-> q.key, print |-> q.print, doc |-> q.doc, allowed |-> allowed]
Events == OldEvents \cup PastEvents
          \cup {Event(c, q, a) : c \in Calls, q \in Requests, a \in {"yes", "no"}}

NoEntry == [by |-> None, what |-> "none"]
Pending == [by |-> None, what |-> "pending"]
Done(c, what) == [by |-> c, what |-> what]
Entries == {NoEntry, Pending} \cup {Done(c, w) : c \in Calls, w \in {"written", "refused"}}

TypeOK ==
  /\ confirmFile \in [json : {"yes", "no"}, items : SUBSET Ids]
  /\ budgetFile \in [json : {"yes", "no"}, items : SUBSET Events]
  /\ idem \in [Keys -> Entries]
  /\ pc \in [Actors -> Idle \cup {"peek", "check", "deny", "consume", "perform",
                                  "record", "onSuccess", "succeeded", "refused",
                                  "failed", "write", "writing"}]
  /\ \A a \in Actors : pc[a] \in {"write", "writing"} => writes[a] # <<>>
  /\ req \in [Calls -> Requests \cup {NoRequest}]
  /\ result \in [Calls -> {"none", "blocked", "in_progress", "replayed", "written",
                           "refused", "unverified", "failed"}]
  /\ written \subseteq performed /\ performed \subseteq Calls
  /\ effects \subseteq performed
  /\ life \in [Calls -> 0..MaxCrashes]
  /\ past \subseteq PastEvents
  /\ expired \subseteq Ids

Init ==
  /\ confirmFile = File({})
  /\ past \in SUBSET PastEvents
  /\ budgetFile = File(OldEvents \cup past)
  /\ idem = [k \in Keys |-> NoEntry]
  /\ pc = [a \in Actors |-> "new"]
  /\ next = [a \in Actors |-> "new"]
  /\ writes = [a \in Actors |-> <<>>]
  /\ req = [c \in Calls |-> NoRequest]
  /\ result = [c \in Calls |-> "none"]
  /\ performed = {}
  /\ effects = {}
  /\ written = {}
  /\ life = [c \in Calls |-> 0]
  /\ expired = {}
  /\ overlapped = "no"
  /\ ioFailed = "no"
  /\ crashes = 0

-----------------------------------------------------------------------------
(* The files.  Both loadStore functions drop what is out of date and write *)
(* the rest back before they return.                                       *)

\* Mutant: the write is not skipped when there is nothing to write back.
GotoWrite(a, p, ws) ==
  /\ pc' = [pc EXCEPT ![a] = "write"]
  /\ next' = [next EXCEPT ![a] = p]
  /\ writes' = [writes EXCEPT ![a] = ws]

\* Go on at p once ws is written.
Goto(a, p, ws) ==
  /\ pc' = [pc EXCEPT ![a] = IF ws = <<>> THEN p ELSE "write"]
  /\ next' = [next EXCEPT ![a] = p]
  /\ writes' = [writes EXCEPT ![a] = ws]

WriteBack(name, read, live) == IF live = read THEN <<>> ELSE <<W(name, live)>>

\* loadStore of doc-update-confirmations.
LiveIds == confirmFile.items \ expired
PruneConfirmations == WriteBack("confirm", confirmFile.items, LiveIds)

\* loadStore of lark-write-budget-guard.
LiveEvents == budgetFile.items \ OldEvents
PruneEvents == WriteBack("budget", budgetFile.items, LiveEvents)

\* writeJsonFile opens and truncates.
WriteOpen(a) ==
  LET w == Head(writes[a]) IN
  /\ pc[a] = "write"
  /\ pc' = [pc EXCEPT ![a] = "writing"]
  /\ IF w.file = "confirm"
     THEN confirmFile' = TornFile /\ UNCHANGED budgetFile
     ELSE budgetFile' = TornFile /\ UNCHANGED confirmFile
  /\ UNCHANGED <<idem, next, writes, req, result, outcome, expired,
                 overlapped, crashes>>

\* What a file holds after `items` were written to it: when another write came
\* after the truncation, perhaps with a tail of that.
Filled(file, items) == IF file.json = "no" THEN {File(items)} ELSE {File(items), TornFile}

\* writeJsonFile fills the file.
WriteData(a) ==
  LET w == Head(writes[a]) IN
  /\ pc[a] = "writing"
  /\ IF w.file = "confirm"
     THEN confirmFile' \in Filled(confirmFile, w.items) /\ UNCHANGED budgetFile
     ELSE budgetFile' \in Filled(budgetFile, w.items) /\ UNCHANGED confirmFile
  /\ Goto(a, next[a], Tail(writes[a]))
  /\ UNCHANGED <<idem, req, result, outcome, expired, overlapped, crashes>>

\* A file cannot be read or written, for another reason than that it is missing
\* or no JSON: the executor throws, and a preview gives no id out.  A write that
\* was under way may leave the file as it was, filled, or torn.
IoFails(a) ==
  LET w == Head(writes[a])
      left == {File(w.items), TornFile}
  IN
  /\ pc[a] \in {"peek", "check", "deny", "consume", "record", "write", "writing"}
  /\ Goto(a, IF a \in Calls THEN "failed" ELSE "lost", <<>>)
  /\ \/ UNCHANGED files
     \/ /\ pc[a] = "writing" /\ w.file = "confirm"
        /\ confirmFile' \in left /\ UNCHANGED budgetFile
     \/ /\ pc[a] = "writing" /\ w.file = "budget"
        /\ budgetFile' \in left /\ UNCHANGED confirmFile
  /\ ioFailed' = "yes"
  /\ UNCHANGED <<idem, req, result, performed, effects, written, life, past,
                 expired, overlapped, crashes>>

Overlaps(a) ==
  IF \E b \in Actors \ {a} : pc[b] \notin Idle THEN "yes" ELSE overlapped

-----------------------------------------------------------------------------
(* Confirmations.                                                          *)

\* A preview creates a confirmation and gives its id to the client.
Preview(i) ==
  /\ pc[i] = "new"
  /\ Goto(i, "issued", PruneConfirmations \o <<W("confirm", LiveIds \cup {i})>>)
  /\ overlapped' = Overlaps(i)
  /\ UNCHANGED <<files, idem, req, result, outcome, expired, crashes>>

\* The time of a confirmation is over.
Expire(i) ==
  /\ pc[i] = "issued"
  /\ i \notin expired
  /\ expired' = expired \cup {i}
  /\ UNCHANGED <<files, idem, pc, next, writes, req, result, outcome,
                 overlapped, crashes>>

-----------------------------------------------------------------------------
(* runMutation up to the executor.                                         *)

\* A client asks for what it has a confirmation id for, if it needs one.
Asks(c, q) ==
  /\ pc[c] = "new"
  /\ q.id # None => pc[q.id] = "issued"
  /\ req' = [req EXCEPT ![c] = q]

Entry(q) == IF q.key = None THEN NoEntry ELSE idem[q.key]

Return(c, r) ==
  /\ pc' = [pc EXCEPT ![c] = "over"]
  /\ result' = [result EXCEPT ![c] = r]

\* The write policy, the authority or the canonical request is refused; or, for
\* a key without an entry, the admission or the pre-verification, which clear
\* the entry they made.
Block(c, q) ==
  /\ Asks(c, q)
  /\ Return(c, "blocked")
  /\ UNCHANGED <<files, idem, next, writes, outcome, expired, overlapped,
                 crashes>>

\* Mutant: a pending entry does not hold a second call off.
HeldOffNever(entry) == FALSE

\* The key is pending.
HeldOff(entry) == entry = Pending

InProgress(c, q) ==
  /\ Asks(c, q)
  /\ HeldOff(Entry(q))
  /\ Return(c, "in_progress")
  /\ UNCHANGED <<files, idem, next, writes, outcome, expired, overlapped,
                 crashes>>

\* The key is done: its response is returned.
Replay(c, q) ==
  /\ Asks(c, q)
  /\ Entry(q) \notin {NoEntry, Pending}
  /\ Return(c, "replayed")
  /\ UNCHANGED <<files, idem, next, writes, outcome, expired, overlapped,
                 crashes>>

\* The key is made pending and executeLarkWrite starts: with the peek, without
\* one, or, when the request does not confirm, at its end.
Begin(c, q) ==
  /\ Asks(c, q)
  /\ Entry(q) \in {NoEntry, Pending}
  /\ ~HeldOff(Entry(q))
  /\ idem' = IF q.key = None THEN idem ELSE [idem EXCEPT ![q.key] = Pending]
  /\ \/ q.id = None /\ Goto(c, "check", <<>>)
     \/ q.id # None /\ \E p \in {"peek", "refused"} : Goto(c, p, <<>>)
  /\ overlapped' = Overlaps(c)
  /\ life' = [life EXCEPT ![c] = crashes]
  /\ UNCHANGED <<files, result, performed, effects, written, past, ioFailed,
                 expired, crashes>>

-----------------------------------------------------------------------------
(* executeLarkWrite.                                                       *)

\* The confirmation is looked up and validated.
Peek(c) ==
  /\ pc[c] = "peek"
  /\ \/ req[c].id \in LiveIds /\ Goto(c, "check", PruneConfirmations)
     \/ Goto(c, "refused", PruneConfirmations)
  /\ UNCHANGED <<files, idem, req, result, outcome, expired, overlapped,
                 crashes>>

\* findDuplicateEvent among the events of the last 30 minutes.
Duplicate(q, events) ==
  IF q.key # None
  THEN \E e \in events : e.key = q.key
  ELSE \/ \E e \in events : e.print = q.print
       \/ q.doc # None /\ \E e \in events : e.doc = q.doc /\ e.allowed = "yes"

\* Mutant: > for >= in isOverHardLimit and isOverSoftLimit.
ReachedLate(n, limit) == n > limit

\* isOverHardLimit, isOverSoftLimit.
Reached(n, limit) == n >= limit

\* Mutant: only the limits are checked.
DecisionByLimits(q, live) ==
  IF q.whitelist = "no" /\ Reached(Cardinality(live), HardLimit) THEN "hard"
  ELSE IF q.whitelist = "no" /\ q.essential = "no" /\ Reached(Cardinality(live), SoftLimit)
       THEN "soft" ELSE "allow"

\* shouldAllowWrite: blocked writes count like the others.
Decision(q, live) ==
  IF Duplicate(q, live \ PastEvents) THEN "duplicate"
  ELSE IF q.whitelist = "no" /\ Reached(Cardinality(live), HardLimit) THEN "hard"
  ELSE IF q.whitelist = "no" /\ q.essential = "no" /\ Reached(Cardinality(live), SoftLimit)
       THEN "soft" ELSE "allow"

\* The budget is read and decides.
Check(c) ==
  LET d == Decision(req[c], LiveEvents)
      p == IF d # "allow" THEN "deny" ELSE IF req[c].id # None THEN "consume" ELSE "perform"
  IN
  /\ pc[c] = "check"
  /\ Goto(c, p, PruneEvents)
  /\ UNCHANGED <<files, idem, req, result, outcome, expired, overlapped, crashes>>

\* recordCall: read again, append, write.
AppendEvent(c, allowed) ==
  PruneEvents \o <<W("budget", LiveEvents \cup {Event(c, req[c], allowed)})>>

\* A blocked write is recorded too.
Deny(c) ==
  /\ pc[c] = "deny"
  /\ Goto(c, "refused", AppendEvent(c, "no"))
  /\ UNCHANGED <<files, idem, req, result, outcome, expired, overlapped,
                 crashes>>

\* Mutant: the entry is not deleted.
ConsumeWritesNothing(c) == PruneConfirmations

\* The confirmation is deleted from the copy that was read, and that written.
ConsumeWrites(c) == PruneConfirmations \o <<W("confirm", LiveIds \ {req[c].id})>>

\* The confirmation is read again, compared with the request, and deleted.
Consume(c) ==
  /\ pc[c] = "consume"
  /\ \/ req[c].id \in LiveIds /\ Goto(c, "perform", ConsumeWrites(c))
     \/ Goto(c, "refused", PruneConfirmations)
  /\ UNCHANGED <<files, idem, req, result, outcome, expired, overlapped, crashes>>

\* performWrite returns, or throws before or after the write took effect.
Perform(c) ==
  /\ pc[c] = "perform"
  /\ performed' = performed \cup {c}
  /\ \/ /\ effects' = effects \cup {c}
        /\ written' = written \cup {c}
        /\ Goto(c, "record", <<>>)
     \/ /\ effects' \in {effects, effects \cup {c}}
        /\ Goto(c, "failed", <<>>)
        /\ UNCHANGED written
  /\ UNCHANGED <<files, idem, req, result, life, past, ioFailed, expired,
                 overlapped, crashes>>

\* The write is recorded in the budget.
Record(c) ==
  /\ pc[c] = "record"
  /\ Goto(c, "onSuccess", AppendEvent(c, "yes"))
  /\ UNCHANGED <<files, idem, req, result, outcome, expired, overlapped,
                 crashes>>

\* The caller's onSuccess returns or throws.
OnSuccess(c) ==
  /\ pc[c] = "onSuccess"
  /\ \E p \in {"succeeded", "failed"} : Goto(c, p, <<>>)
  /\ UNCHANGED <<files, idem, req, result, outcome, expired, overlapped,
                 crashes>>

-----------------------------------------------------------------------------
(* runMutation after the executor.                                         *)

\* Mutant: a failure leaves the key pending.
ClearedNever(k) == idem

\* failSoft: clearPendingMutationIdempotency.
Cleared(k) ==
  IF k # None /\ idem[k] = Pending THEN [idem EXCEPT ![k] = NoEntry] ELSE idem

\* The response is stored under the key.
Stored(c, what) ==
  IF req[c].key = None THEN idem ELSE [idem EXCEPT ![req[c].key] = Done(c, what)]

\* The executor returned, with a write or with a refusal, which is no error:
\* if the post-verification passes, the response is stored.
Conclude(c) ==
  /\ pc[c] \in {"succeeded", "refused"}
  /\ LET what == IF pc[c] = "succeeded" THEN "written" ELSE "refused" IN
     \/ idem' = Stored(c, what) /\ Return(c, what)
     \/ idem' = Cleared(req[c].key) /\ Return(c, "unverified")
  /\ UNCHANGED <<files, next, writes, req, outcome, expired, overlapped,
                 crashes>>

\* The executor threw: rollback, where the caller has one and it works.
Fail(c) ==
  /\ pc[c] = "failed"
  /\ idem' = Cleared(req[c].key)
  /\ effects' \in {effects, effects \ {c}}
  /\ Return(c, "failed")
  /\ UNCHANGED <<files, next, writes, req, performed, written, life, past,
                 ioFailed, expired, overlapped, crashes>>

\* The process is killed and started again: the files stay as they are.
Crash ==
  /\ crashes < MaxCrashes
  /\ crashes' = crashes + 1
  /\ idem' = [k \in Keys |-> NoEntry]
  /\ pc' = [a \in Actors |-> IF pc[a] \in Idle THEN pc[a] ELSE "lost"]
  /\ UNCHANGED <<files, next, writes, req, result, outcome, expired,
                 overlapped>>

Submit(c) ==
  \E q \in Requests : Block(c, q) \/ InProgress(c, q) \/ Replay(c, q) \/ Begin(c, q)

Proceed(c) ==
  \/ WriteOpen(c)
  \/ WriteData(c)
  \/ Peek(c)
  \/ Check(c)
  \/ Deny(c)
  \/ Consume(c)
  \/ Perform(c)
  \/ Record(c)
  \/ OnSuccess(c)
  \/ Conclude(c)
  \/ Fail(c)

Next ==
  \/ Crash
  \/ \E c \in Calls : Submit(c) \/ Proceed(c)
  \/ \E i \in Ids : Preview(i) \/ WriteOpen(i) \/ WriteData(i) \/ Expire(i)
  \/ \E a \in Actors : IoFails(a)

Spec == Init /\ [][Next]_vars

\* File operations, and calls to Lark, end; what a call started goes on.
FairSpec == Spec /\ \A c \in Calls : WF_vars(Proceed(c))

-----------------------------------------------------------------------------
\* Two calls wrote with one confirmation.
UsedTwice ==
  \E c, d \in performed : c # d /\ req[c].id # None /\ req[c].id = req[d].id

\* A confirmation is good for one write, across a crash or a file error at any
\* step of its consumption, as long as calls and previews do not overlap.
SingleUseAlone == overlapped = "no" => ~UsedTwice

\* "Confirmation artifacts are single-use", whatever overlaps.
SingleUse == ~UsedTwice

\* Writes that the budget counts, with those of before.
Counted(cs) == Cardinality(cs) + Cardinality(past)

\* As long as calls do not overlap, none is cut short by a crash and the budget
\* file can be read and written, the writes that returned stay within the hard
\* limit, and those that are not essential within the soft limit.
BudgetHeldAlone ==
  overlapped = "no" /\ crashes = 0 /\ ioFailed = "no" =>
    LET limited == {c \in written : req[c].whitelist = "no"}
        ordinary == {c \in limited : req[c].essential = "no"}
    IN /\ limited # {} => Counted(limited) <= HardLimit
       /\ ordinary # {} => Counted(ordinary) <= SoftLimit

\* Under the same conditions a request that was written is not written again
\* under another call, with its key or, without one, with its fingerprint.
NoDuplicateAlone ==
  overlapped = "no" /\ crashes = 0 /\ ioFailed = "no" =>
    \A c, d \in written : c # d =>
      /\ req[c].key # None => req[c].key # req[d].key
      /\ req[c].key = None /\ req[d].key = None => req[c].print # req[d].print

\* However calls overlap: in one life of the process, performWrite runs for a
\* second call with a key only after the first failed or was not verified.  The
\* keys of an earlier life are forgotten.
RepeatOnlyAfterFailure ==
  \A c, d \in performed :
    c # d /\ req[c].key # None /\ req[c].key = req[d].key /\ life[c] = life[d] =>
      \E e \in {c, d} : result[e] \in {"failed", "unverified"}

\* A key does not stay pending: every way out of runMutation stores the
\* response or clears the key.
PendingEnds ==
  \A k \in Keys : (idem[k] = Pending) ~> (idem[k] # Pending)
=============================================================================
