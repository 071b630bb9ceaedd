-------------------------- MODULE HttpIdempotency --------------------------
(***************************************************************************)
(* Requests with an idempotency key in http-server.mjs: the record of the  *)
(* first answer in SQLite, the map of requests in flight, the response     *)
(* that a leader buffers, the request timer, and the client that leaves.   *)
(*                                                                         *)
(* All code runs on one event loop.  An action is a stretch of code that   *)
(* runs without giving way.  The continuation of a waiter is a promise     *)
(* job, and promise jobs run before any timer, socket event or handler     *)
(* that awaits one, hence the guard Quiet of every other action.  A route  *)
(* handler is a start, and an end by answer or by error; an answer names   *)
(* the request it was made for and its kind: "ok" for whatever the handler *)
(* answered, "error" for 500 and 401, "timeout" for 504.                   *)
(*                                                                         *)
(* Nobody handles the rejection of a leader's promise when no request      *)
(* waits for it, nor an exception of the timer's callback: both end the    *)
(* process, which is started anew with an empty map.                       *)
(***************************************************************************)
EXTENDS Naturals

CONSTANTS
  Requests,
  Keys,                \* scope keys: method, path, account, idempotency key
  KeyOf,               \* the scope key of each request
  NoKey,               \* a request without one, or not a POST, PUT or PATCH
  None,
  MaxPersistFailures,  \* bound on reads and inserts that throw
  MaxCrashes           \* bound on crashes from outside

ASSUME RequestAssumption ==
  /\ KeyOf \in [Requests -> Keys \cup {NoKey}]
  /\ NoKey \notin Keys
  /\ None \notin Requests
  /\ MaxPersistFailures \in Nat
  /\ MaxCrashes \in Nat

Kinds == {"ok", "error", "timeout"}
Response == [by : Requests, kind : Kinds]
NoResponse == [by |-> None, kind |-> "none"]
R(r, kind) == [by |-> r, kind |-> kind]

\* The promise of a leader: not made, unsettled, rejected, or its record.
NoPromise == [by |-> None, kind |-> "unmade"]
Pending == [by |-> None, kind |-> "pending"]
Rejected == [by |-> None, kind |-> "rejected"]

VARIABLES
  record,           \* http_request_idempotency: the answer kept for a key
  inFlight,         \* inFlightIdempotentRequests: the leader of a key
  promise,          \* the promise of the map entry a leader made
  pc,               \* where a request is
  waitsOn,          \* the leader whose promise a request awaits or awaited
  res,              \* the socket's response: open, ended, finished, closed
  aborted,          \* the reason of the request's abort signal
  answer,           \* what was written to the socket
  ran,              \* keyed requests whose route handler was started
  persistFailures,
  crashes

vars == <<record, inFlight, promise, pc, waitsOn, res, aborted, answer, ran,
          persistFailures, crashes>>

TypeOK ==
  /\ record \in [Keys -> Response \cup {NoResponse}]
  /\ inFlight \in [Keys -> Requests \cup {None}]
  /\ promise \in [Requests -> Response \cup {NoPromise, Pending, Rejected}]
  /\ pc \in [Requests -> {"new", "reading", "waiting", "leading", "running",
                          "over", "lost"}]
  /\ waitsOn \in [Requests -> Requests \cup {None}]
  /\ res \in [Requests -> {"none", "open", "ended", "finished", "closed"}]
  /\ aborted \in [Requests -> {"no", "timeout", "cancelled"}]
  /\ answer \in [Requests -> Response \cup {NoResponse}]
  /\ ran \in SUBSET Requests
  /\ persistFailures \in 0..MaxPersistFailures
  /\ crashes \in 0..MaxCrashes

Init ==
  /\ record = [k \in Keys |-> NoResponse]
  /\ inFlight = [k \in Keys |-> None]
  /\ promise = [r \in Requests |-> NoPromise]
  /\ pc = [r \in Requests |-> "new"]
  /\ waitsOn = [r \in Requests |-> None]
  /\ res = [r \in Requests |-> "none"]
  /\ aborted = [r \in Requests |-> "no"]
  /\ answer = [r \in Requests |-> NoResponse]
  /\ ran = {}
  /\ persistFailures = 0
  /\ crashes = 0

-----------------------------------------------------------------------------
Resumable(r) == pc[r] = "waiting" /\ promise[waitsOn[r]] # Pending

\* No promise job is queued.
Quiet == \A r \in Requests : ~Resumable(r)

\* A request that made a promise answers into its buffered response: `res` of
\* the request listener, which the timer's callback reads too, names it.
Buffered(r) == promise[r] # NoPromise

\* The process ends, and starts with an empty map: requests under way are lost
\* and their sockets closed.
Survivors(pcs) == [r \in Requests |->
  IF pcs[r] \in {"reading", "waiting", "leading", "running"} THEN "lost" ELSE pcs[r]]
Sockets(rs) == [r \in Requests |->
  IF rs[r] = "open" THEN "closed" ELSE IF rs[r] = "ended" THEN "finished" ELSE rs[r]]

\* The end of a turn that sets pc and res; `dies` when it left a rejection or
\* an exception that nobody handles.
EndTurn(dies, map, pcs, rs) ==
  IF dies
  THEN /\ inFlight' = [k \in Keys |-> None]
       /\ pc' = Survivors(pcs)
       /\ res' = Sockets(rs)
  ELSE /\ inFlight' = map
       /\ pc' = pcs
       /\ res' = rs

\* rejectRecord: p is the leader's promise before, q after.
Unhandled(r, p, q) ==
  p = Pending /\ q = Rejected /\ \A w \in Requests : waitsOn[w] # r

-----------------------------------------------------------------------------
\* Mutant: INSERT OR REPLACE.
StoreReplaces(k, resp, ok) ==
  IF ok THEN [record EXCEPT ![k] = resp] ELSE record

\* Mutant: the row is not inserted, and reads back as null.
StoreNothing(k, resp, ok) == record

\* storeHttpIdempotencyRecord: INSERT OR IGNORE, unless it throws.
Store(k, resp, ok) ==
  IF ok /\ record[k] = NoResponse THEN [record EXCEPT ![k] = resp] ELSE record

\* resolveRecord with the row read back, or rejectRecord when the insert or the
\* read threw; p is the promise.
SettledBy(p, row, ok) ==
  IF p # Pending THEN p ELSE IF ok THEN row ELSE Rejected

\* jsonResponse and flushBufferedResponse reach a client that is there and not
\* answered yet.
Writable(r) == res[r] = "open"

\* Mutant: the entry is deleted only when the response was stored.
MapAfterStored(k, ok) == IF ok THEN [inFlight EXCEPT ![k] = None] ELSE inFlight

\* The finally block deletes whatever entry the key has.
MapAfter(k, ok) == [inFlight EXCEPT ![k] = None]

\* bufferedRes.end: store, settle the promise (p until now), delete the entry,
\* write to the socket.  Writing twice throws, after all of that: harmless in
\* a handler, fatal in the timer's callback.
BufferedEnd(r, kind, p, inTimer, pcs) ==
  LET k == KeyOf[r] IN
  \E ok, inserted \in BOOLEAN :
    /\ ok => inserted
    /\ ok \/ persistFailures < MaxPersistFailures
    /\ persistFailures' = IF ok THEN persistFailures ELSE persistFailures + 1
    /\ record' = Store(k, R(r, kind), inserted)
    /\ promise' = [promise EXCEPT ![r] = SettledBy(p, record'[k], ok)]
    /\ answer' = IF Writable(r) THEN [answer EXCEPT ![r] = R(r, kind)] ELSE answer
    /\ EndTurn(\/ Unhandled(r, promise[r], promise'[r])
               \/ inTimer /\ answer[r] # NoResponse,
               MapAfter(k, ok),
               pcs,
               IF Writable(r) THEN [res EXCEPT ![r] = "ended"] ELSE res)

\* jsonResponse on the socket's own response: nothing when it was written to
\* or the client is gone.
PlainEnd(r, resp, pcs) ==
  /\ answer' = IF Writable(r) THEN [answer EXCEPT ![r] = resp] ELSE answer
  /\ EndTurn(FALSE, inFlight, pcs,
             IF Writable(r) THEN [res EXCEPT ![r] = "ended"] ELSE res)
  /\ UNCHANGED <<record, promise>>

\* getHttpIdempotencyRecord throws: 500.
ReadFails(r) ==
  /\ persistFailures < MaxPersistFailures
  /\ persistFailures' = persistFailures + 1
  /\ PlainEnd(r, R(r, "error"), [pc EXCEPT ![r] = "over"])

Respond(r, kind, p, inTimer, pcs) ==
  \/ Buffered(r) /\ BufferedEnd(r, kind, p, inTimer, pcs)
  \/ ~Buffered(r) /\ PlainEnd(r, R(r, kind), pcs) /\ UNCHANGED persistFailures

-----------------------------------------------------------------------------
\* A request comes in; its timer starts; its body is read.
Arrive(r) ==
  /\ Quiet
  /\ pc[r] = "new"
  /\ pc' = [pc EXCEPT ![r] = "reading"]
  /\ res' = [res EXCEPT ![r] = "open"]
  /\ UNCHANGED <<record, inFlight, promise, waitsOn, aborted, answer, ran,
                 persistFailures, crashes>>

\* The record of the key cannot be read: 500, before anything was set up.
PrepareFails(r) ==
  /\ Quiet
  /\ pc[r] = "reading"
  /\ KeyOf[r] \in Keys
  /\ ReadFails(r)
  /\ UNCHANGED <<waitsOn, aborted, ran, crashes>>

\* Without a key, or with a body that broke off with the connection, the
\* handler starts on the socket's response.
PrepareUnkeyed(r) ==
  /\ Quiet
  /\ pc[r] = "reading"
  /\ KeyOf[r] = NoKey \/ res[r] = "closed"
  /\ pc' = [pc EXCEPT ![r] = "running"]
  /\ UNCHANGED <<record, inFlight, promise, waitsOn, res, aborted, answer, ran,
                 persistFailures, crashes>>

\* The key has a record: it is the answer.
PrepareReplay(r) ==
  /\ Quiet
  /\ pc[r] = "reading"
  /\ KeyOf[r] \in Keys
  /\ record[KeyOf[r]] # NoResponse
  /\ PlainEnd(r, record[KeyOf[r]], [pc EXCEPT ![r] = "over"])
  /\ UNCHANGED <<waitsOn, aborted, ran, persistFailures, crashes>>

\* The key is in flight: await its promise.
PrepareWait(r) ==
  LET k == KeyOf[r] IN
  /\ Quiet
  /\ pc[r] = "reading"
  /\ k \in Keys
  /\ record[k] = NoResponse
  /\ inFlight[k] # None
  /\ pc' = [pc EXCEPT ![r] = "waiting"]
  /\ waitsOn' = [waitsOn EXCEPT ![r] = inFlight[k]]
  /\ UNCHANGED <<record, inFlight, promise, res, aborted, answer, ran,
                 persistFailures, crashes>>

\* Mutant: the map is not consulted.
LeadsUnseen(k) == record[k] = NoResponse

\* Neither recorded nor in flight.
Leads(k) == record[k] = NoResponse /\ inFlight[k] = None

\* The request becomes the leader of its key and its handler starts.
PrepareLead(r) ==
  LET k == KeyOf[r] IN
  /\ Quiet
  /\ pc[r] = "reading"
  /\ k \in Keys
  /\ Leads(k)
  /\ pc' = [pc EXCEPT ![r] = "leading"]
  /\ inFlight' = [inFlight EXCEPT ![k] = r]
  /\ promise' = [promise EXCEPT ![r] = Pending]
  /\ ran' = ran \cup {r}
  /\ UNCHANGED <<record, waitsOn, res, aborted, answer, persistFailures, crashes>>

\* Mutant: the record is not looked up again after the wait.
ReplayRecordAwaited(r) ==
  IF promise[waitsOn[r]] = Rejected THEN NoResponse ELSE promise[waitsOn[r]]

\* awaitedRecord || getHttpIdempotencyRecord(...)
ReplayRecord(r) ==
  IF promise[waitsOn[r]] = Rejected THEN record[KeyOf[r]] ELSE promise[waitsOn[r]]

\* A waiter goes on: it answers with the record, with 500 when the second look
\* at the table throws, or its own handler starts, on the socket's response, in
\* no map, also when its timer or its client ended the response meanwhile.
Resume(r) ==
  /\ Resumable(r)
  /\ \/ /\ ReplayRecord(r) # NoResponse
        /\ PlainEnd(r, ReplayRecord(r), [pc EXCEPT ![r] = "over"])
        /\ UNCHANGED <<ran, persistFailures>>
     \/ /\ promise[waitsOn[r]] = Rejected
        /\ ReadFails(r)
        /\ UNCHANGED ran
     \/ /\ ReplayRecord(r) = NoResponse
        /\ pc' = [pc EXCEPT ![r] = "running"]
        /\ ran' = ran \cup {r}
        /\ UNCHANGED <<record, inFlight, promise, res, answer, persistFailures>>
  /\ UNCHANGED <<waitsOn, aborted, crashes>>

\* The handler answers and the listener returns.  runHttpRoute throws when the
\* signal was aborted; by then the promise is settled and nothing follows.
HandlerDone(r) ==
  /\ Quiet
  /\ pc[r] \in {"leading", "running"}
  /\ Respond(r, "ok", promise[r], FALSE, [pc EXCEPT ![r] = "over"])
  /\ UNCHANGED <<waitsOn, aborted, ran, crashes>>

\* Mutant: the catch block does not finalize the key.
FinalizeNothing(r) == promise[r]

\* finalizeError rejects a promise that is not settled.
FinalizeError(r) == IF promise[r] = Pending THEN Rejected ELSE promise[r]

\* The entry that finalizeError deletes.
FinalizeMap(r) ==
  IF promise[r] = Pending /\ FinalizeError(r) = Rejected
  THEN [inFlight EXCEPT ![KeyOf[r]] = None] ELSE inFlight

\* The handler throws an error of its own: 401 or 500, which is recorded.
HandlerThrow(r) ==
  /\ Quiet
  /\ pc[r] \in {"leading", "running"}
  /\ aborted[r] = "no"
  /\ Respond(r, "error", FinalizeError(r), FALSE, [pc EXCEPT ![r] = "over"])
  /\ UNCHANGED <<waitsOn, aborted, ran, crashes>>

\* The handler throws request_timeout, of a signal that fires before the
\* request's own timer: 504, which is recorded.
HandlerTimesOutEarly(r) ==
  /\ Quiet
  /\ pc[r] \in {"leading", "running"}
  /\ aborted[r] = "no"
  /\ Respond(r, "timeout", FinalizeError(r), FALSE, [pc EXCEPT ![r] = "over"])
  /\ UNCHANGED <<waitsOn, aborted, ran, crashes>>

\* The handler throws after the request was aborted, or throws an AbortError
\* of another signal, which reads as a cancelled request: no answer.
HandlerAborts(r) ==
  /\ Quiet
  /\ pc[r] \in {"leading", "running"}
  /\ promise' = [promise EXCEPT ![r] = FinalizeError(r)]
  /\ EndTurn(Unhandled(r, promise[r], promise'[r]), FinalizeMap(r),
             [pc EXCEPT ![r] = "over"], res)
  /\ UNCHANGED <<record, waitsOn, aborted, answer, ran, persistFailures, crashes>>

\* Mutant: a request that waits is not timed out.
TimerRunsAwake(r) == res[r] \in {"open", "ended"} /\ aborted[r] = "no" /\ pc[r] # "waiting"

\* The timer is cleared by the events finish and close.
TimerRuns(r) == res[r] \in {"open", "ended"} /\ aborted[r] = "no"

\* The request timer: abort, and answer 504 into `res`.  The handler runs on.
Timeout(r) ==
  /\ Quiet
  /\ TimerRuns(r)
  /\ aborted' = [aborted EXCEPT ![r] = "timeout"]
  /\ Respond(r, "timeout", promise[r], TRUE, pc)
  /\ UNCHANGED <<waitsOn, ran, crashes>>

\* The socket took the whole response, or the client left while it did: the
\* timer is cleared.  A request whose response ended is over or aborted, so
\* that aborting its signal now changes nothing.
Finish(r) ==
  /\ Quiet
  /\ res[r] = "ended"
  /\ res' = [res EXCEPT ![r] = "finished"]
  /\ UNCHANGED <<record, inFlight, promise, pc, waitsOn, aborted, answer, ran,
                 persistFailures, crashes>>

\* The client leaves unanswered: the timer is cleared, the signal aborted.
Close(r) ==
  /\ Quiet
  /\ res[r] = "open"
  /\ res' = [res EXCEPT ![r] = "closed"]
  /\ aborted' = [aborted EXCEPT ![r] = "cancelled"]
  /\ UNCHANGED <<record, inFlight, promise, pc, waitsOn, answer, ran,
                 persistFailures, crashes>>

\* The process is killed and started again.
Crash ==
  /\ crashes < MaxCrashes
  /\ crashes' = crashes + 1
  /\ EndTurn(TRUE, inFlight, pc, res)
  /\ UNCHANGED <<record, promise, waitsOn, aborted, answer, ran, persistFailures>>

Step(r) ==
  \/ Arrive(r)
  \/ PrepareFails(r)
  \/ PrepareUnkeyed(r)
  \/ PrepareReplay(r)
  \/ PrepareWait(r)
  \/ PrepareLead(r)
  \/ Resume(r)
  \/ HandlerDone(r)
  \/ HandlerThrow(r)
  \/ HandlerTimesOutEarly(r)
  \/ HandlerAborts(r)
  \/ Timeout(r)
  \/ Finish(r)
  \/ Close(r)

Next == Crash \/ \E r \in Requests : Step(r)

Spec == Init /\ [][Next]_vars

\* Timers fire and promise jobs run; a handler need not end, a client need not
\* send, stay or read.
FairSpec ==
  /\ Spec
  /\ \A r \in Requests : WF_vars(Timeout(r)) /\ WF_vars(Resume(r))

HandlerEnds(r) ==
  \/ HandlerDone(r)
  \/ HandlerThrow(r)
  \/ HandlerTimesOutEarly(r)
  \/ HandlerAborts(r)

-----------------------------------------------------------------------------
OfKey(k) == {r \in Requests : KeyOf[r] = k}

\* A request is answered with what the key's record says, or with an answer of
\* its own: a promise never resolves to a row that the table does not hold.
ReplayMatchesRecord ==
  \A r \in Requests :
    answer[r] # NoResponse /\ answer[r].by # r =>
      KeyOf[r] \in Keys /\ answer[r] = record[KeyOf[r]]

\* Whoever finds an entry in the map waits for a promise that can still be
\* settled: the entry's request leads that key and has not settled.
InFlightEntryIsLive ==
  \A k \in Keys : inFlight[k] # None =>
    /\ KeyOf[inFlight[k]] = k
    /\ pc[inFlight[k]] = "leading"
    /\ promise[inFlight[k]] = Pending

\* The handler runs for a second request of a key only after a leader of that
\* key failed to leave a record: it was rejected, or lost with the process.
RerunOnlyAfterFailure ==
  \A k \in Keys : \A r, s \in ran \cap OfKey(k) : r # s =>
    \E l \in OfKey(k) : promise[l] = Rejected \/ pc[l] = "lost"

\* No handler starts for a key that has a record, not even for a request that
\* waited for a leader that failed.
NoRunAfterRecord ==
  [][\A r \in ran' \ ran : record[KeyOf[r]] = NoResponse]_vars

\* Every request is answered, or its client or the process is gone, whatever
\* its handler or the leader it waits for does.
RequestAnswered ==
  \A r \in Requests : (res[r] = "open") ~> (res[r] # "open")

\* When handlers end, no request waits for ever: each way a leader ends
\* settles its promise.
WaiterReleased ==
  (\A r \in Requests : WF_vars(HandlerEnds(r))) =>
    \A r \in Requests : (pc[r] = "waiting") ~> (pc[r] # "waiting")
=============================================================================
