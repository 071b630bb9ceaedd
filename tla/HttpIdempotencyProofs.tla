----------------------- MODULE HttpIdempotencyProofs -----------------------
(***************************************************************************)
(* For every set of requests and keys, any number of database errors and   *)
(* of crashes: answers that are replayed are the recorded ones, an entry   *)
(* of the in-flight map is a leader that can still settle, and a handler   *)
(* runs twice for a key only after a leader failed to leave a record.      *)
(***************************************************************************)
EXTENDS HttpIdempotency, TLAPS

-----------------------------------------------------------------------------
(* The inductive invariant *)

\* Who made a promise is a keyed request that leads, or did.
PromisesOfLeaders ==
  \A r \in Requests :
    /\ Buffered(r) => KeyOf[r] \in Keys /\ pc[r] \in {"leading", "over", "lost"}
    /\ pc[r] = "leading" => Buffered(r)

\* Who waits, or did, waits for the promise of a request with the same key.
WaitsOnLeader ==
  \A r \in Requests :
    /\ pc[r] = "waiting" => waitsOn[r] # None
    /\ waitsOn[r] # None =>
         KeyOf[r] \in Keys /\ Buffered(waitsOn[r]) /\ KeyOf[waitsOn[r]] = KeyOf[r]

\* A promise that is resolved holds the row of the table.
PromiseIsRecord ==
  \A r \in Requests : promise[r] \in Response => promise[r] = record[KeyOf[r]]

\* A leader of the key failed to leave a record.
Failed(k) == \E l \in OfKey(k) : promise[l] = Rejected \/ pc[l] = "lost"

\* The key has a record, or a leader that failed to leave one.
Settled(k) == record[k] # NoResponse \/ Failed(k)

\* A request whose handler was started is keyed, and is in flight or has left
\* its key settled.  This is what the next leader of the key relies on.
RanSettled ==
  \A r \in ran :
    /\ KeyOf[r] \in Keys
    /\ Settled(KeyOf[r]) \/ inFlight[KeyOf[r]] = r

HttpInv ==
  /\ TypeOK
  /\ PromisesOfLeaders
  /\ WaitsOnLeader
  /\ PromiseIsRecord
  /\ InFlightEntryIsLive
  /\ RanSettled
  /\ ReplayMatchesRecord
  /\ RerunOnlyAfterFailure

-----------------------------------------------------------------------------
(* Values *)

\* The marks of an absent answer and of a promise's state are no answers.
LEMMA Marks ==
  /\ NoResponse \notin Response /\ NoPromise \notin Response
  /\ Pending \notin Response /\ Rejected \notin Response
  /\ NoPromise # Pending /\ NoPromise # Rejected /\ Pending # Rejected
BY RequestAssumption DEF NoResponse, NoPromise, Pending, Rejected, Response, Kinds

\* An answer names the request it was made for.
LEMMA AnswerOf ==
  ASSUME NEW r \in Requests, NEW kind \in Kinds
  PROVE  R(r, kind) \in Response /\ R(r, kind).by = r
BY DEF R, Response

\* storeHttpIdempotencyRecord keeps a row that is there, and fills in one that
\* is not unless the insert throws.
LEMMA StoredRow ==
  ASSUME TypeOK, NEW k \in Keys, NEW resp \in Response, NEW ok \in BOOLEAN
  PROVE  /\ Store(k, resp, ok) \in [Keys -> Response \cup {NoResponse}]
         /\ \A j \in Keys : record[j] # NoResponse => Store(k, resp, ok)[j] = record[j]
         /\ \A j \in Keys \ {k} : Store(k, resp, ok)[j] = record[j]
         /\ ok => Store(k, resp, ok)[k] \in Response
         /\ ~ok => Store(k, resp, ok) = record
BY DEF TypeOK, Store

\* FinalizeError settles a promise that is unsettled, and no other.
LEMMA FinalizedPromise ==
  ASSUME TypeOK, NEW r \in Requests
  PROVE  FinalizeError(r) = IF promise[r] = Pending THEN Rejected ELSE promise[r]
BY DEF FinalizeError

\* How a turn ends: with the process alive, or with an empty map and everybody
\* lost who was under way.
LEMMA TurnEnded ==
  ASSUME NEW dies \in BOOLEAN,
         NEW map \in [Keys -> Requests \cup {None}],
         NEW pcs \in [Requests -> {"new", "reading", "waiting", "leading", "running",
                                   "over", "lost"}],
         NEW rs \in [Requests -> {"none", "open", "ended", "finished", "closed"}],
         EndTurn(dies, map, pcs, rs)
  PROVE  /\ inFlight' \in [Keys -> Requests \cup {None}]
         /\ pc' \in [Requests -> {"new", "reading", "waiting", "leading", "running",
                                  "over", "lost"}]
         /\ res' \in [Requests -> {"none", "open", "ended", "finished", "closed"}]
         /\ \A q \in Requests : pc'[q] = pcs[q] \/ pc'[q] = "lost"
         /\ \A k \in Keys : inFlight'[k] # None => inFlight'[k] = map[k] /\ pc' = pcs
         /\ \A k \in Keys : inFlight'[k] # map[k] /\ map[k] # None /\ pcs[map[k]] = "leading"
                          => pc'[map[k]] = "lost"
<1>1. CASE dies
  <2>1. /\ inFlight' = [k \in Keys |-> None]
        /\ pc' = Survivors(pcs)
        /\ res' = Sockets(rs)
    BY <1>1 DEF EndTurn
  <2>2. \A q \in Requests : pc'[q] = pcs[q] \/ pc'[q] = "lost"
    BY <2>1 DEF Survivors
  <2>3. \A q \in Requests : pcs[q] = "leading" => pc'[q] = "lost"
    BY <2>1 DEF Survivors
  <2>4. pc' \in [Requests -> {"new", "reading", "waiting", "leading", "running", "over", "lost"}]
    BY <2>1 DEF Survivors
  <2>5. res' \in [Requests -> {"none", "open", "ended", "finished", "closed"}]
    BY <2>1 DEF Sockets
  <2>6. \A k \in Keys : map[k] \in Requests \cup {None}
    OBVIOUS
  <2> QED BY <2>1, <2>2, <2>3, <2>4, <2>5, <2>6
<1>2. CASE ~dies
  BY <1>2 DEF EndTurn
<1> QED BY <1>1, <1>2

-----------------------------------------------------------------------------
(* Every step keeps the invariant *)

\* Initially the map and the table are empty.
LEMMA InitHttp == Init => HttpInv
<1> SUFFICES ASSUME Init PROVE HttpInv OBVIOUS
<1>1. TypeOK
  BY RequestAssumption DEF Init, TypeOK
<1>2. PromisesOfLeaders /\ WaitsOnLeader
  BY DEF Init, PromisesOfLeaders, WaitsOnLeader, Buffered
<1>3. PromiseIsRecord
  BY Marks DEF Init, PromiseIsRecord
<1>4. InFlightEntryIsLive /\ RanSettled
  BY DEF Init, InFlightEntryIsLive, RanSettled
<1>5. ReplayMatchesRecord /\ RerunOnlyAfterFailure
  BY DEF Init, ReplayMatchesRecord, RerunOnlyAfterFailure
<1> QED BY <1>1, <1>2, <1>3, <1>4, <1>5 DEF HttpInv

\* Steps that start no handler and settle no promise.
LEMMA QuietStep ==
  ASSUME HttpInv, TypeOK',
         UNCHANGED <<record, inFlight, promise, ran>>,
         \A q \in Requests : pc[q] \in {"leading", "over", "lost"} => pc'[q] = pc[q],
         \A q \in Requests : pc'[q] = "leading" => pc[q] = "leading",
         \A q \in Requests : pc'[q] = "waiting" => waitsOn'[q] # None,
         \A q \in Requests : waitsOn'[q] # waitsOn[q] =>
           KeyOf[q] \in Keys /\ Buffered(waitsOn'[q]) /\ KeyOf[waitsOn'[q]] = KeyOf[q],
         \A q \in Requests : answer'[q] # answer[q] /\ answer'[q].by # q =>
           KeyOf[q] \in Keys /\ answer'[q] = record[KeyOf[q]]
  PROVE  HttpInv'
<1>1. PromisesOfLeaders'
  BY DEF HttpInv, PromisesOfLeaders, Buffered
<1>2. WaitsOnLeader'
  BY DEF HttpInv, WaitsOnLeader, Buffered
<1>3. PromiseIsRecord'
  BY DEF HttpInv, PromiseIsRecord
<1>4. InFlightEntryIsLive'
  BY DEF HttpInv, TypeOK, InFlightEntryIsLive
<1>5. \A k \in Keys : Settled(k) => Settled(k)'
  BY DEF Settled, Failed, OfKey
<1>6. RanSettled'
  BY <1>5 DEF HttpInv, RanSettled
<1>7. ReplayMatchesRecord'
  BY DEF HttpInv, ReplayMatchesRecord
<1>8. RerunOnlyAfterFailure'
  BY DEF HttpInv, RerunOnlyAfterFailure, OfKey
<1> QED BY <1>1, <1>2, <1>3, <1>4, <1>6, <1>7, <1>8 DEF HttpInv

\* What settles a promise or ends the process: the promise p of request r, and
\* the map that its turn leaves.
LEMMA SettlingStep ==
  ASSUME HttpInv, TypeOK', NEW r \in Requests,
         UNCHANGED <<waitsOn, ran>>,
         \A q \in Requests : pc'[q] \in {pc[q], "lost"} \/ (q = r /\ pc'[q] = "over"),
         pc'[r] = "over" => pc[r] \in {"leading", "running", "over"},
         \A k \in Keys : record[k] # NoResponse => record'[k] = record[k],
         \A q \in Requests \ {r} : promise'[q] = promise[q],
         promise[r] # Pending => promise'[r] = promise[r],
         promise'[r] \in Response => promise'[r] = record'[KeyOf[r]],
         promise'[r] = NoPromise => promise[r] = NoPromise,
         \A k \in Keys : inFlight'[k] # None =>
           inFlight'[k] = inFlight[k] /\ inFlight[k] # r
             /\ \A q \in Requests \ {r} : pc'[q] = pc[q],
         \A k \in Keys : inFlight[k] # None /\ inFlight'[k] = None =>
           Settled(k)' \/ pc'[inFlight[k]] = "lost",
         \A q \in Requests : answer'[q] # answer[q] /\ answer'[q].by # q =>
           KeyOf[q] \in Keys /\ answer'[q] = record'[KeyOf[q]]
  PROVE  HttpInv'
<1>0. \A q \in Requests : Buffered(q)' => Buffered(q)
  BY Marks DEF Buffered
<1>b. \A q \in Requests : Buffered(q) => Buffered(q)'
  BY DEF Buffered
<1>1. PromisesOfLeaders'
  BY <1>0, <1>b DEF HttpInv, PromisesOfLeaders
<1>2. WaitsOnLeader'
  BY <1>b DEF HttpInv, TypeOK, WaitsOnLeader
<1>3. PromiseIsRecord'
  <2> SUFFICES ASSUME NEW q \in Requests, promise'[q] \in Response, q # r
               PROVE  promise'[q] = record'[KeyOf[q]]
    BY DEF PromiseIsRecord
  <2>1. promise[q] \in Response /\ promise[q] = record[KeyOf[q]] /\ Buffered(q)
    BY Marks DEF HttpInv, PromiseIsRecord, Buffered
  <2>2. KeyOf[q] \in Keys /\ record[KeyOf[q]] # NoResponse
    BY <2>1, Marks DEF HttpInv, PromisesOfLeaders
  <2> QED BY <2>1, <2>2
<1>4. InFlightEntryIsLive'
  BY DEF HttpInv, TypeOK, InFlightEntryIsLive
<1>5. \A q \in Requests : promise[q] = Rejected => promise'[q] = Rejected
  BY Marks
<1>6. \A q \in Requests : pc[q] = "lost" => pc'[q] = "lost"
  OBVIOUS
<1>7. \A k \in Keys : Failed(k) => Failed(k)'
  BY <1>5, <1>6 DEF Failed, OfKey
<1>8. \A k \in Keys : Settled(k) => Settled(k)'
  BY <1>7 DEF Settled
<1>9. RanSettled'
  <2> SUFFICES ASSUME NEW q \in ran, KeyOf[q] \in Keys, inFlight[KeyOf[q]] = q
               PROVE  Settled(KeyOf[q])' \/ inFlight'[KeyOf[q]] = q
    BY <1>8 DEF HttpInv, RanSettled
  <2>1. q \in Requests /\ q # None
    BY RequestAssumption DEF HttpInv, TypeOK
  <2>2. CASE inFlight'[KeyOf[q]] # None
    BY <2>2
  <2>3. CASE inFlight'[KeyOf[q]] = None
    BY <2>1, <2>3 DEF Settled, Failed, OfKey
  <2> QED BY <2>2, <2>3
<1>10. ReplayMatchesRecord'
  <2> SUFFICES ASSUME NEW q \in Requests, answer'[q] # NoResponse, answer'[q].by # q,
                      answer'[q] = answer[q]
               PROVE  KeyOf[q] \in Keys /\ answer'[q] = record'[KeyOf[q]]
    BY DEF ReplayMatchesRecord
  <2> QED BY DEF HttpInv, ReplayMatchesRecord
<1>11. RerunOnlyAfterFailure'
  <2>1. \A k \in Keys : \A q, s \in ran \cap OfKey(k) : q # s => Failed(k)
    BY DEF HttpInv, RerunOnlyAfterFailure, Failed
  <2>2. \A k \in Keys : \A q, s \in ran \cap OfKey(k) : q # s => Failed(k)'
    BY <2>1, <1>7
  <2> QED BY <2>2 DEF RerunOnlyAfterFailure, Failed, OfKey
<1> QED BY <1>1, <1>2, <1>3, <1>4, <1>9, <1>10, <1>11 DEF HttpInv

\* jsonResponse on the socket's response, of a request that made no promise.
LEMMA PlainEndInv ==
  ASSUME HttpInv, NEW r \in Requests, NEW resp \in Response,
         resp.by = r \/ (KeyOf[r] \in Keys /\ resp = record[KeyOf[r]]),
         NEW pcs \in {pc, [pc EXCEPT ![r] = "over"]},
         pcs = pc \/ pc[r] \in {"reading", "waiting", "leading", "running"},
         ~Buffered(r),
         PlainEnd(r, resp, pcs), persistFailures' \in 0..MaxPersistFailures,
         aborted' \in [Requests -> {"no", "timeout", "cancelled"}],
         UNCHANGED <<waitsOn, ran, crashes>>
  PROVE  HttpInv'
<1>t. TypeOK
  BY DEF HttpInv
<1>1. /\ inFlight' = inFlight
      /\ pc' = pcs
      /\ res' = IF Writable(r) THEN [res EXCEPT ![r] = "ended"] ELSE res
      /\ answer' = IF Writable(r) THEN [answer EXCEPT ![r] = resp] ELSE answer
      /\ UNCHANGED <<record, promise>>
  BY DEF PlainEnd, EndTurn
<1>2. TypeOK'
  BY <1>t, <1>1 DEF TypeOK
<1>3. \A q \in Requests : pc[q] \in {"leading", "over", "lost"} => pc'[q] = pc[q]
  BY <1>t, <1>1 DEF TypeOK, HttpInv, PromisesOfLeaders
<1>4. \A q \in Requests : pc'[q] \in {"leading", "waiting"} => pc[q] = pc'[q]
  BY <1>t, <1>1 DEF TypeOK
<1>5. \A q \in Requests : pc'[q] = "waiting" => waitsOn'[q] # None
  BY <1>4 DEF HttpInv, WaitsOnLeader
<1>6. \A q \in Requests : answer'[q] # answer[q] /\ answer'[q].by # q =>
        KeyOf[q] \in Keys /\ answer'[q] = record[KeyOf[q]]
  BY <1>t, <1>1 DEF TypeOK
<1> QED BY <1>1, <1>2, <1>3, <1>4, <1>5, <1>6, QuietStep

\* A read of the table that throws.
LEMMA ReadFailed ==
  ASSUME TypeOK, NEW r \in Requests, ReadFails(r)
  PROVE  /\ PlainEnd(r, R(r, "error"), [pc EXCEPT ![r] = "over"])
         /\ persistFailures' \in 0..MaxPersistFailures
BY RequestAssumption DEF ReadFails, TypeOK

\* A leader's buffered response ends, by its handler or by its timer.
LEMMA BufferedEndInv ==
  ASSUME HttpInv, NEW r \in Requests, NEW kind \in Kinds,
         NEW p \in {promise[r], FinalizeError(r)},
         NEW inTimer \in BOOLEAN,
         NEW pcs \in {pc, [pc EXCEPT ![r] = "over"]},
         pcs = pc \/ pc[r] \in {"leading", "running"},
         Buffered(r),
         BufferedEnd(r, kind, p, inTimer, pcs),
         aborted' \in [Requests -> {"no", "timeout", "cancelled"}],
         UNCHANGED <<waitsOn, ran, crashes>>
  PROVE  HttpInv'
<1> DEFINE k == KeyOf[r]
           map == [inFlight EXCEPT ![k] = None]
           rs == IF Writable(r) THEN [res EXCEPT ![r] = "ended"] ELSE res
<1>t. TypeOK /\ k \in Keys
  BY DEF HttpInv, PromisesOfLeaders
<1>1. PICK ok \in BOOLEAN, inserted \in BOOLEAN :
        /\ ok => inserted
        /\ ok \/ persistFailures < MaxPersistFailures
        /\ persistFailures' = IF ok THEN persistFailures ELSE persistFailures + 1
        /\ record' = Store(k, R(r, kind), inserted)
        /\ promise' = [promise EXCEPT ![r] = SettledBy(p, record'[k], ok)]
        /\ answer' = IF Writable(r) THEN [answer EXCEPT ![r] = R(r, kind)] ELSE answer
        /\ EndTurn(\/ Unhandled(r, promise[r], promise'[r])
                   \/ (inTimer /\ answer[r] # NoResponse), map, pcs, rs)
  BY DEF BufferedEnd, MapAfter
<1> HIDE DEF k, map, rs
<1>2. R(r, kind) \in Response /\ R(r, kind).by = r
  BY AnswerOf
<1>3. /\ record' \in [Keys -> Response \cup {NoResponse}]
      /\ \A j \in Keys : record[j] # NoResponse => record'[j] = record[j]
      /\ ok => record'[k] \in Response
  BY <1>t, <1>1, <1>2, StoredRow
<1>4. /\ promise[r] # Pending => p = promise[r]
      /\ promise[r] = Pending => p \in {Pending, Rejected}
  BY FinalizedPromise, <1>t
<1>5. /\ promise[r] # Pending => promise'[r] = promise[r]
      /\ promise[r] = Pending => promise'[r] = Rejected \/ (ok /\ promise'[r] = record'[k])
  BY <1>t, <1>1, <1>4, Marks DEF SettledBy, TypeOK
<1>6. promise[r] \in Response => promise[r] = record[k] /\ record[k] # NoResponse
  BY Marks DEF HttpInv, PromiseIsRecord, k
<1>7. promise'[r] \in Response => promise'[r] = record'[k]
  BY <1>t, <1>3, <1>5, <1>6, Marks
<1>8. promise'[r] # NoPromise /\ promise'[r] \in Response \cup {Rejected}
  BY <1>t, <1>3, <1>5, Marks DEF Buffered, TypeOK
<1>9. Settled(k)'
  <2>1. CASE promise'[r] = Rejected
    BY <2>1 DEF Settled, Failed, OfKey, k
  <2>2. CASE promise'[r] \in Response
    BY <2>2, <1>7, Marks DEF Settled
  <2> QED BY <1>8, <2>1, <2>2
<1>10. /\ map \in [Keys -> Requests \cup {None}]
       /\ map[k] = None
       /\ \A j \in Keys \ {k} : map[j] = inFlight[j]
  BY <1>t DEF TypeOK, map
<1>11. /\ pcs \in [Requests -> {"new", "reading", "waiting", "leading", "running", "over", "lost"}]
       /\ \A q \in Requests : pcs[q] = pc[q] \/ (q = r /\ pcs[q] = "over" /\ pc[q] \in {"leading", "running"})
  BY <1>t DEF TypeOK
<1>12. rs \in [Requests -> {"none", "open", "ended", "finished", "closed"}]
  BY <1>t DEF TypeOK, rs
<1>13. PICK dies \in BOOLEAN : EndTurn(dies, map, pcs, rs)
  BY <1>1 DEF EndTurn
<1>14. /\ inFlight' \in [Keys -> Requests \cup {None}]
       /\ pc' \in [Requests -> {"new", "reading", "waiting", "leading", "running", "over", "lost"}]
       /\ res' \in [Requests -> {"none", "open", "ended", "finished", "closed"}]
       /\ \A q \in Requests : pc'[q] = pcs[q] \/ pc'[q] = "lost"
       /\ \A j \in Keys : inFlight'[j] # None => inFlight'[j] = map[j] /\ pc' = pcs
       /\ \A j \in Keys : inFlight'[j] # map[j] /\ map[j] # None /\ pcs[map[j]] = "leading"
                        => pc'[map[j]] = "lost"
  BY <1>10, <1>11, <1>12, <1>13, TurnEnded
<1>15. TypeOK'
  <2>1. persistFailures' \in 0..MaxPersistFailures
    BY <1>t, <1>1, RequestAssumption DEF TypeOK
  <2>2. promise' \in [Requests -> Response \cup {NoPromise, Pending, Rejected}]
    BY <1>t, <1>1, <1>8 DEF TypeOK
  <2>3. answer' \in [Requests -> Response \cup {NoResponse}]
    BY <1>t, <1>1, <1>2 DEF TypeOK
  <2> QED BY <1>t, <1>3, <1>14, <2>1, <2>2, <2>3 DEF TypeOK
<1>16. \A j \in Keys : inFlight[j] # None =>
         inFlight[j] \in Requests /\ KeyOf[inFlight[j]] = j /\ pc[inFlight[j]] = "leading"
  BY <1>t DEF HttpInv, InFlightEntryIsLive, TypeOK
<1>17. \A j \in Keys : inFlight'[j] # None =>
         /\ inFlight'[j] = inFlight[j]
         /\ inFlight[j] # r
         /\ \A q \in Requests \ {r} : pc'[q] = pc[q]
  BY <1>10, <1>11, <1>14, <1>16 DEF k
<1>18. \A j \in Keys : inFlight[j] # None /\ inFlight'[j] = None =>
         Settled(j)' \/ pc'[inFlight[j]] = "lost"
  <2> SUFFICES ASSUME NEW j \in Keys, inFlight[j] # None, inFlight'[j] = None, j # k
               PROVE  pc'[inFlight[j]] = "lost"
    BY <1>9
  <2>1. map[j] = inFlight[j] /\ inFlight[j] # r /\ pcs[map[j]] = "leading"
    BY <1>10, <1>11, <1>16 DEF k
  <2> QED BY <2>1, <1>14
<1>19. \A q \in Requests : answer'[q] # answer[q] => q = r /\ answer'[q].by = q
  BY <1>t, <1>1, <1>2 DEF TypeOK
<1>20. /\ \A q \in Requests : pc'[q] \in {pc[q], "lost"} \/ (q = r /\ pc'[q] = "over")
       /\ pc'[r] = "over" => pc[r] \in {"leading", "running", "over"}
  BY <1>11, <1>14
<1>21. \A q \in Requests \ {r} : promise'[q] = promise[q]
  BY <1>t, <1>1 DEF TypeOK
<1> QED BY <1>3, <1>5, <1>7, <1>8, <1>15, <1>17, <1>18, <1>19, <1>20, <1>21, SettlingStep DEF k

\* The handler or the timer answers, into whichever response the request has.
LEMMA RespondInv ==
  ASSUME HttpInv, NEW r \in Requests, NEW kind \in Kinds,
         NEW p \in {promise[r], FinalizeError(r)},
         NEW inTimer \in BOOLEAN,
         NEW pcs \in {pc, [pc EXCEPT ![r] = "over"]},
         pcs = pc \/ pc[r] \in {"leading", "running"},
         Respond(r, kind, p, inTimer, pcs),
         aborted' \in [Requests -> {"no", "timeout", "cancelled"}],
         UNCHANGED <<waitsOn, ran, crashes>>
  PROVE  HttpInv'
<1>1. CASE Buffered(r) /\ BufferedEnd(r, kind, p, inTimer, pcs)
  BY <1>1, BufferedEndInv
<1>2. CASE ~Buffered(r) /\ PlainEnd(r, R(r, kind), pcs) /\ UNCHANGED persistFailures
  <2>1. R(r, kind) \in Response /\ R(r, kind).by = r
    BY AnswerOf
  <2>2. persistFailures' \in 0..MaxPersistFailures
    BY <1>2 DEF HttpInv, TypeOK
  <2> QED BY <1>2, <2>1, <2>2, PlainEndInv
<1> QED BY <1>1, <1>2 DEF Respond

\* A waiter whose promise is settled gets a recorded answer, or finds its
\* leader rejected and the key without a record.
LEMMA ResumedWaiter ==
  ASSUME HttpInv, NEW r \in Requests, Resumable(r)
  PROVE  /\ KeyOf[r] \in Keys
         /\ ~Buffered(r)
         /\ ReplayRecord(r) # NoResponse =>
              ReplayRecord(r) \in Response /\ ReplayRecord(r) = record[KeyOf[r]]
         /\ ReplayRecord(r) = NoResponse =>
              record[KeyOf[r]] = NoResponse /\ Failed(KeyOf[r])
<1> DEFINE l == waitsOn[r]
<1>1. pc[r] = "waiting" /\ promise[l] # Pending
  BY DEF Resumable
<1>2. /\ l \in Requests
      /\ KeyOf[r] \in Keys
      /\ promise[l] # NoPromise
      /\ KeyOf[l] = KeyOf[r]
  BY <1>1 DEF HttpInv, TypeOK, WaitsOnLeader, Buffered
<1>3. ~Buffered(r)
  BY <1>1 DEF HttpInv, PromisesOfLeaders
<1>4. promise[l] \in Response \cup {Rejected} /\ record[KeyOf[r]] \in Response \cup {NoResponse}
  BY <1>1, <1>2 DEF HttpInv, TypeOK
<1>5. CASE promise[l] = Rejected
  <2>1. Failed(KeyOf[r])
    BY <1>2, <1>5 DEF Failed, OfKey
  <2> QED BY <1>2, <1>3, <1>4, <1>5, <2>1, Marks DEF ReplayRecord
<1>6. CASE promise[l] \in Response
  <2>1. ReplayRecord(r) = promise[l] /\ promise[l] = record[KeyOf[r]]
    BY <1>2, <1>6, Marks DEF ReplayRecord, HttpInv, PromiseIsRecord
  <2> QED BY <1>2, <1>3, <1>6, <2>1, Marks
<1> QED BY <1>4, <1>5, <1>6

\* A request becomes the leader of a key that nobody leads.
LEMMA PrepareLeadInv ==
  ASSUME HttpInv, NEW r \in Requests, PrepareLead(r)
  PROVE  HttpInv'
<1> DEFINE k == KeyOf[r]
<1>t. TypeOK
  BY DEF HttpInv
<1>1. /\ pc[r] = "reading"
      /\ k \in Keys
      /\ record[k] = NoResponse
      /\ inFlight[k] = None
      /\ pc' = [pc EXCEPT ![r] = "leading"]
      /\ inFlight' = [inFlight EXCEPT ![k] = r]
      /\ promise' = [promise EXCEPT ![r] = Pending]
      /\ ran' = ran \cup {r}
      /\ UNCHANGED <<record, waitsOn, res, aborted, answer, persistFailures, crashes>>
  BY DEF PrepareLead, Leads
<1>2. ~Buffered(r)
  BY <1>1 DEF HttpInv, PromisesOfLeaders
<1>3. TypeOK'
  BY <1>t, <1>1 DEF TypeOK
<1>4. /\ \A q \in Requests \ {r} : promise'[q] = promise[q] /\ pc'[q] = pc[q]
      /\ promise'[r] = Pending /\ pc'[r] = "leading"
      /\ \A j \in Keys \ {k} : inFlight'[j] = inFlight[j]
      /\ inFlight'[k] = r
  BY <1>t, <1>1 DEF TypeOK
<1>5. PromisesOfLeaders'
  BY <1>1, <1>4, Marks DEF HttpInv, PromisesOfLeaders, Buffered
<1>6. WaitsOnLeader'
  BY <1>1, <1>4, Marks DEF HttpInv, WaitsOnLeader, Buffered
<1>7. PromiseIsRecord'
  BY <1>1, <1>4, Marks DEF HttpInv, PromiseIsRecord
<1>8. InFlightEntryIsLive'
  BY <1>t, <1>1, <1>4 DEF HttpInv, TypeOK, InFlightEntryIsLive
<1>9. \A j \in Keys : Failed(j) => Failed(j)'
  BY <1>1, <1>2, <1>4, Marks DEF Failed, OfKey, Buffered
<1>10. \A q \in ran : KeyOf[q] = k => Failed(k)
  BY <1>t, <1>1, RequestAssumption DEF HttpInv, TypeOK, RanSettled, Settled
<1>11. RanSettled'
  BY <1>t, <1>1, <1>4, <1>9, <1>10 DEF HttpInv, TypeOK, RanSettled, Settled
<1>12. ReplayMatchesRecord'
  BY <1>1 DEF HttpInv, ReplayMatchesRecord
<1>13. RerunOnlyAfterFailure'
  <2> SUFFICES ASSUME NEW j \in Keys, NEW q \in ran' \cap OfKey(j), NEW s \in ran' \cap OfKey(j), q # s
               PROVE  Failed(j)'
    BY DEF RerunOnlyAfterFailure, Failed, OfKey
  <2>1. CASE q \in ran /\ s \in ran
    BY <2>1, <1>9 DEF HttpInv, RerunOnlyAfterFailure, Failed
  <2>2. CASE q = r \/ s = r
    BY <2>2, <1>1, <1>9, <1>10 DEF OfKey
  <2> QED BY <2>1, <2>2, <1>1
<1> QED BY <1>3, <1>5, <1>6, <1>7, <1>8, <1>11, <1>12, <1>13 DEF HttpInv

\* A waiter answers with the record, or starts its handler after its leader
\* was rejected.
LEMMA ResumeInv ==
  ASSUME HttpInv, NEW r \in Requests, Resume(r)
  PROVE  HttpInv'
<1>t. TypeOK
  BY DEF HttpInv
<1>1. Resumable(r) /\ pc[r] = "waiting" /\ UNCHANGED <<waitsOn, aborted, crashes>>
  BY DEF Resume, Resumable
<1>2. CASE /\ ReplayRecord(r) # NoResponse
           /\ PlainEnd(r, ReplayRecord(r), [pc EXCEPT ![r] = "over"])
           /\ UNCHANGED <<ran, persistFailures>>
  <2>1. /\ KeyOf[r] \in Keys
        /\ ~Buffered(r)
        /\ ReplayRecord(r) \in Response
        /\ ReplayRecord(r) = record[KeyOf[r]]
    BY <1>1, <1>2, ResumedWaiter
  <2>2. aborted' \in [Requests -> {"no", "timeout", "cancelled"}]
    BY <1>t, <1>1 DEF TypeOK
  <2>3. persistFailures' \in 0..MaxPersistFailures
    BY <1>t, <1>2 DEF TypeOK
  <2> QED BY <1>1, <1>2, <2>1, <2>2, <2>3, PlainEndInv
<1>3. CASE /\ ReplayRecord(r) = NoResponse
           /\ pc' = [pc EXCEPT ![r] = "running"]
           /\ ran' = ran \cup {r}
           /\ UNCHANGED <<record, inFlight, promise, res, answer, persistFailures>>
  <2>1. KeyOf[r] \in Keys /\ ~Buffered(r) /\ Failed(KeyOf[r])
    BY <1>1, <1>3, ResumedWaiter
  <2>2. TypeOK'
    BY <1>t, <1>1, <1>3 DEF TypeOK
  <2>3. \A q \in Requests : pc'[q] = pc[q] \/ (q = r /\ pc'[q] = "running")
    BY <1>t, <1>3 DEF TypeOK
  <2>4. PromisesOfLeaders' /\ WaitsOnLeader'
    BY <1>1, <1>3, <2>1, <2>3 DEF HttpInv, PromisesOfLeaders, WaitsOnLeader, Buffered
  <2>5. PromiseIsRecord' /\ ReplayMatchesRecord'
    BY <1>3 DEF HttpInv, PromiseIsRecord, ReplayMatchesRecord
  <2>6. InFlightEntryIsLive'
    BY <1>t, <1>1, <1>3, <2>3 DEF HttpInv, TypeOK, InFlightEntryIsLive
  <2>7. \A j \in Keys : Failed(j) => Failed(j)'
    BY <1>1, <1>3, <2>3 DEF Failed, OfKey
  <2>8. RanSettled'
    BY <1>t, <1>3, <2>1, <2>7 DEF HttpInv, TypeOK, RanSettled, Settled
  <2>9. RerunOnlyAfterFailure'
    <3> SUFFICES ASSUME NEW j \in Keys, NEW q \in ran' \cap OfKey(j), NEW s \in ran' \cap OfKey(j), q # s
                 PROVE  Failed(j)'
      BY DEF RerunOnlyAfterFailure, Failed, OfKey
    <3>1. CASE q \in ran /\ s \in ran
      BY <3>1, <2>7 DEF HttpInv, RerunOnlyAfterFailure, Failed
    <3>2. CASE q = r \/ s = r
      BY <3>2, <2>1, <2>7 DEF OfKey
    <3> QED BY <3>1, <3>2, <1>3
  <2> QED BY <2>2, <2>4, <2>5, <2>6, <2>8, <2>9 DEF HttpInv
<1>4. CASE ReadFails(r) /\ UNCHANGED ran
  <2>1. ~Buffered(r) /\ R(r, "error") \in Response /\ R(r, "error").by = r
    BY <1>1, ResumedWaiter, AnswerOf DEF Kinds
  <2>2. aborted' \in [Requests -> {"no", "timeout", "cancelled"}]
    BY <1>t, <1>1 DEF TypeOK
  <2>3. /\ PlainEnd(r, R(r, "error"), [pc EXCEPT ![r] = "over"])
        /\ persistFailures' \in 0..MaxPersistFailures
    BY <1>t, <1>4, ReadFailed
  <2> QED BY <1>1, <1>4, <2>1, <2>2, <2>3, PlainEndInv
<1> QED BY <1>2, <1>3, <1>4 DEF Resume

\* A handler that aborts rejects the promise it has, if that is unsettled.
LEMMA HandlerAbortsInv ==
  ASSUME HttpInv, NEW r \in Requests, HandlerAborts(r)
  PROVE  HttpInv'
<1> DEFINE pcs == [pc EXCEPT ![r] = "over"]
<1>t. TypeOK
  BY DEF HttpInv
<1>1. /\ pc[r] \in {"leading", "running"}
      /\ promise' = [promise EXCEPT ![r] = FinalizeError(r)]
      /\ UNCHANGED <<record, waitsOn, aborted, answer, ran, persistFailures, crashes>>
  BY DEF HandlerAborts
<1>2. PICK dies \in BOOLEAN : EndTurn(dies, FinalizeMap(r), pcs, res)
  BY DEF HandlerAborts, EndTurn
<1>3. promise'[r] = IF promise[r] = Pending THEN Rejected ELSE promise[r]
  BY <1>t, <1>1, FinalizedPromise DEF TypeOK
<1>4. \A q \in Requests \ {r} : promise'[q] = promise[q]
  BY <1>t, <1>1 DEF TypeOK
<1>5. /\ FinalizeMap(r) \in [Keys -> Requests \cup {None}]
      /\ \A j \in Keys : FinalizeMap(r)[j] = inFlight[j] \/ (j = KeyOf[r] /\ promise[r] = Pending)
      /\ promise[r] = Pending => \A j \in Keys : j = KeyOf[r] => FinalizeMap(r)[j] = None
  BY <1>t, FinalizedPromise DEF TypeOK, FinalizeMap
<1>6. /\ pcs \in [Requests -> {"new", "reading", "waiting", "leading", "running", "over", "lost"}]
      /\ \A q \in Requests \ {r} : pcs[q] = pc[q]
      /\ pcs[r] = "over"
  BY <1>t DEF TypeOK
<1>r. res \in [Requests -> {"none", "open", "ended", "finished", "closed"}]
  BY <1>t DEF TypeOK
<1> HIDE DEF pcs
<1>7. /\ inFlight' \in [Keys -> Requests \cup {None}]
      /\ pc' \in [Requests -> {"new", "reading", "waiting", "leading", "running", "over", "lost"}]
      /\ res' \in [Requests -> {"none", "open", "ended", "finished", "closed"}]
      /\ \A q \in Requests : pc'[q] = pcs[q] \/ pc'[q] = "lost"
      /\ \A j \in Keys : inFlight'[j] # None => inFlight'[j] = FinalizeMap(r)[j] /\ pc' = pcs
      /\ \A j \in Keys : inFlight'[j] # FinalizeMap(r)[j] /\ FinalizeMap(r)[j] # None
                         /\ pcs[FinalizeMap(r)[j]] = "leading"
                       => pc'[FinalizeMap(r)[j]] = "lost"
  BY <1>2, <1>5, <1>6, <1>r, TurnEnded
<1>8. TypeOK'
  <2>1. promise' \in [Requests -> Response \cup {NoPromise, Pending, Rejected}]
    BY <1>t, <1>1, FinalizedPromise DEF TypeOK
  <2> QED BY <1>t, <1>1, <1>7, <2>1 DEF TypeOK
<1>9. \A j \in Keys : inFlight[j] # None =>
        /\ inFlight[j] \in Requests
        /\ KeyOf[inFlight[j]] = j
        /\ pc[inFlight[j]] = "leading"
        /\ promise[inFlight[j]] = Pending
  BY <1>t DEF HttpInv, InFlightEntryIsLive, TypeOK
<1>10. \A j \in Keys : inFlight'[j] # None =>
         /\ inFlight'[j] = inFlight[j]
         /\ inFlight[j] # r
         /\ \A q \in Requests \ {r} : pc'[q] = pc[q]
  BY <1>5, <1>6, <1>7, <1>9
<1>11. \A j \in Keys : inFlight[j] # None /\ inFlight'[j] = None =>
         Settled(j)' \/ pc'[inFlight[j]] = "lost"
  <2> SUFFICES ASSUME NEW j \in Keys, inFlight[j] # None, inFlight'[j] = None
               PROVE  Settled(j)' \/ pc'[inFlight[j]] = "lost"
    OBVIOUS
  <2>1. CASE j = KeyOf[r] /\ promise[r] = Pending
    BY <2>1, <1>3 DEF Settled, Failed, OfKey
  <2>2. CASE ~(j = KeyOf[r] /\ promise[r] = Pending)
    <3>1. FinalizeMap(r)[j] = inFlight[j] /\ inFlight[j] # r
      BY <2>2, <1>5, <1>9
    <3> QED BY <3>1, <1>6, <1>7, <1>9
  <2> QED BY <2>1, <2>2
<1>12. promise'[r] \in Response => promise'[r] = record'[KeyOf[r]]
  BY <1>1, <1>3, Marks DEF HttpInv, PromiseIsRecord
<1>13. promise'[r] = NoPromise => promise[r] = NoPromise
  BY <1>3, Marks
<1>14. \A q \in Requests : pc'[q] \in {pc[q], "lost"} \/ (q = r /\ pc'[q] = "over")
  BY <1>6, <1>7
<1> QED BY <1>1, <1>3, <1>4, <1>8, <1>10, <1>11, <1>12, <1>13, <1>14, SettlingStep

\* A crash empties the map and loses who was under way.
LEMMA CrashInv ==
  ASSUME HttpInv, Crash
  PROVE  HttpInv'
<1>t. TypeOK
  BY DEF HttpInv
<1>0. crashes' \in 0..MaxCrashes
  BY <1>t, RequestAssumption DEF Crash, TypeOK
<1>1. /\ EndTurn(TRUE, inFlight, pc, res)
      /\ UNCHANGED <<record, promise, waitsOn, aborted, answer, ran, persistFailures>>
  BY DEF Crash
<1>2. /\ inFlight' \in [Keys -> Requests \cup {None}]
      /\ pc' \in [Requests -> {"new", "reading", "waiting", "leading", "running", "over", "lost"}]
      /\ res' \in [Requests -> {"none", "open", "ended", "finished", "closed"}]
      /\ \A q \in Requests : pc'[q] = pc[q] \/ pc'[q] = "lost"
      /\ \A j \in Keys : inFlight'[j] # inFlight[j] /\ inFlight[j] # None
                         /\ pc[inFlight[j]] = "leading"
                       => pc'[inFlight[j]] = "lost"
  BY <1>t, <1>1, TurnEnded DEF TypeOK
<1>3. inFlight' = [j \in Keys |-> None]
  BY <1>1 DEF EndTurn
<1>4. TypeOK'
  BY <1>t, <1>0, <1>1, <1>2 DEF TypeOK
<1>5. \A j \in Keys : inFlight[j] # None =>
        inFlight[j] \in Requests /\ KeyOf[inFlight[j]] = j /\ pc[inFlight[j]] = "leading"
  BY <1>t DEF HttpInv, InFlightEntryIsLive, TypeOK
<1>6. CASE Requests = {}
  <2>1. ran = {} /\ ran' = {} /\ \A j \in Keys : inFlight'[j] = None
    BY <1>t, <1>1, <1>3, <1>6 DEF TypeOK
  <2> QED BY <1>4, <1>6, <2>1 DEF HttpInv, PromisesOfLeaders, WaitsOnLeader, PromiseIsRecord,
             InFlightEntryIsLive, RanSettled, ReplayMatchesRecord, RerunOnlyAfterFailure
<1>7. CASE Requests # {}
  <2>1. PICK r \in Requests : TRUE
    BY <1>7
  <2>2. promise[r] \in Response => promise[r] = record[KeyOf[r]]
    BY DEF HttpInv, PromiseIsRecord
  <2>3. pc'[r] = "over" => pc[r] \in {"leading", "running", "over"}
    BY <1>2
  <2>4. \A j \in Keys : inFlight[j] # None /\ inFlight'[j] = None => pc'[inFlight[j]] = "lost"
    BY <1>2, <1>5
  <2> QED BY <1>1, <1>2, <1>3, <1>4, <2>2, <2>3, <2>4, SettlingStep
<1> QED BY <1>6, <1>7

\* Every other step of a request starts no handler of a keyed request and
\* settles nothing.
LEMMA OtherStepsInv ==
  ASSUME HttpInv, NEW r \in Requests,
         \/ Arrive(r) \/ PrepareUnkeyed(r) \/ PrepareWait(r)
         \/ Finish(r) \/ Close(r)
  PROVE  HttpInv'
<1>t. TypeOK
  BY DEF HttpInv
<1>1. UNCHANGED <<record, inFlight, promise, ran, answer, persistFailures, crashes>>
  BY DEF Arrive, PrepareUnkeyed, PrepareWait, Finish, Close
<1>2. CASE PrepareWait(r)
  <2>1. /\ pc[r] = "reading"
        /\ KeyOf[r] \in Keys
        /\ inFlight[KeyOf[r]] \in Requests
        /\ pc' = [pc EXCEPT ![r] = "waiting"]
        /\ waitsOn' = [waitsOn EXCEPT ![r] = inFlight[KeyOf[r]]]
        /\ UNCHANGED <<res, aborted>>
    BY <1>t, <1>2 DEF PrepareWait, TypeOK
  <2>2. Buffered(inFlight[KeyOf[r]]) /\ KeyOf[inFlight[KeyOf[r]]] = KeyOf[r]
    BY <2>1, Marks, RequestAssumption DEF HttpInv, InFlightEntryIsLive, Buffered
  <2>3. TypeOK'
    BY <1>t, <1>1, <2>1 DEF TypeOK
  <2>4. \A q \in Requests \ {r} : pc'[q] = pc[q] /\ waitsOn'[q] = waitsOn[q]
    BY <1>t, <2>1 DEF TypeOK
  <2>5. pc'[r] = "waiting" /\ waitsOn'[r] = inFlight[KeyOf[r]] /\ waitsOn'[r] # None
    BY <1>t, <2>1, RequestAssumption DEF TypeOK
  <2>6. \A q \in Requests : pc'[q] = "waiting" => waitsOn'[q] # None
    BY <2>4, <2>5 DEF HttpInv, WaitsOnLeader
  <2> QED BY <1>1, <2>1, <2>2, <2>3, <2>4, <2>5, <2>6, QuietStep
<1>3. CASE Arrive(r) \/ PrepareUnkeyed(r) \/ Finish(r) \/ Close(r)
  <2>1. TypeOK'
    BY <1>t, <1>1, <1>3 DEF TypeOK, Arrive, PrepareUnkeyed, Finish, Close
  <2>2. \A q \in Requests :
          pc'[q] = pc[q] \/ (pc[q] \in {"new", "reading"} /\ pc'[q] \in {"reading", "running"})
    BY <1>t, <1>3 DEF TypeOK, Arrive, PrepareUnkeyed, Finish, Close
  <2>3. UNCHANGED waitsOn
    BY <1>3 DEF Arrive, PrepareUnkeyed, Finish, Close
  <2>4. \A q \in Requests : pc'[q] = "waiting" => waitsOn'[q] # None
    BY <2>2, <2>3 DEF HttpInv, WaitsOnLeader
  <2> QED BY <1>1, <2>1, <2>2, <2>3, <2>4, QuietStep
<1> QED BY <1>2, <1>3

\* Every step keeps the invariant.
LEMMA NextHttp == HttpInv /\ [Next]_vars => HttpInv'
<1> SUFFICES ASSUME HttpInv, [Next]_vars PROVE HttpInv' OBVIOUS
<1>t. TypeOK
  BY DEF HttpInv
<1>1. CASE UNCHANGED vars
  BY <1>1 DEF vars, HttpInv, TypeOK, PromisesOfLeaders, WaitsOnLeader, PromiseIsRecord,
     InFlightEntryIsLive, RanSettled, Settled, Failed, OfKey, ReplayMatchesRecord,
     RerunOnlyAfterFailure, Buffered
<1>2. CASE Crash
  BY <1>2, CrashInv
<1>3. ASSUME NEW r \in Requests, Step(r) PROVE HttpInv'
  <2>1. CASE Arrive(r) \/ PrepareUnkeyed(r) \/ PrepareWait(r) \/ Finish(r) \/ Close(r)
    BY <2>1, OtherStepsInv
  <2>2. CASE PrepareReplay(r)
    <3>1. /\ pc[r] = "reading"
          /\ record[KeyOf[r]] \in Response
          /\ KeyOf[r] \in Keys
          /\ PlainEnd(r, record[KeyOf[r]], [pc EXCEPT ![r] = "over"])
          /\ persistFailures' \in 0..MaxPersistFailures
          /\ UNCHANGED <<waitsOn, aborted, ran, crashes>>
      BY <1>t, <2>2 DEF PrepareReplay, TypeOK
    <3>2. ~Buffered(r)
      BY <3>1 DEF HttpInv, PromisesOfLeaders
    <3>3. aborted' \in [Requests -> {"no", "timeout", "cancelled"}]
      BY <1>t, <3>1 DEF TypeOK
    <3> QED BY <3>1, <3>2, <3>3, PlainEndInv
  <2>8. CASE PrepareFails(r)
    <3>1. /\ pc[r] = "reading"
          /\ PlainEnd(r, R(r, "error"), [pc EXCEPT ![r] = "over"])
          /\ persistFailures' \in 0..MaxPersistFailures
          /\ UNCHANGED <<waitsOn, aborted, ran, crashes>>
      BY <1>t, <2>8, ReadFailed DEF PrepareFails
    <3>2. ~Buffered(r) /\ R(r, "error") \in Response /\ R(r, "error").by = r
      BY <3>1, AnswerOf DEF HttpInv, PromisesOfLeaders, Kinds
    <3>3. aborted' \in [Requests -> {"no", "timeout", "cancelled"}]
      BY <1>t, <3>1 DEF TypeOK
    <3> QED BY <3>1, <3>2, <3>3, PlainEndInv
  <2>3. CASE PrepareLead(r)
    BY <2>3, PrepareLeadInv
  <2>4. CASE Resume(r)
    BY <2>4, ResumeInv
  <2>5. CASE HandlerDone(r) \/ HandlerThrow(r) \/ HandlerTimesOutEarly(r)
    <3>1. PICK kind \in Kinds, p \in {promise[r], FinalizeError(r)} :
            Respond(r, kind, p, FALSE, [pc EXCEPT ![r] = "over"])
      BY <2>5 DEF HandlerDone, HandlerThrow, HandlerTimesOutEarly, Kinds
    <3>2. pc[r] \in {"leading", "running"} /\ UNCHANGED <<waitsOn, aborted, ran, crashes>>
      BY <2>5 DEF HandlerDone, HandlerThrow, HandlerTimesOutEarly
    <3>3. aborted' \in [Requests -> {"no", "timeout", "cancelled"}]
      BY <1>t, <3>2 DEF TypeOK
    <3> QED BY <3>1, <3>2, <3>3, RespondInv
  <2>6. CASE HandlerAborts(r)
    BY <2>6, HandlerAbortsInv
  <2>7. CASE Timeout(r)
    <3>1. /\ Respond(r, "timeout", promise[r], TRUE, pc)
          /\ UNCHANGED <<waitsOn, ran, crashes>>
          /\ "timeout" \in Kinds
          /\ aborted' \in [Requests -> {"no", "timeout", "cancelled"}]
      BY <1>t, <2>7 DEF Timeout, TypeOK, Kinds
    <3> QED BY <3>1, RespondInv
  <2> QED BY <1>3, <2>1, <2>2, <2>3, <2>4, <2>5, <2>6, <2>7, <2>8 DEF Step
<1> QED BY <1>1, <1>2, <1>3 DEF Next

-----------------------------------------------------------------------------
(* The theorems *)

\* Whatever fails when, every reachable state satisfies the invariant.
LEMMA HttpInvariant == Spec => []HttpInv
<1>1. HttpInv /\ [Next]_vars => HttpInv'
  BY NextHttp
<1> QED BY InitHttp, <1>1, PTL DEF Spec

\* The table, the map, the promises and the sockets keep their types: a promise
\* is never resolved with the null that a lost row would read back as.
THEOREM HttpTypeCorrect == Spec => []TypeOK
<1>1. HttpInv => TypeOK BY DEF HttpInv
<1> QED BY HttpInvariant, <1>1, PTL

\* What a request is answered with is the recorded answer of its key, or an
\* answer of its own, however timers, waiters, late handlers and crashes
\* interleave.
THEOREM ReplaysAreRecorded == Spec => []ReplayMatchesRecord
<1>1. HttpInv => ReplayMatchesRecord BY DEF HttpInv
<1> QED BY HttpInvariant, <1>1, PTL

\* Whoever finds an entry in the in-flight map waits for a leader that can
\* still settle its promise, although the finally block deletes whatever entry
\* the key has.
THEOREM EntriesAreLive == Spec => []InFlightEntryIsLive
<1>1. HttpInv => InFlightEntryIsLive BY DEF HttpInv
<1> QED BY HttpInvariant, <1>1, PTL

\* A handler runs for a second request of a key only after a leader of the key
\* was rejected or lost with the process.
THEOREM RerunsFollowFailures == Spec => []RerunOnlyAfterFailure
<1>1. HttpInv => RerunOnlyAfterFailure BY DEF HttpInv
<1> QED BY HttpInvariant, <1>1, PTL

\* No step starts a handler for a key that has a record.
THEOREM RecordEndsRuns == Spec => NoRunAfterRecord
<1>1. HttpInv /\ [Next]_vars
        => [\A r \in ran' \ ran : record[KeyOf[r]] = NoResponse]_vars
  <2> SUFFICES ASSUME HttpInv, Next, NEW r \in ran' \ ran
               PROVE  record[KeyOf[r]] = NoResponse
    OBVIOUS
  <2>1. CASE Crash
    BY <2>1 DEF Crash
  <2>2. ASSUME NEW q \in Requests, Step(q) PROVE record[KeyOf[r]] = NoResponse
    <3>1. CASE PrepareLead(q)
      BY <3>1 DEF PrepareLead, Leads
    <3>2. CASE Resume(q)
      <4>1. Resumable(q)
        BY <3>2 DEF Resume
      <4>2. r = q /\ ReplayRecord(q) = NoResponse
        BY <3>2 DEF Resume
      <4> QED BY <4>1, <4>2, ResumedWaiter
    <3>3. CASE ~PrepareLead(q) /\ ~Resume(q)
      BY <2>2, <3>3 DEF Step, Arrive, PrepareFails, PrepareUnkeyed, PrepareReplay, PrepareWait,
         HandlerDone, HandlerThrow, HandlerTimesOutEarly, HandlerAborts, Timeout, Finish, Close
    <3> QED BY <3>1, <3>2, <3>3
  <2> QED BY <2>1, <2>2 DEF Next
<1> QED BY HttpInvariant, <1>1, PTL DEF Spec, NoRunAfterRecord
=============================================================================
