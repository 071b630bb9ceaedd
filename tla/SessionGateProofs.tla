-------------------------- MODULE SessionGateProofs --------------------------
(***************************************************************************)
(* The gate keeps what its callers rely on, for every set of calls and     *)
(* every assignment to sessions: one work per session at a time, and works *)
(* of one session in the order of their arrival.                           *)
(***************************************************************************)
EXTENDS SessionGate, TLAPS

GateTypeOK ==
  /\ phase \in [Calls -> {"new", "waiting", "working", "done"}]
  /\ earlier \in [Calls -> SUBSET Calls]

\* Of two calls of one session that have arrived, one came before the other.
Ordered ==
  \A c, d \in Calls :
    c # d /\ SessionOf[c] = SessionOf[d] /\ phase[c] # "new" /\ phase[d] # "new"
      => c \in earlier[d] \/ d \in earlier[c]

\* Who came earlier has arrived, and is over before a later work begins.
InTurn ==
  \A c \in Calls : \A d \in earlier[c] :
    /\ phase[c] # "new"
    /\ phase[d] # "new"
    /\ phase[c] \in {"working", "done"} => phase[d] = "done"

GateInv == GateTypeOK /\ Ordered /\ InTurn

\* The works of one session run one at a time.
OneWorkPerSession ==
  \A c, d \in Calls :
    SessionOf[c] = SessionOf[d] /\ phase[c] = "working" /\ phase[d] = "working" => c = d

\* When a work begins, the other calls of its session that wait came after it:
\* nobody who waits is overtaken.
NoOvertaking ==
  [][ \A c, d \in Calls :
        /\ phase[d] = "waiting" /\ phase'[d] = "working"
        /\ SessionOf[c] = SessionOf[d] /\ phase[c] = "waiting" /\ c # d
        => d \in earlier[c] ]_gateVars

LEMMA GateInitInv == GateInit => GateInv
BY DEF GateInit, GateInv, GateTypeOK, Ordered, InTurn

LEMMA GateArriveInv ==
  ASSUME GateInv, NEW c \in Calls, GateArrive(c)
  PROVE  GateInv'
<1>1. GateTypeOK'
  BY DEF GateInv, GateTypeOK, GateArrive, SameSessionArrived
<1>2. /\ \A d \in Calls \ {c} : phase'[d] = phase[d] /\ earlier'[d] = earlier[d]
      /\ phase[c] = "new" /\ phase'[c] = "waiting"
      /\ earlier'[c] = SameSessionArrived(c)
  BY DEF GateInv, GateTypeOK, GateArrive
<1>3. Ordered'
  BY <1>2 DEF GateInv, Ordered, SameSessionArrived
<1>4. InTurn'
  BY <1>1, <1>2 DEF GateInv, GateTypeOK, InTurn, SameSessionArrived
<1> QED  BY <1>1, <1>3, <1>4 DEF GateInv

LEMMA GateEnterInv ==
  ASSUME GateInv, NEW c \in Calls, GateEnter(c)
  PROVE  GateInv'
<1>1. GateTypeOK'
  BY DEF GateInv, GateTypeOK, GateEnter
<1>2. /\ \A d \in Calls \ {c} : phase'[d] = phase[d]
      /\ phase[c] = "waiting" /\ phase'[c] = "working"
      /\ \A d \in earlier[c] : phase[d] = "done"
      /\ earlier' = earlier
  BY DEF GateInv, GateTypeOK, GateEnter
<1>3. Ordered'
  BY <1>2 DEF GateInv, Ordered
<1>4. InTurn'
  BY <1>2 DEF GateInv, GateTypeOK, InTurn
<1> QED  BY <1>1, <1>3, <1>4 DEF GateInv

LEMMA GateLeaveInv ==
  ASSUME GateInv, NEW c \in Calls, GateLeave(c)
  PROVE  GateInv'
<1>1. GateTypeOK'
  BY DEF GateInv, GateTypeOK, GateLeave
<1>2. /\ \A d \in Calls \ {c} : phase'[d] = phase[d]
      /\ phase[c] = "working" /\ phase'[c] = "done"
      /\ earlier' = earlier
  BY DEF GateInv, GateTypeOK, GateLeave
<1>3. Ordered'
  BY <1>2 DEF GateInv, Ordered
<1>4. InTurn'
  BY <1>2 DEF GateInv, GateTypeOK, InTurn
<1> QED  BY <1>1, <1>3, <1>4 DEF GateInv

LEMMA GateNextInv == GateInv /\ [GateNext]_gateVars => GateInv'
<1>1. ASSUME GateInv, UNCHANGED gateVars  PROVE GateInv'
  BY <1>1 DEF GateInv, GateTypeOK, Ordered, InTurn, gateVars
<1> QED  BY <1>1, GateArriveInv, GateEnterInv, GateLeaveInv DEF GateNext

\* What runInSingleMachineRuntimeSession is for: no two works of one session
\* overlap.  Of two that have arrived one came before the other, and the later
\* one begins when the earlier is over.
THEOREM GateExcludes == GateSpec => []OneWorkPerSession
<1>1. GateInv => OneWorkPerSession
  BY DEF GateInv, Ordered, InTurn, OneWorkPerSession
<1> QED  BY <1>1, GateInitInv, GateNextInv, PTL DEF GateSpec

\* First come, first served: a work begins only if every other call of its
\* session that waits came after it.
THEOREM GateInOrder == GateSpec => NoOvertaking
<1>1. GateInv /\ [GateNext]_gateVars =>
        [ \A c, d \in Calls :
            /\ phase[d] = "waiting" /\ phase'[d] = "working"
            /\ SessionOf[c] = SessionOf[d] /\ phase[c] = "waiting" /\ c # d
            => d \in earlier[c] ]_gateVars
  <2>1. SUFFICES ASSUME GateInv, GateNext, NEW c \in Calls, NEW d \in Calls,
                        phase[d] = "waiting", phase'[d] = "working",
                        SessionOf[c] = SessionOf[d], phase[c] = "waiting", c # d
                 PROVE  d \in earlier[c]
    OBVIOUS
  <2>2. c \in earlier[d] \/ d \in earlier[c]
    BY <2>1 DEF GateInv, Ordered
  <2>3. \A e \in earlier[d] : phase[e] = "done"
    BY <2>1 DEF GateInv, GateTypeOK, GateNext, GateArrive, GateEnter, GateLeave
  <2> QED  BY <2>1, <2>2, <2>3
<1> QED  BY <1>1, GateInitInv, GateNextInv, PTL DEF GateSpec, NoOvertaking
=============================================================================
