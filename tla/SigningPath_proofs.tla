------------------------- MODULE SigningPath_proofs -------------------------
(* Theorems about SigningPath, for all calls, attempts, links and numbers of failures. *)
EXTENDS SigningPath, SequenceTheorems, FiniteSetTheorems, TLAPS

Asked(c) == calls[c].stage # "idle"

\* A response says that a transaction was signed only when it was.
IsTrue(payload) == payload.kind = "signed" => signed[payload.call] > 0

TrackerItem   == [id : Nat, connection : Connection]
RequestFrame  == [id : Nat, call : Call]
ResponseFrame == [id : Nat, payload : Payload]

AskedConnection == {k \in Connection : Asked(k[1])}
AskedFrame      == {frame \in RequestFrame : Asked(frame.call)}
TruePayload     == {payload \in Payload : IsTrue(payload)}
TrueFrame       == {frame \in ResponseFrame : IsTrue(frame.payload)}

CallInv ==
  /\ calls \in [Call -> [stage : CallStage, attempt : Nat]]
  /\ signed \in [Call -> Nat]

ConcentInv ==
  /\ handler \in [Connection -> HandlerState]
  /\ \A k \in Connection : handler[k] # "none" => k \in AskedConnection
  /\ requests \in Seq(AskedConnection)
  /\ responses \in [Connection -> Seq(TruePayload)]

LinkRecord == [state : LinkState, index : Nat, next : Nat]

LinkInv ==
  /\ tracker \in Seq(TrackerItem)
  /\ links \in [Link -> LinkRecord]
  /\ active \in BOOLEAN
  /\ candidates \in Seq(Link)
  /\ ActiveIsServed

WireInv ==
  /\ ConnectionTypeOK
  /\ link \in {0} \union Link
  /\ down \in Seq(AskedFrame)
  /\ up \in [Link -> Seq(TrueFrame)]

\* Every connection, request and frame is of a call that was begun, and every response,
\* wherever it is and whomever it reaches, is true.
PathInv == CallInv /\ ConcentInv /\ LinkInv /\ WireInv

-----------------------------------------------------------------------------
(* Connections and sequences. *)

LEMMA ConnectionsAreOfCalls ==
  /\ \A k \in Connection : k[1] \in Call
  /\ \A c \in Call : \A a \in 1..MaxAttempts[c] : <<c, a>> \in Connection /\ <<c, a>>[1] = c
  BY DEF Connection

LEMMA FirstConnection == \A c \in Call : <<c, 1>> \in Connection
  <1>1. \A c \in Call : 1 \in 1..MaxAttempts[c]
    BY SigningAssumption DEF SigningAssumption
  <1> QED
    BY <1>1, ConnectionsAreOfCalls

LEMMA RemovedIsSequence ==
  ASSUME NEW S, NEW s \in Seq(S), NEW i \in 0..Len(s)
  PROVE  RemoveAt(s, i) \in Seq(S)
  <1>1. SubSeq(s, 1, i - 1) \in Seq(S) /\ SubSeq(s, i + 1, Len(s)) \in Seq(S)
    BY SubSeqProperties
  <1> QED
    BY <1>1, ConcatProperties DEF RemoveAt

LEMMA LaterIsSequence ==
  ASSUME NEW S, NEW s \in Seq(S), NEW i \in 1..Len(s)
  PROVE  SubSeq(s, i + 1, Len(s)) \in Seq(S)
  BY SubSeqProperties

LEMMA PlaceIsInTracker ==
  ASSUME NEW id, Tracked(id)
  PROVE  PlaceOf(id) \in 1..Len(tracker)
  BY DEF Tracked, PlaceOf

LEMMA TrackIsTyped ==
  ASSUME tracker \in Seq(TrackerItem), NEW id \in Nat, NEW k \in Connection
  PROVE  Track(id, k) \in Seq(TrackerItem)
  <1>1. CASE Tracked(id)
    <2> DEFINE i == PlaceOf(id)
               item == [tracker[i] EXCEPT !.connection = k]
    <2>1. i \in 1..Len(tracker)
      BY <1>1, PlaceIsInTracker
    <2>2. item \in TrackerItem
      <3>1. tracker[i] \in TrackerItem
        BY <2>1, ElementOfSeq
      <3> QED
        BY <3>1 DEF TrackerItem
    <2>3. Track(id, k) = [tracker EXCEPT ![i].connection = k]
      BY <1>1 DEF Track
    <2>4. [tracker EXCEPT ![i].connection = k] = [tracker EXCEPT ![i] = item]
      OBVIOUS
    <2> QED
      BY <2>1, <2>2, <2>3, <2>4, ExceptSeq
  <1>2. CASE ~Tracked(id)
    <2>1. [id |-> id, connection |-> k] \in TrackerItem
      BY DEF TrackerItem
    <2> QED
      BY <1>2, <2>1, AppendProperties DEF Track
  <1> QED
    BY <1>1, <1>2

-----------------------------------------------------------------------------
(* What was asked for and what was signed stays so. *)

\* The calls after a step of a caller or a delivery.
LEMMA CallsOfAStep ==
  ASSUME TypeOK, NEW c \in Call,
         \/ BeginCall(c)
         \/ RetryCall(c)
         \/ GiveUp(c)
         \/ SeeDisconnection(c)
         \/ \E payload \in Payload : ReceiveAnswer(c, payload)
  PROVE  /\ calls' \in [Call -> [stage : CallStage, attempt : Nat]]
         /\ calls'[c].stage # "idle"
         /\ \A d \in Call : d # c => calls'[d] = calls[d]
  <1>1. calls \in [Call -> [stage : CallStage, attempt : Nat]]
    BY DEF TypeOK
  <1>2. CASE BeginCall(c)
    BY <1>1, <1>2 DEF BeginCall, CallStage
  <1>3. CASE RetryCall(c)
    BY <1>1, <1>3 DEF RetryCall, TimesOut, CallStage
  <1>4. CASE GiveUp(c)
    BY <1>1, <1>4 DEF GiveUp, CallStage
  <1>5. CASE SeeDisconnection(c)
    BY <1>1, <1>5 DEF SeeDisconnection, CallStage
  <1>6. ASSUME NEW payload \in Payload, ReceiveAnswer(c, payload)
        PROVE  /\ calls' \in [Call -> [stage : CallStage, attempt : Nat]]
               /\ calls'[c].stage # "idle"
               /\ \A d \in Call : d # c => calls'[d] = calls[d]
    BY <1>1, <1>6 DEF ReceiveAnswer, CallStage
  <1> QED
    BY <1>2, <1>3, <1>4, <1>5, <1>6

\* What a step does to the calls and to the history.
LEMMA StepKinds ==
  ASSUME TypeOK, [Next]_vars
  PROVE  \/ /\ signed' = signed
            /\ \E c \in Call :
                 \/ BeginCall(c)
                 \/ RetryCall(c)
                 \/ GiveUp(c)
                 \/ SeeDisconnection(c)
                 \/ \E payload \in Payload : ReceiveAnswer(c, payload)
         \/ Serve
         \/ UNCHANGED <<calls, signed>>
  <1>1. ASSUME NEW c \in Call, Caller(c)
        PROVE  /\ signed' = signed
               /\ BeginCall(c) \/ RetryCall(c) \/ GiveUp(c) \/ SeeDisconnection(c)
    BY <1>1 DEF Caller, Ask, Retry, TimeOut, Disconnect
  <1>2. ASSUME NEW k \in Connection, ConnectionStep(k)
        PROVE  /\ signed' = signed
               /\ calls' = calls \/ \E payload \in Payload : ReceiveAnswer(k[1], payload)
    <2>1. CASE ReadRequest(k) \/ Release(k)
      BY <2>1 DEF ReadRequest, Release
    <2>2. CASE Deliver(k)
      <3>1. Head(responses[k]) \in Payload
        BY <2>2, HeadTailProperties DEF Deliver, ConsumeResponse, TypeOK
      <3> QED
        BY <2>2, <3>1 DEF Deliver
    <2> QED
      BY <1>2, <2>1, <2>2 DEF ConnectionStep
  <1>3. ASSUME NEW l \in Link, LinkStep(l) PROVE UNCHANGED <<calls, signed>>
    BY <1>3 DEF LinkStep, Connect, Pass, Return, Decide, EndLink
  <1>4. CASE Answer \/ LeaveLink \/ StartService \/ RestartMiddleMan
    BY <1>4 DEF Answer, LeaveLink, StartService, RestartMiddleMan
  <1>5. CASE UNCHANGED vars
    BY <1>5 DEF vars
  <1> QED
    BY <1>1, <1>2, <1>3, <1>4, <1>5, ConnectionsAreOfCalls DEF Next

LEMMA NothingIsTakenBack ==
  ASSUME TypeOK, [Next]_vars
  PROVE  /\ calls' \in [Call -> [stage : CallStage, attempt : Nat]]
         /\ signed' \in [Call -> Nat]
         /\ \A c \in Call : Asked(c) => Asked(c)'
         /\ \A c \in Call : signed[c] > 0 => signed'[c] > 0
  <1>1. /\ calls \in [Call -> [stage : CallStage, attempt : Nat]]
        /\ signed \in [Call -> Nat]
    BY DEF TypeOK
  <1>2. CASE Serve
    <2>1. calls' = calls
      BY <1>2 DEF Serve, Respond
    <2>2. CASE signed' = signed
      BY <1>1, <2>1, <2>2 DEF Asked
    <2>3. ASSUME NEW c, signed' = [signed EXCEPT ![c] = @ + 1]
          PROVE  /\ signed' \in [Call -> Nat]
                 /\ \A d \in Call : signed[d] > 0 => signed'[d] > 0
      <3>1. CASE c \in Call
        BY <1>1, <2>3, <3>1
      <3>2. CASE c \notin Call
        BY <1>1, <2>3, <3>2
      <3> QED
        BY <3>1, <3>2
    <2> QED
      BY <1>1, <1>2, <2>1, <2>2, <2>3 DEF Serve, Asked
  <1>3. CASE UNCHANGED <<calls, signed>>
    BY <1>1, <1>3 DEF Asked
  <1> QED
    BY <1>1, <1>2, <1>3, StepKinds, CallsOfAStep DEF Asked

LEMMA SetsGrow ==
  ASSUME TypeOK, [Next]_vars
  PROVE  /\ AskedConnection \subseteq AskedConnection'
         /\ AskedFrame \subseteq AskedFrame'
         /\ TruePayload \subseteq TruePayload'
         /\ TrueFrame \subseteq TrueFrame'
  <1> USE NothingIsTakenBack
  <1>1. AskedConnection \subseteq AskedConnection'
    BY ConnectionsAreOfCalls DEF AskedConnection
  <1>2. AskedFrame \subseteq AskedFrame'
    BY DEF AskedFrame, RequestFrame
  <1>3. \A payload \in Payload : IsTrue(payload) => IsTrue(payload)'
    BY DEF IsTrue, Payload
  <1> QED
    BY <1>1, <1>2, <1>3 DEF TruePayload, TrueFrame, ResponseFrame

-----------------------------------------------------------------------------
LEMMA PathIsTyped == PathInv => TypeOK
  <1> SUFFICES ASSUME PathInv PROVE TypeOK
    OBVIOUS
  <1>1. requests \in Seq(Connection)
    BY SeqMonotonic DEF PathInv, ConcentInv, AskedConnection
  <1>2. responses \in [Connection -> Seq(Payload)]
    <2>1. TruePayload \subseteq Payload
      BY DEF TruePayload
    <2>2. \A k \in Connection : responses[k] \in Seq(Payload)
      BY <2>1, SeqMonotonic DEF PathInv, ConcentInv
    <2> QED
      BY <2>2 DEF PathInv, ConcentInv
  <1>3. down \in Seq(RequestFrame)
    BY SeqMonotonic DEF PathInv, WireInv, AskedFrame
  <1>4. up \in [Link -> Seq(ResponseFrame)]
    <2>1. \A l \in Link : up[l] \in Seq(ResponseFrame)
      BY SeqMonotonic DEF PathInv, WireInv, TrueFrame
    <2> QED
      BY <2>1 DEF PathInv, WireInv
  <1> QED
    BY <1>1, <1>2, <1>3, <1>4
    DEF TypeOK, PathInv, CallInv, ConcentInv, LinkInv, WireInv, TrackerItem, LinkRecord,
        RequestFrame, ResponseFrame

LEMMA InitIsKept == Init => PathInv
  <1> SUFFICES ASSUME Init PROVE PathInv
    OBVIOUS
  <1> USE EmptySeq
  <1>1. CallInv
    BY DEF Init, SciInit, CallInv, CallStage
  <1>2. ConcentInv
    BY DEF Init, MiddleManInit, ConcentInv, HandlerState
  <1>3. LinkInv
    BY DEF Init, MiddleManInit, LinkInv, LinkRecord, LinkState, NewLink, ActiveIsServed
  <1>4. WireInv
    BY DEF Init, ConnectionInit, WireInv, ConnectionTypeOK, Phase
  <1> QED
    BY <1>1, <1>2, <1>3, <1>4 DEF PathInv

LEMMA SequencesGrow ==
  ASSUME PathInv, [Next]_vars
  PROVE  /\ requests \in Seq(AskedConnection')
         /\ \A k \in Connection : responses[k] \in Seq(TruePayload')
         /\ down \in Seq(AskedFrame')
         /\ \A l \in Link : up[l] \in Seq(TrueFrame')
  BY PathIsTyped, SetsGrow, SeqMonotonic DEF PathInv, ConcentInv, WireInv

\* A connection that is accepted is of a call that is waiting.
LEMMA AcceptedIsAsked ==
  ASSUME PathInv, NEW c \in Call, Ask(c) \/ Retry(c)
  PROVE  \E a \in 1..MaxAttempts[c] :
           /\ AcceptConnection(<<c, a>>)
           /\ <<c, a>> \in AskedConnection'
  <1>1. Asked(c)'
    BY PathIsTyped, CallsOfAStep DEF Ask, Retry, Asked
  <1>2. PICK a \in 1..MaxAttempts[c] : AcceptConnection(<<c, a>>)
    <2>1. CASE Ask(c)
      BY <2>1, SigningAssumption DEF SigningAssumption, Ask
    <2>2. CASE Retry(c)
      <3>1. calls[c].attempt \in Nat /\ MaxAttempts[c] \in Nat
        BY SigningAssumption DEF PathInv, CallInv, SigningAssumption
      <3>2. calls[c].attempt + 1 \in 1..MaxAttempts[c]
        BY <2>2, <3>1 DEF Retry, RetryCall
      <3> QED
        BY <2>2, <3>2 DEF Retry
    <2> QED
      BY <2>1, <2>2
  <1> QED
    BY <1>1, <1>2, ConnectionsAreOfCalls DEF AskedConnection

-----------------------------------------------------------------------------
(* The connections of Concent. *)

LEMMA RequestsAreKept ==
  ASSUME PathInv, [Next]_vars
  PROVE  /\ handler' \in [Connection -> HandlerState]
         /\ \A k \in Connection : handler'[k] # "none" => k \in AskedConnection'
         /\ requests' \in Seq(AskedConnection')
  <1> USE SequencesGrow
  <1>1. AskedConnection \subseteq AskedConnection'
    BY PathIsTyped, SetsGrow
  <1>2. /\ handler \in [Connection -> HandlerState]
        /\ \A k \in Connection : handler[k] # "none" => k \in AskedConnection'
    BY <1>1 DEF PathInv, ConcentInv
  <1>3. CASE UNCHANGED <<handler, requests>>
    BY <1>2, <1>3
  <1>4. ASSUME NEW c \in Call, Ask(c) \/ Retry(c)
        PROVE  /\ handler' \in [Connection -> HandlerState]
               /\ \A k \in Connection : handler'[k] # "none" => k \in AskedConnection'
               /\ requests' = requests
    <2>1. PICK a \in 1..MaxAttempts[c] :
            AcceptConnection(<<c, a>>) /\ <<c, a>> \in AskedConnection'
      BY <1>4, AcceptedIsAsked
    <2> QED
      BY <2>1, <1>2 DEF AcceptConnection, HandlerState
  <1>5. ASSUME NEW k \in Connection, ReadRequest(k)
        PROVE  /\ handler' = [handler EXCEPT ![k] = "reading"]
               /\ requests' \in Seq(AskedConnection')
               /\ k \in AskedConnection'
    <2>1. k \in AskedConnection'
      BY <1>2, <1>5 DEF ReadRequest, ProduceRequest
    <2> QED
      BY <1>5, <2>1, AppendProperties DEF ReadRequest, ProduceRequest
  <1>6. ASSUME NEW k \in Connection, Release(k)
        PROVE  /\ handler' = [handler EXCEPT ![k] = "gone"]
               /\ requests' = requests
               /\ k \in AskedConnection'
    BY <1>2, <1>6 DEF Release, ReleaseConnection
  <1>7. ASSUME NEW l \in Link, Pass(l)
        PROVE  handler' = handler /\ requests' \in Seq(AskedConnection')
    BY <1>7, HeadTailProperties DEF Pass, ConsumeRequest, Take
  <1>8. CASE RestartMiddleMan
    <2>1. /\ handler' = [k \in Connection |-> IF InPool(k) THEN "gone" ELSE handler[k]]
          /\ requests' = <<>>
      BY <1>8 DEF RestartMiddleMan, Restart
    <2> QED
      BY <2>1, <1>2, EmptySeq DEF HandlerState, InPool
  <1>9. \/ \E c \in Call : Ask(c) \/ Retry(c)
        \/ \E k \in Connection : ReadRequest(k) \/ Release(k)
        \/ \E l \in Link : Pass(l)
        \/ RestartMiddleMan
        \/ UNCHANGED <<handler, requests>>
    <2>1. ASSUME NEW c \in Call, TimeOut(c) \/ Disconnect(c) PROVE UNCHANGED <<handler, requests>>
      BY <2>1 DEF TimeOut, Disconnect, mmVars, concentSide
    <2>2. ASSUME NEW k \in Connection, Deliver(k) PROVE UNCHANGED <<handler, requests>>
      BY <2>2 DEF Deliver, ConsumeResponse
    <2>3. ASSUME NEW l \in Link, Connect(l) \/ Return(l) \/ Decide(l) \/ EndLink(l)
          PROVE  UNCHANGED <<handler, requests>>
      BY <2>3 DEF Connect, AcceptLink, Return, ProduceResponse, Decide, Admit, Refuse, EndLink,
                  LoseCandidate, FinishAborted, EndService, concentSide
    <2>4. CASE Answer \/ LeaveLink \/ StartService \/ Serve \/ UNCHANGED vars
      BY <2>4 DEF Answer, ReceiveReply, LeaveLink, StartService, Serve, Respond, vars, mmVars,
                  concentSide
    <2> QED
      BY <2>1, <2>2, <2>3, <2>4 DEF Next, Caller, ConnectionStep, LinkStep
  <1> QED
    BY <1>2, <1>3, <1>4, <1>5, <1>6, <1>7, <1>8, <1>9 DEF HandlerState

LEMMA ResponsesAreKept ==
  ASSUME PathInv, [Next]_vars
  PROVE  responses' \in [Connection -> Seq(TruePayload')]
  <1> USE SequencesGrow
  <1>1. responses \in [Connection -> Seq(TruePayload')]
    BY DEF PathInv, ConcentInv
  <1>2. CASE UNCHANGED responses
    BY <1>1, <1>2
  <1>3. ASSUME NEW k \in Connection, Deliver(k) PROVE responses' \in [Connection -> Seq(TruePayload')]
    <2>1. responses[k] # <<>> /\ responses' = [responses EXCEPT ![k] = Tail(@)]
      BY <1>3 DEF Deliver, ConsumeResponse
    <2>2. Tail(responses[k]) \in Seq(TruePayload')
      BY <2>1, HeadTailProperties
    <2> QED
      BY <1>1, <2>1, <2>2
  <1>4. ASSUME NEW l \in Link, Return(l) PROVE responses' \in [Connection -> Seq(TruePayload')]
    <2> DEFINE frame == Head(up[l])
               k == tracker[PlaceOf(frame.id)].connection
    <2>1. \/ responses' = responses
          \/ responses' = [responses EXCEPT ![k] = Append(@, frame.payload)]
      BY <1>4 DEF Return, ProduceResponse
    <2>2. frame.payload \in TruePayload'
      <3>1. up[l] # <<>>
        BY <1>4 DEF Return
      <3>2. frame \in TrueFrame'
        BY <3>1, HeadTailProperties
      <3> QED
        BY <3>2 DEF TrueFrame, TruePayload, ResponseFrame
    <2>3. CASE k \in Connection
      <3>1. Append(responses[k], frame.payload) \in Seq(TruePayload')
        BY <2>2, <2>3, AppendProperties
      <3> QED
        BY <1>1, <2>1, <2>3, <3>1
    <2>4. CASE k \notin Connection
      BY <1>1, <2>1, <2>4
    <2> QED
      BY <2>3, <2>4
  <1>5. CASE RestartMiddleMan
    BY <1>5, EmptySeq DEF RestartMiddleMan, Restart
  <1>6. \/ \E k \in Connection : Deliver(k)
        \/ \E l \in Link : Return(l)
        \/ RestartMiddleMan
        \/ UNCHANGED responses
    <2>1. ASSUME NEW c \in Call, Caller(c) PROVE UNCHANGED responses
      BY <2>1 DEF Caller, Ask, Retry, AcceptConnection, TimeOut, Disconnect, mmVars, concentSide
    <2>2. ASSUME NEW k \in Connection, ReadRequest(k) \/ Release(k) PROVE UNCHANGED responses
      BY <2>2 DEF ReadRequest, ProduceRequest, Release, ReleaseConnection
    <2>3. ASSUME NEW l \in Link, Connect(l) \/ Pass(l) \/ Decide(l) \/ EndLink(l)
          PROVE  UNCHANGED responses
      BY <2>3 DEF Connect, AcceptLink, Pass, ConsumeRequest, Decide, Admit, Refuse, EndLink,
                  LoseCandidate, FinishAborted, EndService, concentSide
    <2>4. CASE Answer \/ LeaveLink \/ StartService \/ Serve \/ UNCHANGED vars
      BY <2>4 DEF Answer, ReceiveReply, LeaveLink, StartService, Serve, Respond, vars, mmVars,
                  concentSide
    <2> QED
      BY <2>1, <2>2, <2>3, <2>4 DEF Next, ConnectionStep, LinkStep
  <1> QED
    BY <1>2, <1>3, <1>4, <1>5, <1>6

-----------------------------------------------------------------------------
(* The links. *)

LEMMA TrackerIsKept ==
  ASSUME PathInv, [Next]_vars
  PROVE  tracker' \in Seq(TrackerItem)
  <1>1. tracker \in Seq(TrackerItem)
    BY DEF PathInv, LinkInv
  <1>2. CASE UNCHANGED tracker
    BY <1>1, <1>2
  <1>3. ASSUME NEW l \in Link, Pass(l) PROVE tracker' \in Seq(TrackerItem)
    <2>1. requests # <<>>
      BY <1>3 DEF Pass, ConsumeRequest
    <2>2. Head(requests) \in Connection
      BY <2>1, PathIsTyped, HeadTailProperties DEF TypeOK
    <2>3. links[l].next + 1 \in Nat
      BY DEF PathInv, LinkInv, LinkRecord
    <2>4. tracker' = Track(links[l].next + 1, Head(requests)) \/ tracker' = tracker
      BY <1>3 DEF Pass, ConsumeRequest, NextFrame
    <2> QED
      BY <1>1, <2>2, <2>3, <2>4, TrackIsTyped
  <1>4. ASSUME NEW l \in Link, Return(l) PROVE tracker' \in Seq(TrackerItem)
    <2> DEFINE id == Head(up[l]).id
    <2>1. \/ tracker' = tracker
          \/ Tracked(id) /\ tracker' = RemoveAt(tracker, PlaceOf(id))
          \/ Tracked(id) /\ tracker' = Later(PlaceOf(id))
      BY <1>4 DEF Return, ProduceResponse
    <2>2. Tracked(id) => PlaceOf(id) \in 1..Len(tracker) /\ PlaceOf(id) \in 0..Len(tracker)
      BY <1>1, PlaceIsInTracker, LenProperties
    <2> QED
      BY <1>1, <2>1, <2>2, RemovedIsSequence, LaterIsSequence DEF Later
  <1>5. CASE RestartMiddleMan
    BY <1>5, EmptySeq DEF RestartMiddleMan, Restart
  <1>6. \/ \E l \in Link : Pass(l) \/ Return(l)
        \/ RestartMiddleMan
        \/ UNCHANGED tracker
    <2>1. ASSUME NEW c \in Call, Caller(c) PROVE UNCHANGED tracker
      BY <2>1 DEF Caller, Ask, Retry, AcceptConnection, TimeOut, Disconnect, mmVars
    <2>2. ASSUME NEW k \in Connection, ConnectionStep(k) PROVE UNCHANGED tracker
      BY <2>2 DEF ConnectionStep, ReadRequest, ProduceRequest, Release, ReleaseConnection,
                  Deliver, ConsumeResponse
    <2>3. ASSUME NEW l \in Link, Connect(l) \/ Decide(l) \/ EndLink(l) PROVE UNCHANGED tracker
      BY <2>3 DEF Connect, AcceptLink, Decide, Admit, Refuse, EndLink, LoseCandidate,
                  FinishAborted, EndService
    <2>4. CASE Answer \/ LeaveLink \/ StartService \/ Serve \/ UNCHANGED vars
      BY <2>4 DEF Answer, ReceiveReply, LeaveLink, StartService, Serve, Respond, vars, mmVars
    <2> QED
      BY <2>1, <2>2, <2>3, <2>4 DEF Next, LinkStep
  <1> QED
    BY <1>2, <1>3, <1>4, <1>5, <1>6

\* A change of one link that is not served; the flag may be cleared.
LEMMA OneLinkChanges ==
  ASSUME LinkInv, NEW l \in Link, ~IsServed(l) \/ active' = FALSE,
         NEW record \in LinkRecord, links' = [links EXCEPT ![l] = record],
         active' = active \/ active' = FALSE
  PROVE  links' \in [Link -> LinkRecord] /\ active' \in BOOLEAN /\ ActiveIsServed'
  <1>1. links' \in [Link -> LinkRecord] /\ active' \in BOOLEAN
    BY DEF LinkInv
  <1>2. CASE active' = FALSE
    BY <1>1, <1>2 DEF ActiveIsServed
  <1>3. CASE active' = active /\ ~IsServed(l)
    <2> SUFFICES ASSUME active PROVE \E j \in Link : IsServed(j)'
      BY <1>1, <1>3 DEF ActiveIsServed
    <2>1. PICK j \in Link : IsServed(j)
      BY DEF LinkInv, ActiveIsServed
    <2>2. j # l
      BY <1>3, <2>1
    <2>3. links'[j] = links[j]
      BY <2>2 DEF LinkInv
    <2> QED
      BY <2>1, <2>3 DEF IsServed
  <1> QED
    BY <1>1, <1>2, <1>3

LEMMA FinallyIsKept ==
  ASSUME LinkInv, NEW l \in Link, Finally(l)
  PROVE  links' \in [Link -> LinkRecord] /\ active' \in BOOLEAN /\ ActiveIsServed'
  <1>1. ClosedLink \in LinkRecord
    BY DEF ClosedLink, LinkRecord, LinkState
  <1> QED
    BY <1>1, OneLinkChanges DEF Finally

LEMMA AcceptIsKept ==
  ASSUME LinkInv, NEW l \in Link, AcceptLink(l)
  PROVE  /\ links' \in [Link -> LinkRecord] /\ active' \in BOOLEAN /\ ActiveIsServed'
         /\ candidates' \in Seq(Link)
  <1>1. links[l] \in LinkRecord /\ ~IsServed(l) /\ candidates \in Seq(Link)
    BY DEF LinkInv, AcceptLink, IsServed
  <1>2. CASE active
    <2>1. [links[l] EXCEPT !.state = "refused"] \in LinkRecord
      BY <1>1 DEF LinkRecord, LinkState
    <2>2. /\ links' = [links EXCEPT ![l] = [links[l] EXCEPT !.state = "refused"]]
          /\ active' = active
          /\ candidates' = candidates
      BY <1>2 DEF AcceptLink, LinkInv
    <2> QED
      BY <1>1, <2>1, <2>2, OneLinkChanges
  <1>3. CASE ~active
    <2> DEFINE record == [links[l] EXCEPT !.state = "challenged", !.index = Len(candidates) + 1]
    <2>1. record \in LinkRecord
      <3>1. Len(candidates) + 1 \in Nat
        BY <1>1, LenProperties
      <3> QED
        BY <1>1, <3>1 DEF LinkRecord, LinkState
    <2>2. links' = [links EXCEPT ![l] = record]
      BY <1>3 DEF AcceptLink, LinkInv
    <2>3. active' = active /\ candidates' = Append(candidates, l)
      BY <1>3 DEF AcceptLink
    <2> HIDE DEF record
    <2> QED
      BY <1>1, <2>1, <2>2, <2>3, OneLinkChanges, AppendProperties
  <1> QED
    BY <1>2, <1>3

LEMMA AdmitIsKept ==
  ASSUME LinkInv, NEW l \in Link, Admit(l)
  PROVE  /\ links' \in [Link -> LinkRecord] /\ active' \in BOOLEAN /\ ActiveIsServed'
         /\ candidates' \in Seq(Link)
  <1>1. CASE HasEntry(l)
    <2> DEFINE others == ToSet(RemoveAt(candidates, links[l].index))
               admitted == [links EXCEPT ![l] = [NewLink EXCEPT !.state = "served"]]
    <2>1. /\ links' = [j \in Link |-> IF j \in others THEN Aborted(admitted[j]) ELSE admitted[j]]
          /\ active' = TRUE
          /\ candidates' = <<>>
      BY <1>1 DEF Admit
    <2>2. admitted \in [Link -> LinkRecord]
      BY DEF LinkInv, LinkRecord, LinkState, NewLink
    <2>3. \A record \in LinkRecord : Aborted(record) \in LinkRecord
      BY DEF Aborted, LinkRecord, LinkState, NewLink
    <2>4. admitted[l].state = "served"
      BY DEF LinkInv, NewLink
    <2>5. Aborted(admitted[l]).state = "hungUp"
      <3>1. admitted[l] \in LinkRecord
        BY <2>2
      <3> QED
        BY <2>4, <3>1 DEF Aborted, LinkRecord
    <2> HIDE DEF others, admitted
    <2>6. links' \in [Link -> LinkRecord]
      BY <2>1, <2>2, <2>3
    <2>7. IsServed(l)'
      BY <2>1, <2>4, <2>5 DEF IsServed
    <2> QED
      BY <2>1, <2>6, <2>7, EmptySeq DEF ActiveIsServed
  <1>2. CASE ~HasEntry(l)
    BY <1>2, FinallyIsKept DEF Admit, LinkInv
  <1> QED
    BY <1>1, <1>2

LEMMA RefuseIsKept ==
  ASSUME LinkInv, NEW l \in Link, Refuse(l)
  PROVE  /\ links' \in [Link -> LinkRecord] /\ active' \in BOOLEAN /\ ActiveIsServed'
         /\ candidates' \in Seq(Link)
  <1>1. links' \in [Link -> LinkRecord] /\ active' \in BOOLEAN /\ ActiveIsServed'
    BY FinallyIsKept DEF Refuse
  <1>2. candidates \in Seq(Link)
    BY DEF LinkInv
  <1>3. CASE HasEntry(l)
    <2>1. links[l].index \in 0..Len(candidates)
      BY <1>2, <1>3, LenProperties DEF HasEntry, LinkInv, LinkRecord
    <2> QED
      BY <1>1, <1>2, <1>3, <2>1, RemovedIsSequence DEF Refuse
  <1>4. CASE ~HasEntry(l)
    BY <1>1, <1>2, <1>4 DEF Refuse
  <1> QED
    BY <1>3, <1>4

LEMMA LinksAreKept ==
  ASSUME PathInv, [Next]_vars
  PROVE  LinkInv'
  <1> DEFINE Kept == /\ links' \in [Link -> LinkRecord] /\ active' \in BOOLEAN /\ ActiveIsServed'
                     /\ candidates' \in Seq(Link)
  <1> SUFFICES Kept
    BY TrackerIsKept DEF LinkInv
  <1>1. LinkInv
    BY DEF PathInv
  <1>2. CASE UNCHANGED <<links, active, candidates>>
    BY <1>1, <1>2 DEF LinkInv, ActiveIsServed, IsServed
  <1>3. ASSUME NEW l \in Link, Connect(l) \/ Decide(l) \/ EndLink(l) PROVE Kept
    <2>1. CASE Connect(l)
      BY <1>1, <2>1, AcceptIsKept DEF Connect
    <2>2. CASE Decide(l)
      BY <1>1, <2>2, AdmitIsKept, RefuseIsKept DEF Decide
    <2>3. CASE EndLink(l)
      <3>1. Finally(l) /\ candidates' = candidates
        BY <2>3 DEF EndLink, LoseCandidate, FinishAborted, EndService
      <3> QED
        BY <1>1, <3>1, FinallyIsKept DEF LinkInv
    <2> QED
      BY <1>3, <2>1, <2>2, <2>3
  <1>4. CASE Answer
    <2>1. CASE UNCHANGED <<links, active, candidates>>
      BY <1>2, <2>1
    <2>2. CASE ReceiveReply(link) /\ link \in Link
      <3> DEFINE record == [links[link] EXCEPT !.state = "replied"]
      <3>1. record \in LinkRecord
        <4>1. links[link] \in LinkRecord
          BY <1>1, <2>2 DEF LinkInv
        <4> QED
          BY <4>1 DEF LinkRecord, LinkState
      <3>2. links' = [links EXCEPT ![link] = record]
        BY <2>2 DEF ReceiveReply
      <3>3. ~IsServed(link) /\ active' = active /\ candidates' = candidates
        BY <2>2 DEF ReceiveReply, IsServed
      <3> HIDE DEF record
      <3> QED
        BY <1>1, <2>2, <3>1, <3>2, <3>3, OneLinkChanges DEF LinkInv
    <2>3. CASE ReceiveReply(link) /\ link \notin Link
      BY <1>1, <1>2, <2>3 DEF ReceiveReply, LinkInv
    <2> QED
      BY <1>4, <2>1, <2>2, <2>3 DEF Answer, mmVars
  <1>5. ASSUME NEW l \in Link, Pass(l) PROVE Kept
    <2> DEFINE id == links[l].next + 1
    <2>1. /\ active' = active /\ candidates' = candidates
          /\ links' = links \/ links' = [links EXCEPT ![l].next = id]
      BY <1>5 DEF Pass, ConsumeRequest, NextFrame
    <2>2. links[l] \in LinkRecord /\ id \in Nat
      BY <1>1 DEF LinkInv, LinkRecord
    <2>3. links' \in [Link -> LinkRecord] /\ \A j \in Link : links'[j].state = links[j].state
      BY <1>1, <2>1, <2>2 DEF LinkInv, LinkRecord
    <2> QED
      BY <1>1, <2>1, <2>3 DEF LinkInv, ActiveIsServed, IsServed
  <1>6. CASE RestartMiddleMan
    <2>1. NewLink \in LinkRecord /\ ClosedLink \in LinkRecord
      BY DEF NewLink, ClosedLink, LinkRecord, LinkState
    <2> QED
      BY <1>6, <2>1, EmptySeq DEF RestartMiddleMan, Restart, ActiveIsServed
  <1>7. \/ \E l \in Link : Connect(l) \/ Decide(l) \/ EndLink(l) \/ Pass(l)
        \/ Answer
        \/ RestartMiddleMan
        \/ UNCHANGED <<links, active, candidates>>
    <2>1. ASSUME NEW c \in Call, Caller(c) PROVE UNCHANGED <<links, active, candidates>>
      BY <2>1 DEF Caller, Ask, Retry, AcceptConnection, TimeOut, Disconnect, mmVars
    <2>2. ASSUME NEW k \in Connection, ConnectionStep(k) PROVE UNCHANGED <<links, active, candidates>>
      BY <2>2 DEF ConnectionStep, ReadRequest, ProduceRequest, Release, ReleaseConnection,
                  Deliver, ConsumeResponse
    <2>3. ASSUME NEW l \in Link, Return(l) PROVE UNCHANGED <<links, active, candidates>>
      BY <2>3 DEF Return, ProduceResponse
    <2>4. CASE LeaveLink \/ StartService \/ Serve \/ UNCHANGED vars
      BY <2>4 DEF LeaveLink, StartService, Serve, Respond, vars, mmVars
    <2> QED
      BY <2>1, <2>2, <2>3, <2>4 DEF Next, LinkStep
  <1> QED
    BY <1>2, <1>3, <1>4, <1>5, <1>6, <1>7

-----------------------------------------------------------------------------
(* The signing service and what is under way. *)

LEMMA ServiceIsKept ==
  ASSUME PathInv, [Next]_vars
  PROVE  ConnectionTypeOK' /\ link' \in {0} \union Link
  <1>1. ConnectionTypeOK /\ link \in {0} \union Link
    BY DEF PathInv, WireInv
  <1>2. CASE UNCHANGED <<service, link>>
    BY <1>1, <1>2 DEF ConnectionTypeOK
  <1>3. ASSUME NEW l \in Link, Connect(l) PROVE ConnectionTypeOK' /\ link' \in {0} \union Link
    BY <1>1, <1>3 DEF Connect, OpenSocket, ConnectionTypeOK, Phase
  <1>4. CASE Answer
    BY <1>1, <1>4 DEF Answer, Authenticate, ConnectionTypeOK, Phase, wires
  <1>5. CASE LeaveLink
    BY <1>1, <1>5, ConnectionAssumption
    DEF LeaveLink, Fail, CountFailure, Stop, ConnectionTypeOK, Phase, ConnectionAssumption
  <1>6. CASE StartService
    BY <1>1, <1>6 DEF StartService, Start, ConnectionTypeOK, Phase, wires
  <1>7. \/ \E l \in Link : Connect(l)
        \/ Answer \/ LeaveLink \/ StartService
        \/ UNCHANGED <<service, link>>
    <2>1. ASSUME NEW c \in Call, Caller(c) PROVE UNCHANGED <<service, link>>
      BY <2>1 DEF Caller, Ask, Retry, TimeOut, Disconnect, wires
    <2>2. ASSUME NEW k \in Connection, ConnectionStep(k) PROVE UNCHANGED <<service, link>>
      BY <2>2 DEF ConnectionStep, ReadRequest, Deliver, Release, wires
    <2>3. ASSUME NEW l \in Link, Pass(l) \/ Return(l) \/ Decide(l) \/ EndLink(l)
          PROVE  UNCHANGED <<service, link>>
      BY <2>3 DEF Pass, Return, Decide, EndLink, wires
    <2>4. CASE Serve \/ RestartMiddleMan \/ UNCHANGED vars
      BY <2>4 DEF Serve, Respond, RestartMiddleMan, vars, wires
    <2> QED
      BY <2>1, <2>2, <2>3, <2>4 DEF Next, LinkStep
  <1> QED
    BY <1>2, <1>3, <1>4, <1>5, <1>6, <1>7

\* What a signing service does with the first frame.
LEMMA ServedFrame ==
  ASSUME PathInv, [Next]_vars, Serve
  PROVE  /\ Head(down) \in AskedFrame
         /\ down' \in Seq(AskedFrame')
         /\ up' \in [Link -> Seq(TrueFrame')]
  <1> DEFINE frame == Head(down)
  <1>1. down # <<>> /\ down \in Seq(AskedFrame) /\ down \in Seq(AskedFrame')
    BY SequencesGrow DEF Serve, PathInv, WireInv
  <1>2. frame \in AskedFrame /\ Tail(down) \in Seq(AskedFrame')
    BY <1>1, HeadTailProperties
  <1>3. frame.id \in Nat /\ frame.call \in Call
    BY <1>2 DEF AskedFrame, RequestFrame
  <1>4. PICK payload \in {Signed(frame.call), Rejected(frame.call)} :
          /\ Respond(frame, payload)
          /\ payload = Signed(frame.call) => signed' = [signed EXCEPT ![frame.call] = @ + 1]
    BY DEF Serve, Signed, Rejected
  <1>5. payload \in TruePayload'
    <2>1. CASE payload = Signed(frame.call)
      <3>1. signed'[frame.call] > 0
        BY <1>3, <1>4, <2>1 DEF PathInv, CallInv
      <3> QED
        BY <1>3, <2>1, <3>1 DEF TruePayload, Payload, Signed, IsTrue
    <2>2. CASE payload = Rejected(frame.call)
      BY <1>3, <2>2 DEF TruePayload, Payload, Rejected, IsTrue
    <2> QED
      BY <2>1, <2>2
  <1>6. [id |-> frame.id, payload |-> payload] \in TrueFrame'
    BY <1>3, <1>5 DEF TrueFrame, ResponseFrame, TruePayload
  <1> DEFINE answer == [id |-> frame.id, payload |-> payload]
  <1>7. up \in [Link -> Seq(TrueFrame')]
    BY SequencesGrow DEF PathInv, WireInv
  <1>8. down' = Tail(down) /\ (up' = up \/ up' = [up EXCEPT ![link] = Append(@, answer)])
    BY <1>4 DEF Respond
  <1>9. link \in Link => Append(up[link], answer) \in Seq(TrueFrame')
    BY <1>6, <1>7, AppendProperties
  <1> HIDE DEF answer
  <1>10. up' \in [Link -> Seq(TrueFrame')]
    BY <1>7, <1>8, <1>9
  <1> QED
    BY <1>2, <1>8, <1>10

LEMMA WiresAreKept ==
  ASSUME PathInv, [Next]_vars
  PROVE  WireInv'
  <1> DEFINE Kept == down' \in Seq(AskedFrame') /\ up' \in [Link -> Seq(TrueFrame')]
  <1> SUFFICES Kept
    BY ServiceIsKept DEF WireInv
  <1>1. down \in Seq(AskedFrame') /\ up \in [Link -> Seq(TrueFrame')]
    BY SequencesGrow DEF PathInv, WireInv
  <1>2. CASE UNCHANGED <<down, up>>
    BY <1>1, <1>2
  <1>3. CASE LeaveLink
    BY <1>1, <1>3, EmptySeq DEF LeaveLink
  <1>4. ASSUME NEW l \in Link, Pass(l) PROVE Kept
    <2>1. NextFrame(l) \in AskedFrame'
      <3>1. requests # <<>>
        BY <1>4 DEF Pass, ConsumeRequest
      <3>2. Head(requests) \in AskedConnection'
        BY <3>1, SequencesGrow, HeadTailProperties
      <3>3. links[l].next + 1 \in Nat
        BY DEF PathInv, LinkInv, LinkRecord
      <3> QED
        BY <3>2, <3>3, ConnectionsAreOfCalls
        DEF NextFrame, AskedConnection, AskedFrame, RequestFrame
    <2>2. /\ down' = down \/ down' = Append(down, NextFrame(l))
          /\ up' = up
      BY <1>4 DEF Pass
    <2> QED
      BY <1>1, <2>1, <2>2, AppendProperties
  <1>5. ASSUME NEW l \in Link, Return(l) PROVE Kept
    <2>1. /\ up[l] # <<>>
          /\ up' = [up EXCEPT ![l] = Tail(@)]
          /\ down' = down
      BY <1>5 DEF Return
    <2>2. Tail(up[l]) \in Seq(TrueFrame')
      BY <1>1, <2>1, HeadTailProperties
    <2> QED
      BY <1>1, <2>1, <2>2
  <1>6. ASSUME NEW l \in Link, EndLink(l) PROVE Kept
    BY <1>1, <1>6, EmptySeq DEF EndLink
  <1>7. CASE RestartMiddleMan
    BY <1>1, <1>7, EmptySeq DEF RestartMiddleMan
  <1>8. CASE Serve
    BY <1>8, ServedFrame
  <1>9. \/ \E l \in Link : Pass(l) \/ Return(l) \/ EndLink(l)
        \/ LeaveLink \/ RestartMiddleMan \/ Serve
        \/ UNCHANGED <<down, up>>
    <2>1. ASSUME NEW c \in Call, Caller(c) PROVE UNCHANGED <<down, up>>
      BY <2>1 DEF Caller, Ask, Retry, TimeOut, Disconnect, wires
    <2>2. ASSUME NEW k \in Connection, ConnectionStep(k) PROVE UNCHANGED <<down, up>>
      BY <2>2 DEF ConnectionStep, ReadRequest, Deliver, Release, wires
    <2>3. ASSUME NEW l \in Link, Connect(l) \/ Decide(l) PROVE UNCHANGED <<down, up>>
      BY <2>3 DEF Connect, Decide, wires
    <2>4. CASE Answer \/ StartService \/ UNCHANGED vars
      BY <2>4 DEF Answer, StartService, vars, wires
    <2> QED
      BY <2>1, <2>2, <2>3, <2>4 DEF Next, LinkStep
  <1> QED
    BY <1>2, <1>3, <1>4, <1>5, <1>6, <1>7, <1>8, <1>9

LEMMA PathIsKept == PathInv /\ [Next]_vars => PathInv'
  <1> SUFFICES ASSUME PathInv, [Next]_vars PROVE PathInv'
    OBVIOUS
  <1>1. CallInv'
    BY PathIsTyped, NothingIsTakenBack DEF CallInv
  <1>2. ConcentInv'
    BY RequestsAreKept, ResponsesAreKept DEF ConcentInv
  <1> QED
    BY <1>1, <1>2, LinksAreKept, WiresAreKept DEF PathInv

LEMMA PathInvariant == Spec => []PathInv
  BY InitIsKept, PathIsKept, PTL DEF Spec

-----------------------------------------------------------------------------
(* The promise of sci_callback(). *)

\* A call that gets a response only returns if the response is for it, and true.
LEMMA ReceivingIsAllowed ==
  ASSUME PathInv, NEW c \in Call, NEW payload \in TruePayload, ReceiveAnswer(c, payload),
         signed' = signed
  PROVE  Promise!Next
  <1>1. calls \in [Call -> [stage : CallStage, attempt : Nat]]
    BY DEF PathInv, CallInv
  <1>2. SignedCalls' = SignedCalls /\ Outcome[c] = "waiting"
    BY DEF SignedCalls, Outcome, ReceiveAnswer
  <1>3. CASE IsExpected(payload, c)
    <2>1. c \in SignedCalls
      BY <1>3 DEF IsExpected, Signed, TruePayload, IsTrue, SignedCalls
    <2>2. Outcome' = [Outcome EXCEPT ![c] = "returned"]
      BY <1>1, <1>3 DEF ReceiveAnswer, Outcome
    <2> QED
      BY <1>2, <2>1, <2>2 DEF Promise!Next, Promise!Return
  <1>4. CASE ~IsExpected(payload, c)
    <2>1. Outcome' = [Outcome EXCEPT ![c] = "raised"]
      BY <1>1, <1>4 DEF ReceiveAnswer, Outcome
    <2> QED
      BY <1>2, <2>1 DEF Promise!Next, Promise!Raise
  <1> QED
    BY <1>3, <1>4

LEMMA CallingIsAllowed ==
  ASSUME PathInv, NEW c \in Call, Caller(c)
  PROVE  Promise!Next \/ UNCHANGED <<Outcome, SignedCalls>>
  <1>1. calls \in [Call -> [stage : CallStage, attempt : Nat]]
    BY DEF PathInv, CallInv
  <1>2. SignedCalls' = SignedCalls
    BY DEF Caller, Ask, Retry, TimeOut, Disconnect, SignedCalls
  <1>3. CASE Ask(c)
    <2>1. Outcome[c] = "idle" /\ Outcome' = [Outcome EXCEPT ![c] = "waiting"]
      BY <1>1, <1>3 DEF Ask, BeginCall, Outcome
    <2> QED
      BY <1>2, <2>1 DEF Promise!Next, Promise!Ask
  <1>4. CASE Retry(c)
    <2>1. Outcome' = Outcome
      BY <1>1, <1>4 DEF Retry, RetryCall, Outcome
    <2> QED
      BY <1>2, <2>1
  <1>5. CASE TimeOut(c) \/ Disconnect(c)
    <2>1. Outcome[c] = "waiting" /\ Outcome' = [Outcome EXCEPT ![c] = "raised"]
      BY <1>1, <1>5 DEF TimeOut, Disconnect, GiveUp, TimesOut, SeeDisconnection, Outcome
    <2> QED
      BY <1>2, <2>1 DEF Promise!Next, Promise!Raise
  <1> QED
    BY <1>3, <1>4, <1>5 DEF Caller

LEMMA ServingIsAllowed ==
  ASSUME PathInv, [Next]_vars, Serve
  PROVE  Promise!Next \/ UNCHANGED <<Outcome, SignedCalls>>
  <1> DEFINE c == Head(down).call
  <1>1. c \in Call /\ Asked(c)
    BY ServedFrame DEF AskedFrame, RequestFrame
  <1>2. Outcome' = Outcome /\ Outcome[c] # "idle"
    BY <1>1 DEF Serve, Respond, Outcome, Asked
  <1>3. CASE signed' = signed
    BY <1>2, <1>3 DEF SignedCalls
  <1>4. CASE signed' = [signed EXCEPT ![c] = @ + 1]
    <2>1. SignedCalls' = SignedCalls \union {c}
      BY <1>1, <1>4 DEF SignedCalls, PathInv, CallInv
    <2> QED
      BY <1>1, <1>2, <2>1 DEF Promise!Next, Promise!Sign
  <1> QED
    BY <1>3, <1>4 DEF Serve

LEMMA StepsAreAllowed ==
  PathInv /\ [Next]_vars => [Promise!Next]_<<Outcome, SignedCalls>>
  <1> SUFFICES ASSUME PathInv, [Next]_vars
               PROVE  Promise!Next \/ UNCHANGED <<Outcome, SignedCalls>>
    OBVIOUS
  <1>1. ASSUME NEW c \in Call, Caller(c)
        PROVE  Promise!Next \/ UNCHANGED <<Outcome, SignedCalls>>
    BY <1>1, CallingIsAllowed
  <1>2. ASSUME NEW k \in Connection, Deliver(k)
        PROVE  Promise!Next \/ UNCHANGED <<Outcome, SignedCalls>>
    <2>1. CASE HoldsOpen(k)
      <3>1. Head(responses[k]) \in TruePayload
        BY <1>2, HeadTailProperties DEF Deliver, ConsumeResponse, PathInv, ConcentInv
      <3> QED
        BY <1>2, <2>1, <3>1, ConnectionsAreOfCalls, ReceivingIsAllowed DEF Deliver
    <2>2. CASE ~HoldsOpen(k)
      BY <1>2, <2>2 DEF Deliver, Outcome, SignedCalls
    <2> QED
      BY <2>1, <2>2
  <1>3. CASE Serve
    BY <1>3, ServingIsAllowed
  <1>4. CASE UNCHANGED <<calls, signed>>
    BY <1>4 DEF Outcome, SignedCalls
  <1>5. \/ \E c \in Call : Caller(c)
        \/ \E k \in Connection : Deliver(k)
        \/ Serve
        \/ UNCHANGED <<calls, signed>>
    <2>1. ASSUME NEW k \in Connection, ReadRequest(k) \/ Release(k) PROVE UNCHANGED <<calls, signed>>
      BY <2>1 DEF ReadRequest, Release
    <2>2. ASSUME NEW l \in Link, LinkStep(l) PROVE UNCHANGED <<calls, signed>>
      BY <2>2 DEF LinkStep, Connect, Pass, Return, Decide, EndLink
    <2>3. CASE Answer \/ LeaveLink \/ StartService \/ RestartMiddleMan \/ UNCHANGED vars
      BY <2>3 DEF Answer, LeaveLink, StartService, RestartMiddleMan, vars
    <2> QED
      BY <2>1, <2>2, <2>3 DEF Next, ConnectionStep
  <1> QED
    BY <1>1, <1>2, <1>3, <1>4, <1>5

\* sci_callback() returns what the service has signed for it and nothing else: however many
\* links and attempts there are, and whatever is lost or handed to the wrong connection.
THEOREM SigningIsImplemented == Spec => ImplementsSigning
  <1>1. Init => Promise!Init
    BY DEF Init, SciInit, Outcome, SignedCalls, Promise!Init
  <1> QED
    BY <1>1, PathInvariant, StepsAreAllowed, PTL DEF Spec, ImplementsSigning, Promise!Spec

\* What every part keeps has its type.
THEOREM PathIsAlwaysTyped == Spec => []TypeOK
  BY PathInvariant, PathIsTyped, PTL

\* The flag that turns the signing service away is never left set without a link that is
\* served: after any order of connections, aborted candidates and restarts the service can
\* be admitted again.
THEOREM NobodyIsLockedOut == Spec => []ActiveIsServed
  <1>1. PathInv => ActiveIsServed
    BY DEF PathInv, LinkInv
  <1> QED
    BY <1>1, PathInvariant, PTL

-----------------------------------------------------------------------------
(* No connection is answered twice. *)

IsSingle(S) == \A x, y \in S : x = y

\* Parts of a sequence: its elements, each from another place.
IsPart(t, s) ==
  \E f : /\ \A i \in DOMAIN t : f[i] \in DOMAIN s /\ t[i] = s[f[i]]
         /\ \A i, j \in DOMAIN t : f[i] = f[j] => i = j

\* A connection waits in one place, and in none before its frame is read.
WaitsOnce(k) ==
  /\ IsSingle(Requested(k)) /\ IsSingle(TrackedAt(k)) /\ IsSingle(DOMAIN responses[k])
  /\ Requested(k) = {} \/ TrackedAt(k) = {}
  /\ Requested(k) = {} \/ responses[k] = <<>>
  /\ TrackedAt(k) = {} \/ responses[k] = <<>>
  /\ handler[k] \in {"none", "accepted"} =>
       Requested(k) = {} /\ TrackedAt(k) = {} /\ responses[k] = <<>>

\* Every connection that was made is of an attempt that was made.
IsMade(k) == handler[k] # "none" => k[2] <= calls[k[1]].attempt

OnceInv == \A k \in Connection : WaitsOnce(k) /\ IsMade(k)

\* The first element is taken away.
LEMMA WithoutTheFirst ==
  ASSUME NEW S, NEW s \in Seq(S), s # <<>>
  PROVE  /\ Tail(s) \in Seq(S) /\ Len(s) \in Nat \ {0} /\ Len(Tail(s)) = Len(s) - 1
         /\ DOMAIN s = 1..Len(s) /\ DOMAIN Tail(s) = 1..(Len(s) - 1)
         /\ 1 \in DOMAIN s /\ Head(s) = s[1] /\ Head(s) \in S
         /\ \A i \in DOMAIN Tail(s) : i + 1 \in DOMAIN s /\ Tail(s)[i] = s[i + 1]
<1>1. Len(s) \in Nat \ {0} /\ DOMAIN s = 1..Len(s)
  BY EmptySeq
<1>2. /\ Tail(s) \in Seq(S) /\ Len(Tail(s)) = Len(s) - 1 /\ Head(s) = s[1] /\ Head(s) \in S
      /\ \A i \in 1..Len(Tail(s)) : Tail(s)[i] = s[i + 1]
  BY HeadTailProperties
<1>3. DOMAIN Tail(s) = 1..(Len(s) - 1)
  BY <1>2
<1> QED
  BY <1>1, <1>2, <1>3

\* The rest of a sequence is part of it.
LEMMA TailIsPart ==
  ASSUME NEW S, NEW s \in Seq(S), s # <<>>
  PROVE  IsPart(Tail(s), s)
<1> DEFINE f == [i \in DOMAIN Tail(s) |-> i + 1]
<1>1. \A i \in DOMAIN Tail(s) : f[i] \in DOMAIN s /\ Tail(s)[i] = s[f[i]]
  BY WithoutTheFirst
<1>2. \A i, j \in DOMAIN Tail(s) : f[i] = f[j] => i = j
  BY WithoutTheFirst
<1> QED
  BY <1>1, <1>2 DEF IsPart

\* So is what comes after a place.
LEMMA LaterIsPart ==
  ASSUME NEW S, NEW s \in Seq(S), NEW n \in 1..Len(s)
  PROVE  /\ IsPart(SubSeq(s, n + 1, Len(s)), s)
         /\ \A i \in DOMAIN SubSeq(s, n + 1, Len(s)) :
              /\ i + n \in DOMAIN s /\ i + n # n
              /\ SubSeq(s, n + 1, Len(s))[i] = s[i + n]
<1> DEFINE t == SubSeq(s, n + 1, Len(s))
           f == [i \in DOMAIN t |-> i + n]
<1>1. Len(s) \in Nat /\ DOMAIN s = 1..Len(s) /\ n \in Nat \ {0}
  OBVIOUS
<1>2. /\ DOMAIN t = 1..(Len(s) - n)
      /\ \A i \in 1..(Len(s) - n) : t[i] = s[i + n]
  BY <1>1
<1>3. \A i \in DOMAIN t : f[i] \in DOMAIN s /\ f[i] # n /\ t[i] = s[f[i]] /\ f[i] = i + n
  BY <1>1, <1>2
<1>4. \A i, j \in DOMAIN t : f[i] = f[j] => i = j
  BY <1>1, <1>2
<1>5. IsPart(t, s)
  BY <1>3, <1>4 DEF IsPart
<1> QED
  BY <1>3, <1>5

\* So is the sequence without one element.
LEMMA RemovedIsPart ==
  ASSUME NEW S, NEW s \in Seq(S), NEW n \in 1..Len(s)
  PROVE  IsPart(RemoveAt(s, n), s)
<1> DEFINE t == RemoveAt(s, n)
           f == [i \in DOMAIN t |-> IF i < n THEN i ELSE i + 1]
<1>1. Len(s) \in Nat /\ DOMAIN s = 1..Len(s) /\ n \in Nat \ {0} /\ n <= Len(s)
  OBVIOUS
<1>2. PICK a, b : a = SubSeq(s, 1, n - 1) /\ b = SubSeq(s, n + 1, Len(s)) /\ t = a \o b
  BY DEF RemoveAt
<1>3. /\ a \in Seq(S) /\ Len(a) = n - 1
      /\ \A i \in 1..(n - 1) : a[i] = s[i]
  <2>1. 1 \in 1..(Len(s) + 1) /\ n - 1 \in (1 - 1)..Len(s)
    BY <1>1
  <2>2. /\ a \in Seq(S)
        /\ Len(a) = IF 1 <= n - 1 THEN n - 1 - 1 + 1 ELSE 0
        /\ \A i \in 1..(n - 1 - 1 + 1) : a[i] = s[1 + i - 1]
    BY <1>2, <2>1, SubSeqProperties
  <2> QED
    BY <1>1, <2>2
<1>4. /\ b \in Seq(S) /\ Len(b) = Len(s) - n
      /\ \A i \in 1..(Len(s) - n) : b[i] = s[i + n]
  <2>1. n + 1 \in 1..(Len(s) + 1) /\ Len(s) \in (n + 1 - 1)..Len(s)
    BY <1>1
  <2>2. /\ b \in Seq(S)
        /\ Len(b) = IF n + 1 <= Len(s) THEN Len(s) - (n + 1) + 1 ELSE 0
        /\ \A i \in 1..(Len(s) - (n + 1) + 1) : b[i] = s[n + 1 + i - 1]
    BY <1>2, <2>1, SubSeqProperties
  <2>3. Len(s) - (n + 1) + 1 = Len(s) - n
    BY <1>1
  <2>4. \A i \in 1..(Len(s) - n) : n + 1 + i - 1 = i + n
    BY <1>1
  <2>5. Len(b) = Len(s) - n
    <3>1. CASE n + 1 <= Len(s)
      BY <2>2, <2>3, <3>1
    <3>2. CASE n = Len(s)
      <4>1. ~ (n + 1 <= Len(s)) /\ Len(s) - n = 0
        BY <1>1, <3>2
      <4> QED
        BY <2>2, <4>1
    <3>3. n + 1 <= Len(s) \/ n = Len(s)
      <4>1. PICK m \in Nat : m = Len(s)
        BY <1>1
      <4>2. n \in Nat /\ n <= m
        BY <1>1, <4>1
      <4>3. n + 1 <= m \/ n = m
        BY <4>2
      <4> QED
        BY <4>1, <4>3
    <3> QED
      BY <3>1, <3>2, <3>3
  <2>6. \A i \in 1..(Len(s) - n) : b[i] = s[i + n]
    BY <2>2, <2>3, <2>4
  <2> QED
    BY <2>2, <2>5, <2>6
<1>5. /\ DOMAIN t = 1..(Len(s) - 1)
      /\ \A i \in 1..(Len(s) - 1) : t[i] = IF i < n THEN a[i] ELSE b[i - (n - 1)]
  <2>0. t = a \o b
    BY <1>2
  <2> HIDE DEF t
  <2>1. /\ t \in Seq(S) /\ Len(t) = Len(a) + Len(b)
        /\ \A i \in 1..(Len(a) + Len(b)) : t[i] = IF i <= Len(a) THEN a[i] ELSE b[i - Len(a)]
    BY <1>3, <1>4, <2>0, ConcatProperties
  <2>2. Len(a) + Len(b) = Len(s) - 1
    BY <1>1, <1>3, <1>4
  <2>3. DOMAIN t = 1..(Len(s) - 1)
    BY <2>1, <2>2
  <2>4. \A i \in 1..(Len(s) - 1) : t[i] = IF i <= n - 1 THEN a[i] ELSE b[i - (n - 1)]
    BY <1>3, <2>1, <2>2
  <2>5. \A i \in 1..(Len(s) - 1) : i <= n - 1 <=> i < n
    BY <1>1
  <2> QED
    BY <2>3, <2>4, <2>5
<1> HIDE DEF t
<1>6. ASSUME NEW i \in DOMAIN t
      PROVE  f[i] \in DOMAIN s /\ t[i] = s[f[i]]
  <2>1. i \in 1..(Len(s) - 1) /\ i + 1 \in 1..Len(s) /\ i \in 1..Len(s)
    BY <1>1, <1>5, <1>6
  <2>2. CASE i < n
    <3>1. i \in 1..(n - 1) /\ f[i] = i /\ t[i] = a[i]
      BY <1>1, <1>5, <1>6, <2>1, <2>2
    <3> QED
      BY <1>1, <1>3, <2>1, <3>1
  <2>3. CASE ~(i < n)
    <3>1. f[i] = i + 1 /\ t[i] = b[i - (n - 1)]
      BY <1>5, <1>6, <2>1, <2>3
    <3>2. i - (n - 1) \in 1..(Len(s) - n) /\ (i - (n - 1)) + n = i + 1
      BY <1>1, <2>1, <2>3
    <3> QED
      BY <1>1, <1>4, <2>1, <3>1, <3>2
  <2> QED
    BY <2>2, <2>3
<1>7. \A i, j \in DOMAIN t : f[i] = f[j] => i = j
  BY <1>1, <1>5
<1>8. IsPart(t, s)
  BY <1>6, <1>7 DEF IsPart
<1> QED
  BY <1>8 DEF t

\* Requests that are taken away leave no connection in more places.
LEMMA FewerRequests ==
  ASSUME requests' = requests \/ IsPart(requests', requests), NEW k
  PROVE  /\ IsSingle(Requested(k)) => IsSingle(Requested(k)')
         /\ Requested(k) = {} => Requested(k)' = {}
<1>1. CASE requests' = requests
  BY <1>1 DEF Requested
<1>2. CASE IsPart(requests', requests)
  <2>1. PICK f : /\ \A i \in DOMAIN requests' :
                      f[i] \in DOMAIN requests /\ requests'[i] = requests[f[i]]
                 /\ \A i, j \in DOMAIN requests' : f[i] = f[j] => i = j
    BY <1>2 DEF IsPart
  <2>2. \A i \in Requested(k)' : i \in DOMAIN requests' /\ f[i] \in Requested(k)
    BY <2>1 DEF Requested
  <2> QED
    BY <2>1, <2>2 DEF IsSingle
<1> QED
  BY <1>1, <1>2

\* So do items that the tracker forgets.
LEMMA LessIsTracked ==
  ASSUME tracker' = tracker \/ IsPart(tracker', tracker), NEW k
  PROVE  /\ IsSingle(TrackedAt(k)) => IsSingle(TrackedAt(k)')
         /\ TrackedAt(k) = {} => TrackedAt(k)' = {}
<1>1. CASE tracker' = tracker
  BY <1>1 DEF TrackedAt
<1>2. CASE IsPart(tracker', tracker)
  <2>1. PICK f : /\ \A i \in DOMAIN tracker' :
                      f[i] \in DOMAIN tracker /\ tracker'[i] = tracker[f[i]]
                 /\ \A i, j \in DOMAIN tracker' : f[i] = f[j] => i = j
    BY <1>2 DEF IsPart
  <2>2. \A i \in TrackedAt(k)' : i \in DOMAIN tracker' /\ f[i] \in TrackedAt(k)
    BY <2>1 DEF TrackedAt
  <2> QED
    BY <2>1, <2>2 DEF IsSingle
<1> QED
  BY <1>1, <1>2

\* A connection that nothing is added for.
LEMMA NothingIsAdded ==
  ASSUME NEW k \in Connection, WaitsOnce(k),
         requests' = requests \/ IsPart(requests', requests),
         tracker' = tracker \/ IsPart(tracker', tracker),
         responses'[k] = responses[k] \/ responses'[k] = <<>>,
         \/ handler'[k] = handler[k]
         \/ handler[k] = "none"
         \/ handler'[k] \notin {"none", "accepted"}
  PROVE  WaitsOnce(k)'
<1>1. /\ IsSingle(Requested(k)) /\ IsSingle(TrackedAt(k)) /\ IsSingle(DOMAIN responses[k])
      /\ Requested(k) = {} \/ TrackedAt(k) = {}
      /\ Requested(k) = {} \/ responses[k] = <<>>
      /\ TrackedAt(k) = {} \/ responses[k] = <<>>
      /\ handler[k] \in {"none", "accepted"} =>
           Requested(k) = {} /\ TrackedAt(k) = {} /\ responses[k] = <<>>
  BY DEF WaitsOnce
<1>2. /\ IsSingle(Requested(k)') /\ IsSingle(TrackedAt(k)')
      /\ Requested(k) = {} => Requested(k)' = {}
      /\ TrackedAt(k) = {} => TrackedAt(k)' = {}
  BY <1>1, FewerRequests, LessIsTracked
<1>3. IsSingle(DOMAIN <<>>)
  BY DEF IsSingle
<1>4. IsSingle(DOMAIN responses'[k]) /\ (responses[k] = <<>> => responses'[k] = <<>>)
  BY <1>1, <1>3
<1>5. /\ IsSingle(Requested(k)') /\ IsSingle(TrackedAt(k)') /\ IsSingle(DOMAIN responses'[k])
      /\ Requested(k)' = {} \/ TrackedAt(k)' = {}
      /\ Requested(k)' = {} \/ responses'[k] = <<>>
      /\ TrackedAt(k)' = {} \/ responses'[k] = <<>>
      /\ handler'[k] \in {"none", "accepted"} =>
           Requested(k)' = {} /\ TrackedAt(k)' = {} /\ responses'[k] = <<>>
  BY <1>1, <1>2, <1>4
<1> QED
  BY <1>5 DEF WaitsOnce, IsSingle

\* The frame of a connection is read.
LEMMA ReadRequestOnce ==
  ASSUME PathInv, OnceInv, NEW k \in Connection, ReadRequest(k), NEW j \in Connection
  PROVE  WaitsOnce(j)'
<1>1. /\ requests \in Seq(Connection) /\ handler \in [Connection -> HandlerState]
  BY PathIsTyped DEF TypeOK
<1>2. /\ handler[k] = "accepted" /\ handler' = [handler EXCEPT ![k] = "reading"]
      /\ requests' = Append(requests, k) /\ responses' = responses /\ tracker' = tracker
  BY DEF ReadRequest, ProduceRequest
<1>3. /\ DOMAIN requests = 1..Len(requests) /\ Len(requests) \in Nat
      /\ DOMAIN requests' = 1..(Len(requests) + 1)
      /\ requests'[Len(requests) + 1] = k
      /\ \A i \in 1..Len(requests) : requests'[i] = requests[i]
  BY <1>1, <1>2
<1>4. WaitsOnce(j) /\ WaitsOnce(k)
  BY DEF OnceInv
<1>5. TrackedAt(j)' = TrackedAt(j)
  BY <1>2 DEF TrackedAt
<1>6. CASE j = k
  <2>1. Requested(k) = {} /\ TrackedAt(k) = {} /\ responses[k] = <<>>
    BY <1>2, <1>4 DEF WaitsOnce
  <2>2. Requested(k)' = {Len(requests) + 1}
    BY <1>3, <2>1 DEF Requested
  <2>3. IsSingle(Requested(k)') /\ IsSingle(TrackedAt(k)') /\ IsSingle(DOMAIN responses'[k])
    BY <1>2, <1>5, <1>6, <2>1, <2>2 DEF IsSingle
  <2>4. handler'[k] = "reading"
    BY <1>1, <1>2
  <2> QED
    BY <1>2, <1>5, <1>6, <2>1, <2>3, <2>4 DEF WaitsOnce, IsSingle
<1>7. CASE j # k
  <2>1. Requested(j)' = Requested(j)
    BY <1>3, <1>7 DEF Requested
  <2>2. handler'[j] = handler[j] /\ responses'[j] = responses[j]
    BY <1>1, <1>2, <1>7
  <2> QED
    BY <1>4, <1>5, <2>1, <2>2 DEF WaitsOnce, IsSingle
<1> QED
  BY <1>6, <1>7

\* A request is passed on.
LEMMA PassOnce ==
  ASSUME PathInv, OnceInv, NEW l \in Link, Pass(l), NEW j \in Connection
  PROVE  WaitsOnce(j)'
<1>0. PICK k, id : k = Head(requests) /\ id = NextFrame(l).id
  OBVIOUS
<1>1. /\ requests \in Seq(Connection) /\ tracker \in Seq(TrackerItem)
      /\ links \in [Link -> LinkRecord]
  BY PathIsTyped DEF TypeOK, PathInv, LinkInv
<1>2. /\ requests # <<>> /\ requests' = Tail(requests)
      /\ responses' = responses /\ handler' = handler
      /\ tracker' = tracker \/ tracker' = Track(id, k)
  BY <1>0 DEF Pass, ConsumeRequest, Take
<1>3. WaitsOnce(j) /\ IsPart(requests', requests)
  BY <1>1, <1>2, TailIsPart DEF OnceInv
<1>4. CASE tracker' = tracker
  BY <1>2, <1>3, <1>4, NothingIsAdded
<1>5. CASE tracker' = Track(id, k)
  <2>1. id \in Nat /\ k \in Connection
    BY <1>0, <1>1, <1>2, WithoutTheFirst DEF NextFrame, LinkRecord
  <2>2. 1 \in Requested(k)
    BY <1>0, <1>1, <1>2, WithoutTheFirst DEF Requested
  <2>3. Requested(k)' = {} /\ TrackedAt(k) = {} /\ responses[k] = <<>>
    <3>1. IsSingle(Requested(k)) /\ TrackedAt(k) = {} /\ responses[k] = <<>>
      BY <2>1, <2>2 DEF OnceInv, WaitsOnce
    <3>2. \A i \in Requested(k)' : i + 1 \in Requested(k) /\ i + 1 # 1
      BY <1>1, <1>2, WithoutTheFirst DEF Requested
    <3> QED
      BY <2>2, <3>1, <3>2 DEF IsSingle
  <2>4. handler[k] \notin {"none", "accepted"}
    BY <2>1, <2>2 DEF OnceInv, WaitsOnce
  <2>5. /\ IsSingle(TrackedAt(k)')
        /\ j # k => TrackedAt(j)' \subseteq TrackedAt(j)
    <3>1. CASE Tracked(id)
      <4>1. PICK p \in 1..Len(tracker) : p = PlaceOf(id)
        BY <3>1, PlaceIsInTracker
      <4>2. tracker' = [tracker EXCEPT ![p].connection = k]
        BY <1>5, <3>1, <4>1 DEF Track
      <4>3. /\ DOMAIN tracker' = DOMAIN tracker /\ p \in DOMAIN tracker
            /\ tracker'[p].connection = k
            /\ \A i \in DOMAIN tracker : i # p => tracker'[i] = tracker[i]
        <5>1. DOMAIN tracker = 1..Len(tracker) /\ tracker[p] \in TrackerItem
          BY <1>1, ElementOfSeq
        <5>2. [tracker[p] EXCEPT !.connection = k].connection = k
          BY <5>1 DEF TrackerItem
        <5> QED
          BY <4>2, <5>1, <5>2
      <4>4. TrackedAt(k)' \subseteq {p}
        BY <2>3, <4>3 DEF TrackedAt
      <4> QED
        BY <4>3, <4>4 DEF TrackedAt, IsSingle
    <3>2. CASE ~ Tracked(id)
      <4>1. tracker' = Append(tracker, [id |-> id, connection |-> k])
        BY <1>5, <3>2 DEF Track
      <4>2. /\ DOMAIN tracker = 1..Len(tracker) /\ Len(tracker) \in Nat
            /\ DOMAIN tracker' = 1..(Len(tracker) + 1)
            /\ tracker'[Len(tracker) + 1] = [id |-> id, connection |-> k]
            /\ \A i \in 1..Len(tracker) : tracker'[i] = tracker[i]
        <5>1. [id |-> id, connection |-> k] \in TrackerItem
          BY <2>1 DEF TrackerItem
        <5> QED
          BY <1>1, <4>1, <5>1, AppendProperties
      <4>3. tracker'[Len(tracker) + 1].connection = k
        BY <4>2
      <4>4. TrackedAt(k)' \subseteq {Len(tracker) + 1}
        BY <2>3, <4>2 DEF TrackedAt
      <4>5. j # k => TrackedAt(j)' \subseteq TrackedAt(j)
        BY <4>2, <4>3 DEF TrackedAt
      <4> QED
        BY <4>4, <4>5 DEF IsSingle
    <3> QED
      BY <3>1, <3>2
  <2>6. CASE j = k
    <3>1. IsSingle(Requested(k)') /\ IsSingle(DOMAIN responses'[k])
      BY <1>2, <2>3 DEF IsSingle
    <3> QED
      BY <1>2, <2>3, <2>4, <2>5, <2>6, <3>1 DEF WaitsOnce, IsSingle
  <2>7. CASE j # k
    <3>1. /\ IsSingle(Requested(j)')
          /\ Requested(j) = {} => Requested(j)' = {}
      BY <1>3, FewerRequests DEF WaitsOnce
    <3>2. IsSingle(TrackedAt(j)') /\ (TrackedAt(j) = {} => TrackedAt(j)' = {})
      BY <1>3, <2>5, <2>7 DEF WaitsOnce, IsSingle
    <3> QED
      BY <1>2, <1>3, <3>1, <3>2 DEF WaitsOnce, IsSingle
  <2> QED
    BY <2>6, <2>7
<1> QED
  BY <1>2, <1>4, <1>5

\* A response comes back.
LEMMA ReturnOnce ==
  ASSUME PathInv, OnceInv, NEW l \in Link, Return(l), NEW j \in Connection
  PROVE  WaitsOnce(j)'
<1>0. PICK frame : frame = Head(up[l])
  OBVIOUS
<1>1. /\ tracker \in Seq(TrackerItem) /\ responses \in [Connection -> Seq(Payload)]
      /\ WaitsOnce(j)
  BY PathIsTyped DEF TypeOK, PathInv, LinkInv, OnceInv
<1>2. /\ requests' = requests /\ handler' = handler
      /\ \/ UNCHANGED <<tracker, responses>>
         \/ /\ Tracked(frame.id)
            /\ tracker' = RemoveAt(tracker, PlaceOf(frame.id))
            /\ UNCHANGED responses
         \/ /\ Tracked(frame.id)
            /\ tracker' = Later(PlaceOf(frame.id))
            /\ responses' = [responses EXCEPT ![tracker[PlaceOf(frame.id)].connection] =
                               Append(@, frame.payload)]
  BY <1>0 DEF Return, ProduceResponse
<1>3. CASE UNCHANGED <<tracker, responses>>
  BY <1>1, <1>2, <1>3, NothingIsAdded
<1>4. ASSUME Tracked(frame.id), tracker' = RemoveAt(tracker, PlaceOf(frame.id)),
             UNCHANGED responses
      PROVE  WaitsOnce(j)'
  <2>1. IsPart(tracker', tracker)
    BY <1>1, <1>4, PlaceIsInTracker, RemovedIsPart
  <2> QED
    BY <1>1, <1>2, <1>4, <2>1, NothingIsAdded
<1>5. ASSUME Tracked(frame.id), tracker' = Later(PlaceOf(frame.id)),
             responses' = [responses EXCEPT ![tracker[PlaceOf(frame.id)].connection] =
                             Append(@, frame.payload)]
      PROVE  WaitsOnce(j)'
  <2>1. PICK p \in 1..Len(tracker) : p = PlaceOf(frame.id)
    BY <1>5, PlaceIsInTracker
  <2>2. /\ tracker' = SubSeq(tracker, p + 1, Len(tracker))
        /\ responses' = [responses EXCEPT ![tracker[p].connection] = Append(@, frame.payload)]
    BY <1>5, <2>1 DEF Later
  <2>3. PICK k \in Connection : k = tracker[p].connection
    <3>1. tracker[p] \in TrackerItem
      BY <1>1, ElementOfSeq
    <3> QED
      BY <3>1 DEF TrackerItem
  <2>4. IsPart(tracker', tracker)
    BY <1>1, <2>2, LaterIsPart
  <2>5. p \in TrackedAt(k)
    BY <1>1, <2>3 DEF TrackedAt
  <2>6. CASE j # k
    <3>1. responses'[j] = responses[j]
      BY <1>1, <2>2, <2>3, <2>6
    <3> QED
      BY <1>1, <1>2, <2>4, <3>1, NothingIsAdded
  <2>7. CASE j = k
    <3>1. /\ IsSingle(TrackedAt(k)) /\ Requested(k) = {} /\ responses[k] = <<>>
          /\ handler[k] \notin {"none", "accepted"}
      BY <1>1, <2>5, <2>7 DEF WaitsOnce
    <3>2. TrackedAt(k)' = {}
      <4>1. \A i \in TrackedAt(k)' : i + p \in TrackedAt(k) /\ i + p # p
        BY <1>1, <2>2, LaterIsPart DEF TrackedAt
      <4> QED
        BY <2>5, <3>1, <4>1 DEF IsSingle
    <3>3. responses'[k] = <<frame.payload>>
      <4>1. responses'[k] = Append(responses[k], frame.payload)
        BY <1>1, <2>2, <2>3
      <4> QED
        BY <3>1, <4>1
    <3>4. DOMAIN responses'[k] = {1}
      BY <3>3
    <3>5. Requested(k)' = {}
      BY <1>2, <3>1 DEF Requested
    <3>6. /\ IsSingle(Requested(k)') /\ IsSingle(TrackedAt(k)')
          /\ IsSingle(DOMAIN responses'[k])
      BY <3>2, <3>4, <3>5 DEF IsSingle
    <3>7. handler'[k] \notin {"none", "accepted"}
      BY <1>2, <3>1
    <3> QED
      BY <2>7, <3>2, <3>5, <3>6, <3>7 DEF WaitsOnce, IsSingle
  <2> QED
    BY <2>6, <2>7
<1> QED
  BY <1>2, <1>3, <1>4, <1>5

\* A response is delivered.
LEMMA DeliverOnce ==
  ASSUME PathInv, OnceInv, NEW k \in Connection, Deliver(k), NEW j \in Connection
  PROVE  WaitsOnce(j)'
<1>1. responses \in [Connection -> Seq(Payload)] /\ WaitsOnce(j) /\ WaitsOnce(k)
  BY PathIsTyped DEF TypeOK, OnceInv
<1>2. /\ UNCHANGED <<handler, requests, tracker>> /\ responses[k] # <<>>
      /\ responses' = [responses EXCEPT ![k] = Tail(@)]
  BY DEF Deliver, ConsumeResponse
<1>3. responses'[j] = responses[j] \/ responses'[j] = <<>>
  <2>1. CASE j = k
    <3>1. /\ responses[k] \in Seq(Payload) /\ IsSingle(DOMAIN responses[k])
          /\ responses'[k] = Tail(responses[k])
      BY <1>1, <1>2 DEF WaitsOnce
    <3>2. Len(responses[k]) = 1
      <4>1. /\ Len(responses[k]) \in Nat \ {0} /\ DOMAIN responses[k] = 1..Len(responses[k])
        BY <1>2, <3>1, WithoutTheFirst
      <4>2. 1 \in DOMAIN responses[k] /\ Len(responses[k]) \in DOMAIN responses[k]
        BY <4>1
      <4> QED
        BY <3>1, <4>2 DEF IsSingle
    <3>3. Tail(responses[k]) \in Seq(Payload) /\ Len(Tail(responses[k])) = 0
      BY <1>2, <3>1, <3>2, WithoutTheFirst
    <3> QED
      BY <2>1, <3>1, <3>3, EmptySeq
  <2>2. CASE j # k
    BY <1>1, <1>2, <2>2
  <2> QED
    BY <2>1, <2>2
<1> QED
  BY <1>1, <1>2, <1>3, NothingIsAdded

\* MiddleMan is restarted.
LEMMA RestartOnce ==
  ASSUME PathInv, OnceInv, RestartMiddleMan, NEW j \in Connection
  PROVE  WaitsOnce(j)'
<1>1. requests' = <<>> /\ tracker' = <<>> /\ responses'[j] = <<>>
  BY DEF RestartMiddleMan, Restart
<1>2. Requested(j)' = {} /\ TrackedAt(j)' = {}
  BY <1>1 DEF Requested, TrackedAt
<1>3. IsSingle({}) /\ IsSingle(DOMAIN responses'[j])
  BY <1>1 DEF IsSingle
<1>4. IsSingle(Requested(j)') /\ IsSingle(TrackedAt(j)')
  BY <1>2, <1>3
<1> QED
  BY <1>1, <1>2, <1>3, <1>4 DEF WaitsOnce, IsSingle

\* A connection that is accepted was not there before: its attempt is a new one.
LEMMA AcceptedIsNew ==
  ASSUME PathInv, OnceInv, NEW c \in Call, Ask(c) \/ Retry(c)
  PROVE  \E k \in Connection :
           /\ k[1] = c /\ handler[k] = "none" /\ k[2] = calls'[c].attempt
           /\ handler' = [handler EXCEPT ![k] = "accepted"]
           /\ UNCHANGED <<requests, responses, tracker, down, signed>>
<1>1. /\ calls \in [Call -> [stage : CallStage, attempt : Nat]]
      /\ MaxAttempts[c] \in Nat
  BY SigningAssumption DEF PathInv, CallInv, SigningAssumption
<1>2. CASE Ask(c)
  <2>1. <<c, 1>> \in Connection /\ calls[c].stage = "idle"
    BY <1>2, FirstConnection DEF Ask, BeginCall
  <2>2. handler[<<c, 1>>] = "none"
    BY <2>1 DEF PathInv, ConcentInv, AskedConnection, Asked
  <2>3. calls'[c].attempt = 1
    BY <1>1, <1>2 DEF Ask, BeginCall
  <2> QED
    BY <1>2, <2>1, <2>2, <2>3 DEF Ask, AcceptConnection, wires
<1>3. CASE Retry(c)
  <2> DEFINE n == calls[c].attempt + 1
  <2>1. n \in 1..MaxAttempts[c] /\ ~ (n <= calls[c].attempt)
    BY <1>1, <1>3 DEF Retry, RetryCall
  <2>2. <<c, n>> \in Connection
    BY <2>1, ConnectionsAreOfCalls
  <2>3. handler[<<c, n>>] = "none"
    BY <2>1, <2>2 DEF OnceInv, IsMade
  <2>4. calls'[c].attempt = n
    BY <1>1, <1>3 DEF Retry, RetryCall
  <2> QED
    BY <1>3, <2>2, <2>3, <2>4 DEF Retry, AcceptConnection, wires
<1> QED
  BY <1>2, <1>3

\* No other step makes a connection, or a call begin or try again.
OtherStep ==
  \/ UNCHANGED vars
  \/ \E c \in Call : TimeOut(c) \/ Disconnect(c)
  \/ \E k \in Connection : ConnectionStep(k)
  \/ \E l \in Link : LinkStep(l)
  \/ Answer \/ LeaveLink \/ StartService \/ Serve \/ RestartMiddleMan

\* Every step is of a call that begins or tries again, or another one.
LEMMA StepsOfCalls ==
  ASSUME [Next]_vars
  PROVE  OtherStep \/ \E c \in Call : Ask(c) \/ Retry(c)
BY DEF Next, Caller, OtherStep

\* Every other step makes no connection and leaves the attempts as they are.
LEMMA OthersMakeNone ==
  ASSUME PathInv, OtherStep
  PROVE  /\ \A c \in Call : calls'[c].attempt = calls[c].attempt
         /\ \A c \in Call : calls'[c].stage = "idle" => calls[c].stage = "idle"
         /\ \A k \in Connection : handler'[k] # "none" => handler[k] # "none"
         /\ \A k \in Connection : handler'[k] = "accepted" => handler[k] = "accepted"
<1>1. /\ calls \in [Call -> [stage : CallStage, attempt : Nat]]
      /\ handler \in [Connection -> HandlerState]
  BY DEF PathInv, CallInv, ConcentInv
<1>2. CASE UNCHANGED <<calls, handler>>
  BY <1>2
<1>3. ASSUME NEW c \in Call, TimeOut(c) \/ Disconnect(c)
      PROVE  handler' = handler /\ calls' = [calls EXCEPT ![c].stage = "raised"]
  BY <1>3 DEF TimeOut, GiveUp, Disconnect, SeeDisconnection, mmVars, concentSide
<1>4. ASSUME NEW k \in Connection, ConnectionStep(k)
      PROVE  /\ \/ calls' = calls
                \/ \E stage \in CallStage \ {"idle"} :
                     calls' = [calls EXCEPT ![k[1]].stage = stage]
             /\ \/ handler' = handler
                \/ handler[k] # "none" /\ handler' = [handler EXCEPT ![k] = "reading"]
                \/ handler[k] # "none" /\ handler' = [handler EXCEPT ![k] = "gone"]
  <2>1. CASE ReadRequest(k)
    BY <2>1 DEF ReadRequest, ProduceRequest
  <2>2. CASE Deliver(k)
    <3>1. handler' = handler
      BY <2>2 DEF Deliver, ConsumeResponse
    <3>2. calls' = calls \/ ReceiveAnswer(k[1], Head(responses[k]))
      BY <2>2 DEF Deliver
    <3> QED
      BY <3>1, <3>2 DEF ReceiveAnswer, CallStage
  <2>3. CASE Release(k)
    BY <2>3 DEF Release, ReleaseConnection
  <2> QED
    BY <1>4, <2>1, <2>2, <2>3 DEF ConnectionStep
<1>5. ASSUME NEW l \in Link, LinkStep(l) PROVE UNCHANGED <<calls, handler>>
  BY <1>5 DEF LinkStep, Connect, AcceptLink, Pass, ConsumeRequest, Return, ProduceResponse,
              Decide, Admit, Refuse, EndLink, LoseCandidate, FinishAborted, EndService,
              concentSide
<1>6. CASE Answer \/ LeaveLink \/ StartService \/ Serve \/ UNCHANGED vars
  BY <1>6 DEF Answer, ReceiveReply, LeaveLink, StartService, Serve, Respond, vars, mmVars,
              concentSide
<1>7. CASE RestartMiddleMan
  BY <1>1, <1>7 DEF RestartMiddleMan, Restart, InPool
<1>8. ASSUME NEW c \in Call, TimeOut(c) \/ Disconnect(c)
      PROVE  /\ \A d \in Call : calls'[d].attempt = calls[d].attempt
             /\ \A d \in Call : calls'[d].stage = "idle" => calls[d].stage = "idle"
             /\ handler' = handler
  BY <1>1, <1>3, <1>8 DEF CallStage
<1>9. ASSUME NEW k \in Connection, ConnectionStep(k)
      PROVE  /\ \A c \in Call : calls'[c].attempt = calls[c].attempt
             /\ \A c \in Call : calls'[c].stage = "idle" => calls[c].stage = "idle"
             /\ \A j \in Connection : handler'[j] # "none" => handler[j] # "none"
             /\ \A j \in Connection : handler'[j] = "accepted" => handler[j] = "accepted"
  <2>1. PICK d : d = k[1]
    OBVIOUS
  <2>2. \/ calls' = calls
        \/ \E stage \in CallStage \ {"idle"} : calls' = [calls EXCEPT ![d].stage = stage]
    BY <1>4, <1>9, <2>1
  <2>3. ASSUME NEW stage \in CallStage \ {"idle"}, calls' = [calls EXCEPT ![d].stage = stage],
               NEW c \in Call
        PROVE  /\ calls'[c].attempt = calls[c].attempt
               /\ calls'[c].stage = "idle" => calls[c].stage = "idle"
    <3>1. CASE c = d
      BY <1>1, <2>3, <3>1 DEF CallStage
    <3>2. CASE c # d
      BY <1>1, <2>3, <3>2
    <3> QED
      BY <3>1, <3>2
  <2>4. /\ \A c \in Call : calls'[c].attempt = calls[c].attempt
        /\ \A c \in Call : calls'[c].stage = "idle" => calls[c].stage = "idle"
    BY <2>2, <2>3
  <2>5. \A j \in Connection : \/ handler'[j] = handler[j]
                              \/ handler[j] # "none" /\ handler'[j] \in {"reading", "gone"}
    BY <1>1, <1>4, <1>9
  <2> QED
    BY <2>4, <2>5
<1> QED
  BY <1>2, <1>5, <1>6, <1>7, <1>8, <1>9 DEF OtherStep

\* Steps that neither add nor move a request or a response.
LEMMA QuietOnce ==
  ASSUME PathInv, OnceInv, [Next]_vars, NEW j \in Connection
  PROVE  WaitsOnce(j)'
<1>0. WaitsOnce(j) /\ handler \in [Connection -> HandlerState]
  BY DEF OnceInv, PathInv, ConcentInv
<1>1. CASE UNCHANGED <<handler, requests, responses, tracker>>
  BY <1>0, <1>1, NothingIsAdded
<1>2. ASSUME NEW c \in Call, Ask(c) \/ Retry(c) PROVE WaitsOnce(j)'
  <2>1. PICK k \in Connection :
          /\ handler[k] = "none" /\ handler' = [handler EXCEPT ![k] = "accepted"]
          /\ UNCHANGED <<requests, responses, tracker>>
    BY <1>2, AcceptedIsNew
  <2>2. handler'[j] = handler[j] \/ handler[j] = "none"
    BY <1>0, <2>1
  <2> QED
    BY <1>0, <2>1, <2>2, NothingIsAdded
<1>3. ASSUME NEW c \in Call, TimeOut(c) \/ Disconnect(c)
      PROVE  UNCHANGED <<handler, requests, responses, tracker>>
  BY <1>3 DEF TimeOut, Disconnect, mmVars, concentSide
<1>4. ASSUME NEW k \in Connection, ConnectionStep(k) PROVE WaitsOnce(j)'
  <2>1. CASE Release(k)
    <3>1. /\ handler' = [handler EXCEPT ![k] = "gone"]
          /\ UNCHANGED <<requests, responses, tracker>>
      BY <2>1 DEF Release, ReleaseConnection
    <3>2. handler'[j] = handler[j] \/ handler'[j] = "gone"
      BY <1>0, <3>1
    <3> QED
      BY <1>0, <3>1, <3>2, NothingIsAdded
  <2> QED
    BY <1>4, <2>1, ReadRequestOnce, DeliverOnce DEF ConnectionStep
<1>5. ASSUME NEW l \in Link, LinkStep(l) PROVE WaitsOnce(j)'
  <2>1. CASE Connect(l) \/ Decide(l) \/ EndLink(l)
    <3>1. UNCHANGED <<handler, requests, responses, tracker>>
      BY <2>1 DEF Connect, AcceptLink, Decide, Admit, Refuse, EndLink, LoseCandidate,
                  FinishAborted, EndService, concentSide
    <3> QED
      BY <1>1, <3>1
  <2> QED
    BY <1>5, <2>1, PassOnce, ReturnOnce DEF LinkStep
<1>6. CASE Answer \/ LeaveLink \/ StartService \/ Serve \/ UNCHANGED vars
  <2>1. UNCHANGED <<handler, requests, responses, tracker>>
    BY <1>6 DEF Answer, ReceiveReply, LeaveLink, StartService, Serve, Respond, vars, mmVars,
                concentSide
  <2> QED
    BY <1>1, <2>1
<1>7. CASE RestartMiddleMan
  BY <1>7, RestartOnce
<1> QED
  BY <1>1, <1>2, <1>3, <1>4, <1>5, <1>6, <1>7, StepsOfCalls DEF OtherStep

\* Every step keeps a connection in one place.
LEMMA OnceStep ==
  ASSUME PathInv, OnceInv, [Next]_vars
  PROVE  OnceInv'
<1>0. /\ calls \in [Call -> [stage : CallStage, attempt : Nat]]
      /\ handler \in [Connection -> HandlerState]
      /\ \A j \in Connection : j[1] \in Call /\ j[2] \in Nat
      /\ \A j \in Connection : IsMade(j)
  BY SigningAssumption DEF OnceInv, PathInv, CallInv, ConcentInv, Connection, SigningAssumption
<1>1. ASSUME NEW j \in Connection PROVE IsMade(j)'
  <2>1. CASE OtherStep
    <3>1. handler'[j] # "none" => handler[j] # "none"
      BY <2>1, OthersMakeNone
    <3>2. calls'[j[1]].attempt = calls[j[1]].attempt
      BY <1>0, <2>1, OthersMakeNone
    <3> QED
      BY <1>0, <3>1, <3>2 DEF IsMade
  <2>2. ASSUME NEW c \in Call, Ask(c) \/ Retry(c) PROVE IsMade(j)'
    <3>1. PICK k \in Connection :
            /\ k[1] = c /\ k[2] = calls'[c].attempt
            /\ handler' = [handler EXCEPT ![k] = "accepted"]
      BY <2>2, AcceptedIsNew
    <3>2. CASE j = k
      BY <1>0, <3>1, <3>2 DEF IsMade
    <3>3. CASE j # k
      <4>1. handler'[j] = handler[j]
        BY <1>0, <3>1, <3>3
      <4>2. handler[j] # "none" => /\ Asked(j[1])
                                   /\ calls[j[1]].attempt <= calls'[j[1]].attempt
                                   /\ calls'[j[1]].attempt \in Nat
        <5>1. handler[j] # "none" => Asked(j[1])
          BY DEF PathInv, ConcentInv, AskedConnection
        <5>2. CASE Ask(c)
          BY <1>0, <5>1, <5>2 DEF Ask, BeginCall, Asked
        <5>3. CASE Retry(c)
          <6>1. calls' = [calls EXCEPT ![c].attempt = @ + 1]
            BY <5>3 DEF Retry, RetryCall
          <6>2. CASE j[1] = c
            BY <1>0, <5>1, <6>1, <6>2
          <6>3. CASE j[1] # c
            BY <1>0, <5>1, <6>1, <6>3
          <6> QED
            BY <6>2, <6>3
        <5> QED
          BY <2>2, <5>2, <5>3
      <4>3. calls[j[1]].attempt \in Nat
        BY <1>0
      <4>4. handler[j] # "none" => j[2] <= calls[j[1]].attempt
        BY <1>0 DEF IsMade
      <4>5. handler'[j] # "none" => j[2] <= calls'[j[1]].attempt
        BY <1>0, <4>1, <4>2, <4>3, <4>4
      <4> QED
        BY <4>5 DEF IsMade
    <3> QED
      BY <3>2, <3>3
  <2> QED
    BY <2>1, <2>2, StepsOfCalls
<1> QED
  BY <1>1, QuietOnce DEF OnceInv

\* At the start no connection waits.
LEMMA OnceStart ==
  ASSUME Init
  PROVE  OnceInv
<1>1. /\ requests = <<>> /\ tracker = <<>> /\ \A k \in Connection : responses[k] = <<>>
      /\ \A k \in Connection : handler[k] = "none"
  BY DEF Init, MiddleManInit
<1>2. \A k : Requested(k) = {} /\ TrackedAt(k) = {}
  BY <1>1 DEF Requested, TrackedAt
<1>3. \A k \in Connection : IsSingle(DOMAIN responses[k])
  BY <1>1 DEF IsSingle
<1>4. IsSingle({})
  BY DEF IsSingle
<1> QED
  BY <1>1, <1>2, <1>3, <1>4 DEF OnceInv, WaitsOnce, IsMade

\* What the invariant says is that a connection waits in one place.
LEMMA OnceMeansOnce ==
  ASSUME OnceInv
  PROVE  AnsweredOnce
<1> SUFFICES ASSUME NEW k \in Connection, NEW p \in Places(k), NEW q \in Places(k)
             PROVE  p = q
  BY DEF AnsweredOnce
<1>1. WaitsOnce(k)
  BY DEF OnceInv
<1>2. \/ p \in {"requests"} \X Requested(k)
      \/ p \in {"tracker"} \X TrackedAt(k)
      \/ p \in {"responses"} \X DOMAIN responses[k]
  BY DEF Places
<1>3. \/ q \in {"requests"} \X Requested(k)
      \/ q \in {"tracker"} \X TrackedAt(k)
      \/ q \in {"responses"} \X DOMAIN responses[k]
  BY DEF Places
<1>4. responses[k] = <<>> => DOMAIN responses[k] = {}
  OBVIOUS
<1> QED
  BY <1>1, <1>2, <1>3, <1>4 DEF WaitsOnce, IsSingle

\* The invariant holds in every state.
LEMMA OnceIsKept == Spec => []OnceInv
<1>1. Init => OnceInv
  BY OnceStart
<1>2. PathInv /\ OnceInv /\ [Next]_vars => OnceInv'
  BY OnceStep
<1> QED
  BY <1>1, <1>2, PathInvariant, PTL DEF Spec

\* No connection waits for two answers at a time, in whatever order requests and responses
\* pass the queue, the tracker and the pool of response queues (middleman_server.py,
\* request_consumer, response_producer), and whatever happens to the links.
THEOREM NoConnectionIsAnsweredTwice == Spec => []AnsweredOnce
<1>1. OnceInv => AnsweredOnce
  BY OnceMeansOnce
<1> QED
  BY <1>1, OnceIsKept, PTL

-----------------------------------------------------------------------------
(* Nothing is signed more often than it was sent. *)

\* How many elements of a sequence are in a set.
Count(s, X) == Cardinality({i \in DOMAIN s : s[i] \in X})

\* Counting gives a number.
LEMMA CountIsNumber ==
  ASSUME NEW S, NEW s \in Seq(S), NEW X
  PROVE  /\ IsFiniteSet({i \in DOMAIN s : s[i] \in X})
         /\ Count(s, X) \in Nat
<1>1. DOMAIN s = 1..Len(s) /\ Len(s) \in Nat
  OBVIOUS
<1>2. IsFiniteSet(DOMAIN s)
  BY <1>1, FS_Interval
<1>3. IsFiniteSet({i \in DOMAIN s : s[i] \in X})
  BY <1>2, FS_Subset
<1> QED
  BY <1>3, FS_CardinalityType DEF Count

\* There is nothing in the empty sequence.
LEMMA CountEmpty ==
  ASSUME NEW X
  PROVE  Count(<<>>, X) = 0
<1>1. {i \in DOMAIN <<>> : <<>>[i] \in X} = {}
  OBVIOUS
<1> QED
  BY <1>1, FS_EmptySet DEF Count

\* An element that is appended is counted once.
LEMMA CountAppend ==
  ASSUME NEW S, NEW s \in Seq(S), NEW x \in S, NEW X
  PROVE  Count(Append(s, x), X) = Count(s, X) + (IF x \in X THEN 1 ELSE 0)
<1> DEFINE before == {i \in DOMAIN s : s[i] \in X}
<1>1. PICK t : t = Append(s, x)
  OBVIOUS
<1>2. /\ DOMAIN s = 1..Len(s) /\ Len(s) \in Nat
      /\ DOMAIN t = 1..(Len(s) + 1) /\ t[Len(s) + 1] = x
      /\ \A i \in 1..Len(s) : t[i] = s[i]
  BY <1>1
<1>3. IsFiniteSet(before) /\ Cardinality(before) \in Nat
  BY CountIsNumber DEF Count
<1>4. CASE x \in X
  <2>1. {i \in DOMAIN t : t[i] \in X} = before \union {Len(s) + 1}
    BY <1>2, <1>4
  <2>2. Len(s) + 1 \notin before
    BY <1>2
  <2>3. Cardinality(before \union {Len(s) + 1}) = Cardinality(before) + 1
    BY <1>3, <2>2, FS_AddElement
  <2> QED
    BY <1>1, <1>4, <2>1, <2>3 DEF Count
<1>5. CASE x \notin X
  <2>1. {i \in DOMAIN t : t[i] \in X} = before
    BY <1>2, <1>5
  <2>2. Count(t, X) = Count(s, X)
    BY <2>1 DEF Count
  <2>3. Count(s, X) \in Nat
    BY CountIsNumber
  <2> QED
    BY <1>1, <1>5, <2>2, <2>3
<1> QED
  BY <1>4, <1>5

\* An element that is taken away was counted once.
LEMMA CountTail ==
  ASSUME NEW S, NEW s \in Seq(S), s # <<>>, NEW X
  PROVE  Count(s, X) = Count(Tail(s), X) + (IF Head(s) \in X THEN 1 ELSE 0)
<1> DEFINE all == {i \in DOMAIN s : s[i] \in X}
           rest == {i \in DOMAIN Tail(s) : Tail(s)[i] \in X}
           later == all \ {1}
           f == [i \in rest |-> i + 1]
<1>1. /\ Tail(s) \in Seq(S) /\ Len(s) \in Nat \ {0}
      /\ DOMAIN s = 1..Len(s) /\ DOMAIN Tail(s) = 1..(Len(s) - 1)
      /\ 1 \in DOMAIN s /\ Head(s) = s[1]
      /\ \A i \in DOMAIN Tail(s) : i + 1 \in DOMAIN s /\ Tail(s)[i] = s[i + 1]
  BY WithoutTheFirst
<1>2. /\ IsFiniteSet(all) /\ IsFiniteSet(rest)
      /\ Cardinality(all) \in Nat /\ Cardinality(rest) \in Nat
  BY <1>1, CountIsNumber DEF Count
<1>3. f \in Bijection(rest, later)
  <2>1. f \in [rest -> later]
    BY <1>1
  <2>2. \A i, j \in rest : f[i] = f[j] => i = j
    BY <1>1
  <2>3. \A j \in later : \E i \in rest : f[i] = j
    <3>1. ASSUME NEW j \in later PROVE j - 1 \in rest /\ f[j - 1] = j
      <4>1. j \in 1..Len(s) /\ j # 1 /\ s[j] \in X
        BY <1>1
      <4>2. j - 1 \in DOMAIN Tail(s) /\ j - 1 + 1 = j
        BY <1>1, <4>1
      <4>3. Tail(s)[j - 1] = s[j]
        BY <1>1, <4>2
      <4> QED
        BY <4>1, <4>2, <4>3
    <3> QED
      BY <3>1
  <2> QED
    BY <2>1, <2>2, <2>3 DEF Bijection, Injection, Surjection, IsInjective
<1>4. 1 \in all <=> Head(s) \in X
  BY <1>1
<1>5. Count(s, X) = Cardinality(all) /\ Count(Tail(s), X) = Cardinality(rest)
  BY DEF Count
<1>6. later = all \ {1}
  OBVIOUS
<1> HIDE DEF all, rest, later, f
<1>7. Cardinality(rest) = Cardinality(later)
  BY <1>2, <1>3, FS_Bijection DEF ExistsBijection
<1>8. Cardinality(later) = IF 1 \in all THEN Cardinality(all) - 1 ELSE Cardinality(all)
  BY <1>2, <1>6, FS_RemoveElement
<1>9. CASE Head(s) \in X
  <2>1. Cardinality(rest) = Cardinality(all) - 1
    BY <1>4, <1>7, <1>8, <1>9
  <2> QED
    BY <1>2, <1>5, <1>9, <2>1
<1>10. CASE Head(s) \notin X
  <2>1. Cardinality(rest) = Cardinality(all)
    BY <1>4, <1>7, <1>8, <1>10
  <2> QED
    BY <1>2, <1>5, <1>10, <2>1
<1> QED
  BY <1>9, <1>10

\* The requests of a call, and its frames, its connections whose frame was not read.
RequestsOf(c) == {k \in Connection : k[1] = c}
FramesOf(c)   == {frame \in RequestFrame : frame.call = c}
Unread(c)     == {a \in 1..MaxAttempts[c] : handler[<<c, a>>] = "accepted"}

\* Every signature of a call's transaction, and every chance of one more, is of an attempt.
Chances(c) ==
  signed[c] + Count(down, FramesOf(c)) + Count(requests, RequestsOf(c)) + Cardinality(Unread(c))

ChanceInv ==
  \A c \in Call : /\ Chances(c) <= calls[c].attempt
                  /\ calls[c].stage = "idle" => calls[c].attempt = 0

\* The attempts of a call whose frame was not read are finitely many.
LEMMA AttemptsAreFew ==
  ASSUME NEW c \in Call, NEW U, \A a \in U : a \in 1..MaxAttempts[c]
  PROVE  IsFiniteSet(U) /\ Cardinality(U) \in Nat
<1>1. PICK m \in Int : m = MaxAttempts[c]
  BY SigningAssumption DEF SigningAssumption
<1>2. IsFiniteSet(1..m)
  BY FS_Interval
<1>3. U \in SUBSET (1..m)
  BY <1>1
<1> QED
  BY <1>2, <1>3, FS_Subset, FS_CardinalityType

\* Everything that the chances are made of is a number.
LEMMA ChancesAreNumbers ==
  ASSUME TypeOK, NEW c \in Call
  PROVE  /\ signed[c] \in Nat /\ calls[c].attempt \in Nat
         /\ Count(down, FramesOf(c)) \in Nat /\ Count(requests, RequestsOf(c)) \in Nat
         /\ IsFiniteSet(Unread(c)) /\ Cardinality(Unread(c)) \in Nat
<1>1. /\ signed[c] \in Nat /\ calls[c].attempt \in Nat
      /\ down \in Seq(RequestFrame) /\ requests \in Seq(Connection)
  BY DEF TypeOK, RequestFrame
<1>2. IsFiniteSet(Unread(c)) /\ Cardinality(Unread(c)) \in Nat
  BY AttemptsAreFew DEF Unread
<1> QED
  BY <1>1, <1>2, CountIsNumber

\* What the chances of a call are made of, before a step and after it.
LEMMA ChancesAfter ==
  ASSUME TypeOK, TypeOK', ChanceInv, NEW c \in Call,
         NEW s, NEW d, NEW r, NEW u,
         s = signed'[c], d = Count(down', FramesOf(c)), r = Count(requests', RequestsOf(c)),
         u = Cardinality(Unread(c)'), NEW more \in {0, 1},
         s + d + r + u <= Chances(c) + more,
         calls'[c].attempt >= calls[c].attempt + more,
         calls'[c].stage = "idle" => calls[c].stage = "idle" /\ calls'[c].attempt = calls[c].attempt
  PROVE  /\ Chances(c)' <= calls'[c].attempt
         /\ calls'[c].stage = "idle" => calls'[c].attempt = 0
<1>1. FramesOf(c)' = FramesOf(c) /\ RequestsOf(c)' = RequestsOf(c)
  BY DEF FramesOf, RequestsOf, RequestFrame
<1>2. Chances(c)' = s + d + r + u
  BY <1>1 DEF Chances
<1>3. Chances(c) <= calls[c].attempt /\ (calls[c].stage = "idle" => calls[c].attempt = 0)
  BY DEF ChanceInv
<1>4. calls'[c].attempt \in Nat /\ calls[c].attempt \in Nat
  BY DEF TypeOK
<1>5. Chances(c) \in Nat
  BY ChancesAreNumbers DEF Chances
<1>6. s \in Nat /\ u \in Nat /\ d \in Nat /\ r \in Nat
  <2>1. s \in Nat /\ down' \in Seq(RequestFrame) /\ requests' \in Seq(Connection)
    BY DEF TypeOK, RequestFrame
  <2>2. d \in Nat /\ r \in Nat
    BY <2>1, CountIsNumber
  <2>3. u \in Nat
    <3>1. PICK U : U = Unread(c)'
      OBVIOUS
    <3>2. \A a \in U : a \in 1..MaxAttempts[c]
      BY <3>1 DEF Unread
    <3> QED
      BY <3>1, <3>2, AttemptsAreFew
  <2> QED
    BY <2>1, <2>2, <2>3
<1>7. PICK more1, was, now \in Nat :
        more1 = more /\ was = calls[c].attempt /\ now = calls'[c].attempt
  BY <1>4
<1>8. s + d + r + u <= was + more1 /\ now >= was + more1
  <2>1. PICK chances \in Nat : chances = Chances(c)
    BY <1>5
  <2>2. chances <= was /\ s + d + r + u <= chances + more1 /\ now >= was + more1
    BY <1>3, <1>7, <2>1
  <2> QED
    BY <1>6, <1>7, <2>2
<1>9. s + d + r + u <= now
  BY <1>6, <1>7, <1>8
<1> QED
  BY <1>2, <1>3, <1>7, <1>9

\* The connections of a call that wait for their frame to be read, when others do not change.
LEMMA UnreadAfter ==
  ASSUME TypeOK, NEW c \in Call
  PROVE  /\ UNCHANGED handler => Unread(c)' = Unread(c)
         /\ (\A k \in Connection : handler'[k] = "accepted" => handler[k] = "accepted")
              => Cardinality(Unread(c)') <= Cardinality(Unread(c))
<1>1. UNCHANGED handler => Unread(c)' = Unread(c)
  BY DEF Unread
<1>2. ASSUME \A k \in Connection : handler'[k] = "accepted" => handler[k] = "accepted"
      PROVE  Cardinality(Unread(c)') <= Cardinality(Unread(c))
  <2>1. PICK U : U = Unread(c)'
    OBVIOUS
  <2>2. \A a \in 1..MaxAttempts[c] : <<c, a>> \in Connection
    BY ConnectionsAreOfCalls
  <2>3. U \in SUBSET Unread(c)
    BY <1>2, <2>1, <2>2 DEF Unread
  <2>4. Cardinality(U) <= Cardinality(Unread(c))
    BY <2>3, ChancesAreNumbers, FS_Subset
  <2> QED
    BY <2>1, <2>4
<1> QED
  BY <1>1, <1>2

\* Neither more frames and requests nor more connections: no more chances.
LEMMA NoMoreChances ==
  ASSUME TypeOK, TypeOK', ChanceInv, NEW c \in Call, signed'[c] = signed[c],
         down' = down \/ down' = <<>>, requests' = requests \/ requests' = <<>>,
         \A k \in Connection : handler'[k] = "accepted" => handler[k] = "accepted",
         calls'[c].attempt = calls[c].attempt,
         calls'[c].stage = "idle" => calls[c].stage = "idle"
  PROVE  /\ Chances(c)' <= calls'[c].attempt
         /\ calls'[c].stage = "idle" => calls'[c].attempt = 0
<1>1. PICK d, r, u : /\ d = Count(down', FramesOf(c)) /\ r = Count(requests', RequestsOf(c))
                     /\ u = Cardinality(Unread(c)')
  OBVIOUS
<1>2. d <= Count(down, FramesOf(c)) /\ d \in Nat
  BY <1>1, CountEmpty, ChancesAreNumbers
<1>3. r <= Count(requests, RequestsOf(c)) /\ r \in Nat
  BY <1>1, CountEmpty, ChancesAreNumbers
<1>4. u <= Cardinality(Unread(c))
  BY <1>1, UnreadAfter
<1>5. u \in Nat
  <2>1. PICK U : U = Unread(c)'
    OBVIOUS
  <2>2. \A a \in 1..MaxAttempts[c] : <<c, a>> \in Connection
    BY ConnectionsAreOfCalls
  <2>3. U \in SUBSET Unread(c)
    BY <2>1, <2>2 DEF Unread
  <2>4. Cardinality(U) \in Nat
    BY <2>3, ChancesAreNumbers, FS_Subset, FS_CardinalityType
  <2> QED
    BY <1>1, <2>1, <2>4
<1>6. signed[c] + d + r + u <= Chances(c) + 0
  BY <1>2, <1>3, <1>4, <1>5, ChancesAreNumbers DEF Chances
<1>7. calls'[c].attempt >= calls[c].attempt + 0
  BY ChancesAreNumbers
<1> QED
  BY <1>1, <1>6, <1>7, ChancesAfter

\* A connection is opened: the attempt gives a chance more.
LEMMA AcceptedChance ==
  ASSUME PathInv, TypeOK', OnceInv, ChanceInv, NEW b \in Call, Ask(b) \/ Retry(b), NEW c \in Call
  PROVE  /\ Chances(c)' <= calls'[c].attempt
         /\ calls'[c].stage = "idle" => calls'[c].attempt = 0
<1>0. TypeOK /\ handler \in [Connection -> HandlerState]
  BY PathIsTyped DEF TypeOK
<1>1. PICK k \in Connection :
        /\ k[1] = b /\ handler' = [handler EXCEPT ![k] = "accepted"]
        /\ UNCHANGED <<requests, responses, tracker, down, signed>>
  BY AcceptedIsNew
<1>2. \A a \in 1..MaxAttempts[c] : <<c, a>> \in Connection /\ <<c, a>>[1] = c /\ <<c, a>>[2] = a
  BY ConnectionsAreOfCalls
<1>3. calls \in [Call -> [stage : CallStage, attempt : Nat]]
  BY <1>0 DEF TypeOK
<1>4. CASE c # b
  <2>1. calls'[c] = calls[c]
    BY <1>3, <1>4 DEF Ask, BeginCall, Retry, RetryCall
  <2>2. Unread(c)' = Unread(c)
    BY <1>0, <1>1, <1>2, <1>4 DEF Unread
  <2>3. signed'[c] + Count(down', FramesOf(c)) + Count(requests', RequestsOf(c))
          + Cardinality(Unread(c)') <= Chances(c) + 0
    BY <1>0, <1>1, <2>2, ChancesAreNumbers DEF Chances
  <2>4. calls'[c].attempt >= calls[c].attempt + 0
    BY <1>0, <2>1, ChancesAreNumbers
  <2> QED
    BY <1>0, <2>1, <2>3, <2>4, ChancesAfter
<1>5. CASE c = b
  <2>1. calls'[c].stage # "idle" /\ calls'[c].attempt >= calls[c].attempt + 1
    <3>1. CASE Ask(b)
      <4>1. calls[c].attempt = 0
        BY <1>5, <3>1 DEF Ask, BeginCall, ChanceInv
      <4> QED
        BY <1>3, <1>5, <3>1, <4>1 DEF Ask, BeginCall
    <3>2. CASE Retry(b)
      BY <1>3, <1>5, <3>2 DEF Retry, RetryCall, TimesOut
    <3> QED
      BY <3>1, <3>2
  <2>2. PICK U : U = Unread(c)'
    OBVIOUS
  <2>3. PICK a : a = k[2]
    OBVIOUS
  <2>4. U \in SUBSET (Unread(c) \union {a})
    BY <1>0, <1>1, <1>2, <2>2, <2>3 DEF Unread
  <2>5. /\ IsFiniteSet(Unread(c) \union {a})
        /\ Cardinality(Unread(c) \union {a}) <= Cardinality(Unread(c)) + 1
        /\ Cardinality(Unread(c) \union {a}) \in Nat
    <3>1. PICK V : V = Unread(c) /\ IsFiniteSet(V) /\ Cardinality(V) \in Nat
      BY <1>0, ChancesAreNumbers
    <3>2. /\ IsFiniteSet(V \union {a})
          /\ Cardinality(V \union {a}) = IF a \in V THEN Cardinality(V) ELSE Cardinality(V) + 1
      BY <3>1, FS_AddElement
    <3> QED
      BY <3>1, <3>2
  <2>6. Cardinality(U) <= Cardinality(Unread(c)) + 1 /\ Cardinality(U) \in Nat
    <3>1. Cardinality(U) <= Cardinality(Unread(c) \union {a}) /\ Cardinality(U) \in Nat
      BY <2>4, <2>5, FS_Subset, FS_CardinalityType
    <3> QED
      BY <1>0, <2>5, <3>1, ChancesAreNumbers
  <2>7. signed'[c] + Count(down', FramesOf(c)) + Count(requests', RequestsOf(c))
          + Cardinality(Unread(c)') <= Chances(c) + 1
    BY <1>0, <1>1, <2>2, <2>6, ChancesAreNumbers DEF Chances
  <2> QED
    BY <1>0, <2>1, <2>7, ChancesAfter
<1> QED
  BY <1>4, <1>5

\* A frame that is read becomes a request.
LEMMA ReadChance ==
  ASSUME TypeOK, TypeOK', ChanceInv, NEW k \in Connection, ReadRequest(k), NEW c \in Call
  PROVE  /\ Chances(c)' <= calls'[c].attempt
         /\ calls'[c].stage = "idle" => calls'[c].attempt = 0
<1>0. handler \in [Connection -> HandlerState] /\ requests \in Seq(Connection)
  BY DEF TypeOK
<1>1. /\ handler[k] = "accepted" /\ handler' = [handler EXCEPT ![k] = "reading"]
      /\ requests' = Append(requests, k) /\ UNCHANGED <<calls, down, signed>>
  BY DEF ReadRequest, ProduceRequest, wires
<1>2. PICK U, r : U = Unread(c)' /\ r = Count(requests', RequestsOf(c))
  OBVIOUS
<1>3. r = Count(requests, RequestsOf(c)) + (IF k[1] = c THEN 1 ELSE 0)
  <2>1. k \in RequestsOf(c) <=> k[1] = c
    BY DEF RequestsOf
  <2>2. Count(Append(requests, k), RequestsOf(c))
          = Count(requests, RequestsOf(c)) + (IF k \in RequestsOf(c) THEN 1 ELSE 0)
    BY <1>0, CountAppend
  <2> QED
    BY <1>1, <1>2, <2>1, <2>2
<1>4. \A a \in 1..MaxAttempts[c] : <<c, a>> \in Connection
  BY ConnectionsAreOfCalls
<1>5. Cardinality(U) + (IF k[1] = c THEN 1 ELSE 0) <= Cardinality(Unread(c))
      /\ Cardinality(U) \in Nat
  <2>1. PICK V, n : V = Unread(c) /\ IsFiniteSet(V) /\ n = Cardinality(V) /\ n \in Nat
    BY ChancesAreNumbers
  <2>2. CASE k[1] = c
    <3>1. PICK a \in 1..MaxAttempts[c] : k = <<c, a>>
      BY <2>2 DEF Connection
    <3>2. a \in V /\ U \in SUBSET (V \ {a})
      BY <1>0, <1>1, <1>2, <1>4, <2>1, <3>1 DEF Unread
    <3>3. IsFiniteSet(V \ {a}) /\ Cardinality(V \ {a}) = n - 1
      BY <2>1, <3>2, FS_RemoveElement
    <3>4. Cardinality(U) <= n - 1 /\ Cardinality(U) \in Nat
      BY <3>2, <3>3, FS_Subset, FS_CardinalityType
    <3> QED
      BY <2>1, <2>2, <3>4
  <2>3. CASE k[1] # c
    <3>1. U \in SUBSET V
      BY <1>0, <1>1, <1>2, <1>4, <2>1 DEF Unread
    <3>2. Cardinality(U) <= n /\ Cardinality(U) \in Nat
      BY <2>1, <3>1, FS_Subset, FS_CardinalityType
    <3> QED
      BY <2>1, <2>3, <3>2
  <2> QED
    BY <2>2, <2>3
<1>6. signed'[c] + Count(down', FramesOf(c)) + r + Cardinality(U) <= Chances(c) + 0
  <2>1. signed'[c] = signed[c] /\ Count(down', FramesOf(c)) = Count(down, FramesOf(c))
    BY <1>1
  <2> QED
    BY <1>3, <1>5, <2>1, ChancesAreNumbers DEF Chances
<1>7. calls'[c].attempt >= calls[c].attempt + 0 /\ calls' = calls
  BY <1>1, ChancesAreNumbers
<1> QED
  BY <1>2, <1>6, <1>7, ChancesAfter

\* A request becomes a frame, or is dropped.
LEMMA PassChance ==
  ASSUME TypeOK, TypeOK', ChanceInv, NEW l \in Link, Pass(l), NEW c \in Call
  PROVE  /\ Chances(c)' <= calls'[c].attempt
         /\ calls'[c].stage = "idle" => calls'[c].attempt = 0
<1>0. /\ requests \in Seq(Connection) /\ down \in Seq(RequestFrame)
      /\ links \in [Link -> LinkRecord]
  BY DEF TypeOK, RequestFrame, LinkRecord
<1>1. PICK k, frame : k = Head(requests) /\ frame = NextFrame(l)
  OBVIOUS
<1>2. /\ requests # <<>> /\ requests' = Tail(requests)
      /\ UNCHANGED <<calls, handler, signed>>
      /\ down' = down \/ down' = Append(down, frame)
  BY <1>1 DEF Pass, ConsumeRequest, Take
<1>3. k \in Connection /\ k[1] \in Call
  BY <1>0, <1>1, <1>2, WithoutTheFirst, ConnectionsAreOfCalls
<1>4. frame \in RequestFrame /\ frame.call = k[1]
  BY <1>0, <1>1, <1>3 DEF NextFrame, RequestFrame, LinkRecord
<1>5. PICK d, r, one : /\ d = Count(down', FramesOf(c)) /\ r = Count(requests', RequestsOf(c))
                       /\ one = IF k[1] = c THEN 1 ELSE 0
  OBVIOUS
<1>6. Count(requests, RequestsOf(c)) = r + one /\ r \in Nat
  <2>1. k \in RequestsOf(c) <=> k[1] = c
    BY <1>3 DEF RequestsOf
  <2>2. Count(requests, RequestsOf(c))
          = Count(Tail(requests), RequestsOf(c)) + (IF k \in RequestsOf(c) THEN 1 ELSE 0)
    BY <1>0, <1>1, <1>2, CountTail
  <2>3. Count(Tail(requests), RequestsOf(c)) \in Nat
    BY <1>0, <1>2, WithoutTheFirst, CountIsNumber
  <2> QED
    BY <1>2, <1>5, <2>1, <2>2, <2>3
<1>7. d <= Count(down, FramesOf(c)) + one /\ d \in Nat
  <2>1. frame \in FramesOf(c) <=> k[1] = c
    BY <1>4 DEF FramesOf
  <2>2. Count(down, FramesOf(c)) \in Nat
    BY <1>0, CountIsNumber
  <2>3. Count(Append(down, frame), FramesOf(c)) = Count(down, FramesOf(c)) + one
    <3>1. Count(Append(down, frame), FramesOf(c))
            = Count(down, FramesOf(c)) + (IF frame \in FramesOf(c) THEN 1 ELSE 0)
      BY <1>0, <1>4, CountAppend
    <3> QED
      BY <1>5, <2>1, <3>1
  <2>4. one \in {0, 1}
    BY <1>5
  <2>5. PICK old \in Nat : old = Count(down, FramesOf(c))
    BY <2>2
  <2>6. d = old \/ d = old + one
    BY <1>2, <1>5, <2>3, <2>5
  <2>7. d <= old + one /\ d \in Nat
    BY <2>4, <2>5, <2>6
  <2> QED
    BY <2>5, <2>7
<1>8. Unread(c)' = Unread(c)
  BY <1>2, UnreadAfter
<1>9. signed'[c] + d + r + Cardinality(Unread(c)') <= Chances(c) + 0
  <2>1. one \in Nat
    BY <1>5
  <2> QED
    BY <1>2, <1>6, <1>7, <1>8, <2>1, ChancesAreNumbers DEF Chances
<1>10. calls'[c].attempt >= calls[c].attempt + 0 /\ calls' = calls
  BY <1>2, ChancesAreNumbers
<1> QED
  BY <1>5, <1>9, <1>10, ChancesAfter

\* A frame is answered, with a signature or without.
LEMMA ServeChance ==
  ASSUME TypeOK, TypeOK', ChanceInv, Serve, NEW c \in Call
  PROVE  /\ Chances(c)' <= calls'[c].attempt
         /\ calls'[c].stage = "idle" => calls'[c].attempt = 0
<1>0. down \in Seq(RequestFrame) /\ signed \in [Call -> Nat]
  BY DEF TypeOK, RequestFrame
<1>1. PICK frame, s, d : frame = Head(down) /\ s = signed'[c] /\ d = Count(down', FramesOf(c))
  OBVIOUS
<1>2. /\ down # <<>> /\ down' = Tail(down)
      /\ UNCHANGED <<calls, handler, requests>>
      /\ signed' = signed \/ signed' = [signed EXCEPT ![frame.call] = @ + 1]
  BY <1>1 DEF Serve, Respond, mmVars, concentSide
<1>3. frame \in RequestFrame
  BY <1>0, <1>1, <1>2, WithoutTheFirst
<1>4. frame.call \in Call /\ (frame \in FramesOf(c) <=> frame.call = c)
  BY <1>3 DEF RequestFrame, FramesOf
<1>5. Count(down, FramesOf(c)) = d + (IF frame.call = c THEN 1 ELSE 0) /\ d \in Nat
  <2>1. Count(down, FramesOf(c))
          = Count(Tail(down), FramesOf(c)) + (IF frame \in FramesOf(c) THEN 1 ELSE 0)
    BY <1>0, <1>1, <1>2, CountTail
  <2>2. Count(Tail(down), FramesOf(c)) \in Nat
    BY <1>0, <1>2, WithoutTheFirst, CountIsNumber
  <2> QED
    BY <1>1, <1>2, <1>4, <2>1, <2>2
<1>6. s <= signed[c] + (IF frame.call = c THEN 1 ELSE 0) /\ s \in Nat
  <2>1. signed[c] \in Nat
    BY <1>0
  <2>2. CASE signed' = signed
    BY <1>1, <2>1, <2>2
  <2>3. CASE signed' = [signed EXCEPT ![frame.call] = @ + 1]
    BY <1>0, <1>1, <1>4, <2>1, <2>3
  <2> QED
    BY <1>2, <2>2, <2>3
<1>7. Unread(c)' = Unread(c)
  BY <1>2, UnreadAfter
<1>8. s + d + Count(requests', RequestsOf(c)) + Cardinality(Unread(c)') <= Chances(c) + 0
  BY <1>2, <1>5, <1>6, <1>7, ChancesAreNumbers DEF Chances
<1>9. calls'[c].attempt >= calls[c].attempt + 0 /\ calls' = calls
  BY <1>2, ChancesAreNumbers
<1> QED
  BY <1>1, <1>8, <1>9, ChancesAfter

\* Every step keeps the chances of a call within its attempts.
LEMMA ChanceStep ==
  ASSUME PathInv, PathInv', OnceInv, ChanceInv, [Next]_vars
  PROVE  ChanceInv'
<1>0. TypeOK /\ TypeOK'
  BY PathIsTyped, PTL
<1> SUFFICES ASSUME NEW c \in Call
             PROVE  /\ Chances(c)' <= calls'[c].attempt
                    /\ calls'[c].stage = "idle" => calls'[c].attempt = 0
  BY DEF ChanceInv
<1>1. CASE \E b \in Call : Ask(b) \/ Retry(b)
  BY <1>0, <1>1, AcceptedChance
<1>2. CASE \E k \in Connection : ReadRequest(k)
  BY <1>0, <1>2, ReadChance
<1>3. CASE \E l \in Link : Pass(l)
  BY <1>0, <1>3, PassChance
<1>4. CASE Serve
  BY <1>0, <1>4, ServeChance
<1>5. CASE /\ OtherStep
           /\ ~ \E k \in Connection : ReadRequest(k)
           /\ ~ \E l \in Link : Pass(l)
           /\ ~ Serve
  <2>1. /\ signed' = signed
        /\ down' = down \/ down' = <<>>
        /\ requests' = requests \/ requests' = <<>>
    <3>1. ASSUME NEW b \in Call, TimeOut(b) \/ Disconnect(b)
          PROVE  UNCHANGED <<signed, down, requests>>
      BY <3>1 DEF TimeOut, Disconnect, mmVars, concentSide, wires
    <3>2. ASSUME NEW k \in Connection, Deliver(k) \/ Release(k)
          PROVE  UNCHANGED <<signed, down, requests>>
      BY <3>2 DEF Deliver, ConsumeResponse, Release, ReleaseConnection, wires
    <3>3. ASSUME NEW l \in Link, Connect(l) \/ Return(l) \/ Decide(l) \/ EndLink(l)
          PROVE  UNCHANGED <<signed, down, requests>>
      BY <3>3 DEF Connect, AcceptLink, Return, ProduceResponse, Decide, Admit, Refuse, EndLink,
                  LoseCandidate, FinishAborted, EndService, concentSide, wires
    <3>4. CASE Answer \/ StartService \/ UNCHANGED vars
      BY <3>4 DEF Answer, ReceiveReply, StartService, vars, mmVars, concentSide, wires
    <3>5. CASE LeaveLink
      BY <3>5 DEF LeaveLink, mmVars, concentSide
    <3>6. CASE RestartMiddleMan
      BY <3>6 DEF RestartMiddleMan, Restart
    <3> DEFINE Kept == /\ signed' = signed
                       /\ down' = down \/ down' = <<>>
                       /\ requests' = requests \/ requests' = <<>>
    <3>7. ASSUME NEW k \in Connection, ConnectionStep(k) PROVE Kept
      BY <1>5, <3>2, <3>7 DEF ConnectionStep
    <3>8. ASSUME NEW l \in Link, LinkStep(l) PROVE Kept
      <4>1. Connect(l) \/ Return(l) \/ Decide(l) \/ EndLink(l)
        BY <1>5, <3>8 DEF LinkStep
      <4> QED
        BY <3>3, <4>1
    <3>9. CASE \E b \in Call : TimeOut(b) \/ Disconnect(b)
      BY <3>1, <3>9
    <3>10. CASE Answer \/ StartService \/ UNCHANGED vars \/ LeaveLink \/ RestartMiddleMan
      BY <3>4, <3>5, <3>6, <3>10
    <3>11. Kept
      <4>1. \/ \E b \in Call : TimeOut(b) \/ Disconnect(b)
            \/ \E k \in Connection : ConnectionStep(k)
            \/ \E l \in Link : LinkStep(l)
            \/ Answer \/ StartService \/ UNCHANGED vars \/ LeaveLink \/ RestartMiddleMan
        BY <1>5 DEF OtherStep
      <4>2. CASE \E k \in Connection : ConnectionStep(k)
        BY <3>7, <4>2
      <4>3. CASE \E l \in Link : LinkStep(l)
        BY <3>8, <4>3
      <4> QED
        BY <3>9, <3>10, <4>1, <4>2, <4>3
    <3> QED
      BY <3>11
  <2>2. /\ calls'[c].attempt = calls[c].attempt
        /\ calls'[c].stage = "idle" => calls[c].stage = "idle"
        /\ \A k \in Connection : handler'[k] = "accepted" => handler[k] = "accepted"
    BY <1>5, OthersMakeNone
  <2> QED
    BY <1>0, <2>1, <2>2, NoMoreChances
<1> QED
  BY <1>1, <1>2, <1>3, <1>4, <1>5, StepsOfCalls

\* At the start there are none.
LEMMA ChanceStart ==
  ASSUME Init
  PROVE  ChanceInv
<1> SUFFICES ASSUME NEW c \in Call
             PROVE  Chances(c) <= calls[c].attempt /\ calls[c].attempt = 0
  BY DEF ChanceInv
<1>1. /\ calls[c].attempt = 0 /\ signed[c] = 0 /\ down = <<>> /\ requests = <<>>
      /\ \A k \in Connection : handler[k] = "none"
  BY DEF Init, SciInit, MiddleManInit
<1>2. Unread(c) = {}
  BY <1>1, ConnectionsAreOfCalls DEF Unread
<1>3. Cardinality(Unread(c)) = 0
  BY <1>2, FS_EmptySet
<1>4. Count(down, FramesOf(c)) = 0 /\ Count(requests, RequestsOf(c)) = 0
  BY <1>1, CountEmpty
<1> QED
  BY <1>1, <1>3, <1>4 DEF Chances

\* A transaction is signed no more often than its call has sent it, although a frame is
\* passed on over any link and the link may break before the response comes back
\* (middleman_server.py, request_consumer; signing_service.py, _handle_connection).
THEOREM SignedNoMoreThanSent == Spec => []SignedOncePerAttempt
<1>1. Init => ChanceInv
  BY ChanceStart
<1>2. PathInv /\ PathInv' /\ OnceInv /\ ChanceInv /\ [Next]_vars => ChanceInv'
  BY ChanceStep
<1>3. PathInv /\ ChanceInv => SignedOncePerAttempt
  <2> SUFFICES ASSUME PathInv, ChanceInv, NEW c \in Call PROVE signed[c] <= calls[c].attempt
    BY DEF SignedOncePerAttempt
  <2>1. TypeOK
    BY PathIsTyped
  <2> QED
    BY <2>1, ChancesAreNumbers DEF ChanceInv, Chances
<1> QED
  BY <1>1, <1>2, <1>3, PathInvariant, OnceIsKept, PTL DEF Spec

=============================================================================
