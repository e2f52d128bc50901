---------------------------- MODULE SigningPath ----------------------------
(***************************************************************************)
(* How a transaction is signed: the callers in Concent, MiddleMan and the  *)
(* signing service, with the connections between them.                     *)
(***************************************************************************)
EXTENDS SciCallback, MiddleMan, ServiceConnection

VARIABLES
  link,   \* the one that the signing service has; 0 when there is none
  down,   \* the frames on their way to the signing service, over that link
  up,     \* the frames on their way back, over each link
  signed  \* history: how often the service has signed the transaction of a call

wires == <<link, down, up>>
vars == <<calls, mmVars, service, wires, signed>>

Init ==
  /\ SciInit
  /\ MiddleManInit
  /\ ConnectionInit
  /\ link = 0
  /\ down = <<>>
  /\ up = [l \in Link |-> <<>>]
  /\ signed = [c \in Call |-> 0]

-----------------------------------------------------------------------------
(* A caller and MiddleMan. *)

Ask(c) == BeginCall(c) /\ AcceptConnection(<<c, 1>>) /\ UNCHANGED <<service, wires, signed>>

Retry(c) ==
  /\ RetryCall(c)
  /\ AcceptConnection(<<c, calls[c].attempt + 1>>)
  /\ UNCHANGED <<service, wires, signed>>

TimeOut(c) == GiveUp(c) /\ UNCHANGED <<mmVars, service, wires, signed>>

Disconnect(c) ==
  /\ SeeDisconnection(c)
  /\ ~InPool(<<c, calls[c].attempt>>)
  /\ UNCHANGED <<mmVars, service, wires, signed>>

ReadRequest(k) == ProduceRequest(k) /\ UNCHANGED <<calls, service, wires, signed>>

\* The answer that comes after the caller has gone is lost.
Deliver(k) ==
  /\ ConsumeResponse(k)
  /\ IF HoldsOpen(k) THEN ReceiveAnswer(k[1], Head(responses[k])) ELSE UNCHANGED calls
  /\ UNCHANGED <<service, wires, signed>>

Release(k) ==
  /\ ~HoldsOpen(k)
  /\ ReleaseConnection(k)
  /\ UNCHANGED <<calls, service, wires, signed>>

-----------------------------------------------------------------------------
(* MiddleMan and the signing service.  What is under way is lost with its link. *)

Connect(l) ==
  /\ OpenSocket
  /\ AcceptLink(l)
  /\ link' = l
  /\ UNCHANGED <<calls, down, up, signed>>

\* The challenge may be answered when MiddleMan has turned to another candidate.
Answer ==
  /\ Authenticate
  /\ links[link].state # "refused"
  /\ IF links[link].state = "challenged" THEN ReceiveReply(link) ELSE UNCHANGED mmVars
  /\ UNCHANGED <<calls, wires, signed>>

LeaveLink ==
  /\ Fail \/ Stop
  /\ link' = 0
  /\ down' = <<>>
  /\ UNCHANGED <<calls, mmVars, up, signed>>

StartService == Start /\ UNCHANGED <<calls, mmVars, wires, signed>>

Pass(l) ==
  /\ ConsumeRequest(l)
  /\ down' = IF InPool(Head(requests)) /\ links[l].state = "served" /\ link = l
               THEN Append(down, NextFrame(l))
               ELSE down
  /\ UNCHANGED <<calls, service, link, up, signed>>

Respond(frame, payload) ==
  /\ down' = Tail(down)
  /\ up' = IF links[link].state = "served"
             THEN [up EXCEPT ![link] = Append(@, [id |-> frame.id, payload |-> payload])]
             ELSE up
  /\ UNCHANGED <<calls, mmVars, service, link>>

\* SigningService says when a transaction is rejected.
Serve ==
  /\ service.phase = "connected"
  /\ down # <<>>
  /\ LET frame == Head(down) IN
     \/ /\ signed' = [signed EXCEPT ![frame.call] = @ + 1]
        /\ Respond(frame, Signed(frame.call))
     \/ Respond(frame, Rejected(frame.call)) /\ UNCHANGED signed

Return(l) ==
  /\ up[l] # <<>>
  /\ ProduceResponse(l, Head(up[l]))
  /\ up' = [up EXCEPT ![l] = Tail(@)]
  /\ UNCHANGED <<calls, service, link, down, signed>>

Decide(l) == (Admit(l) \/ Refuse(l)) /\ UNCHANGED <<calls, service, wires, signed>>

EndLink(l) ==
  /\ LoseCandidate(l) \/ FinishAborted(l) \/ EndService(l)
  /\ up' = [up EXCEPT ![l] = <<>>]
  /\ UNCHANGED <<calls, service, link, down, signed>>

RestartMiddleMan ==
  /\ Restart
  /\ up' = [l \in Link |-> <<>>]
  /\ UNCHANGED <<calls, service, link, down, signed>>

-----------------------------------------------------------------------------
Caller(c) == Ask(c) \/ Retry(c) \/ TimeOut(c) \/ Disconnect(c)

ConnectionStep(k) == ReadRequest(k) \/ Deliver(k) \/ Release(k)

LinkStep(l) == Connect(l) \/ Pass(l) \/ Return(l) \/ Decide(l) \/ EndLink(l)

Next ==
  \/ \E c \in Call : Caller(c)
  \/ \E k \in Connection : ConnectionStep(k)
  \/ \E l \in Link : LinkStep(l)
  \/ Answer
  \/ LeaveLink
  \/ StartService
  \/ Serve
  \/ RestartMiddleMan

Spec == Init /\ [][Next]_vars

-----------------------------------------------------------------------------
\* The types of all that Concent, MiddleMan and the signing service keep.
TypeOK ==
  /\ calls \in [Call -> [stage : CallStage, attempt : Nat]]
  /\ handler \in [Connection -> HandlerState]
  /\ requests \in Seq(Connection)
  /\ responses \in [Connection -> Seq(Payload)]
  /\ tracker \in Seq([id : Nat, connection : Connection])
  /\ links \in [Link -> [state : LinkState, index : Nat, next : Nat]]
  /\ active \in BOOLEAN
  /\ candidates \in Seq(Link)
  /\ ConnectionTypeOK
  /\ link \in {0} \union Link
  /\ down \in Seq([id : Nat, call : Call])
  /\ up \in [Link -> Seq([id : Nat, payload : Payload])]
  /\ signed \in [Call -> Nat]

Outcome == [c \in Call |-> calls[c].stage]
SignedCalls == {c \in Call : signed[c] > 0}

Promise == INSTANCE Signing WITH outcome <- Outcome, signatures <- SignedCalls

\* sci_callback() returns what the service has signed for it, and nothing else, although
\* responses may be handed to the wrong connection.
ImplementsSigning == Promise!Spec

\* A transaction is signed no more often than it was sent: no request is passed on twice,
\* whatever happens to the links.
SignedOncePerAttempt == \A c \in Call : signed[c] <= calls[c].attempt

\* The flag that turns the signing service away is only set while a link is served:
\* nobody is locked out.
ActiveIsServed == active => \E l \in Link : IsServed(l)

\* Where a connection waits for its answer: in the queue, in the tracker, and as a response
\* that is to be sent.
Requested(k) == {i \in DOMAIN requests : requests[i] = k}
TrackedAt(k) == {i \in DOMAIN tracker : tracker[i].connection = k}

Places(k) ==
  ({"requests"} \X Requested(k)) \union
  ({"tracker"} \X TrackedAt(k)) \union
  ({"responses"} \X DOMAIN responses[k])

\* A connection is never answered twice: it waits in one place at most.
AnsweredOnce == \A k \in Connection : \A p, q \in Places(k) : p = q
=============================================================================
