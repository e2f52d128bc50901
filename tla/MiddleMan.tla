------------------------------ MODULE MiddleMan ------------------------------
(***************************************************************************)
(* MiddleMan (concent_api/middleman): it passes the requests of Concent's  *)
(* processes on to the one signing service, and the responses back.        *)
(*                                                                         *)
(* It is one asyncio event loop, so an action is what a coroutine does     *)
(* between two awaits.  A connection of Concent has a handler, a request   *)
(* producer and a response consumer; one of the signing service (a link)   *)
(* has to answer a challenge, and is then served by a request consumer and *)
(* a response producer.  A link may break at any moment, and either side   *)
(* learns of it by itself.                                                 *)
(*                                                                         *)
(* Concent's frames are valid, so the error responses of request_producer  *)
(* are left out.  Heartbeats change nothing but that a broken link is      *)
(* found, and ids do not reach CONNECTION_COUNTER_LIMIT.                   *)
(***************************************************************************)
EXTENDS SigningModel, SequencesExt

VARIABLES
  handler,     \* of each connection of Concent
  requests,    \* _request_queue, the connections whose frame is waiting
  responses,   \* _response_queue_pool, the queue of each connection
  tracker,     \* _message_tracker, in its order
  links,       \* the connections of the signing service
  active,      \* _is_signing_service_connection_active
  candidates   \* _ss_connection_candidates

concentSide == <<handler, requests, responses>>
mmVars      == <<concentSide, tracker, links, active, candidates>>

-----------------------------------------------------------------------------
\* "accepted": the frame was not read yet.
HandlerState == {"none", "accepted", "reading", "gone"}

InPool(k) == handler[k] \notin {"none", "gone"}

\* "refused": no challenge was sent; "hungUp": served, but MiddleMan has closed its own end.
LinkState ==
  {"none", "challenged", "replied", "aborted", "served", "hungUp", "closed", "refused"}

IsServed(l) == links[l].state \in {"served", "hungUp"}

Tracked(id) == \E i \in 1..Len(tracker) : tracker[i].id = id
PlaceOf(id) == CHOOSE i \in 1..Len(tracker) : tracker[i].id = id

\* index: the place among the candidates; next: signing_service_request_id.
NewLink == [state |-> "none", index |-> 0, next |-> 0]
ClosedLink == [state |-> "closed", index |-> 0, next |-> 0]

\* Mutant: the flag is only cleared when somebody else is a candidate.
FinallyKeepingFlag(l) ==
  /\ links' = [links EXCEPT ![l] = ClosedLink]
  /\ active' = (active /\ candidates = <<>>)

\* The handler of a link ends, in whatever way.
Finally(l) ==
  /\ links' = [links EXCEPT ![l] = ClosedLink]
  /\ active' = FALSE

MiddleManInit ==
  /\ handler = [k \in Connection |-> "none"]
  /\ requests = <<>>
  /\ responses = [k \in Connection |-> <<>>]
  /\ tracker = <<>>
  /\ links = [l \in Link |-> NewLink]
  /\ active = FALSE
  /\ candidates = <<>>

-----------------------------------------------------------------------------
(* Connections of Concent. *)

AcceptConnection(k) ==
  /\ handler' = [handler EXCEPT ![k] = "accepted"]
  /\ UNCHANGED <<requests, responses, tracker, links, active, candidates>>

\* request_producer() gets the frame.
ProduceRequest(k) ==
  /\ handler[k] = "accepted"
  /\ handler' = [handler EXCEPT ![k] = "reading"]
  /\ requests' = Append(requests, k)
  /\ UNCHANGED <<responses, tracker, links, active, candidates>>

\* The client has closed the connection: request_producer() ends, the handler sleeps for
\* PROCESSING_TIMEOUT and joins the queue.
ReleaseConnection(k) ==
  /\ handler[k] = "reading"
  /\ responses[k] = <<>>
  /\ handler' = [handler EXCEPT ![k] = "gone"]
  /\ UNCHANGED <<requests, responses, tracker, links, active, candidates>>

\* response_consumer().
ConsumeResponse(k) ==
  /\ InPool(k)
  /\ responses[k] # <<>>
  /\ responses' = [responses EXCEPT ![k] = Tail(@)]
  /\ UNCHANGED <<handler, requests, tracker, links, active, candidates>>

-----------------------------------------------------------------------------
(* Links that are served. *)

\* Mutant: the request stays in the queue until it is sent, and is not removed then.
Peek(queue) == queue

Take(queue) == Tail(queue)

\* A key of an OrderedDict that is set again keeps its place.
Track(id, k) ==
  IF Tracked(id) THEN [tracker EXCEPT ![PlaceOf(id)].connection = k]
  ELSE Append(tracker, [id |-> id, connection |-> k])

\* The frame that request_consumer() sends for the first request.
NextFrame(l) == [id |-> links[l].next + 1, call |-> Head(requests)[1]]

\* request_consumer().
ConsumeRequest(l) ==
  LET k == Head(requests)
      id == NextFrame(l).id
  IN
  /\ IsServed(l)
  /\ requests # <<>>
  /\ requests' = Take(requests)
  /\ IF InPool(k)
       THEN links' = [links EXCEPT ![l].next = id] /\ tracker' = Track(id, k)
       ELSE UNCHANGED <<links, tracker>>
  /\ UNCHANGED <<handler, responses, active, candidates>>

\* Mutant: the entry itself stays.
After(i) == SubSeq(tracker, i, Len(tracker))

\* discard_entries_for_lost_messages(), and the entry itself is deleted.
Later(i) == SubSeq(tracker, i + 1, Len(tracker))

\* response_producer().
ProduceResponse(l, frame) ==
  LET i == PlaceOf(frame.id)
      k == tracker[i].connection
  IN
  /\ links[l].state = "served"
  /\ \/ ~Tracked(frame.id) /\ UNCHANGED <<tracker, responses>>
     \/ /\ Tracked(frame.id)
        /\ ~InPool(k)
        /\ tracker' = RemoveAt(tracker, i)
        /\ UNCHANGED responses
     \/ /\ Tracked(frame.id)
        /\ InPool(k)
        /\ tracker' = Later(i)
        /\ responses' = [responses EXCEPT ![k] = Append(@, frame.payload)]
  /\ UNCHANGED <<handler, requests, links, active, candidates>>

\* One of the tasks of a link ends, and with it the others.
EndService(l) ==
  /\ IsServed(l)
  /\ Finally(l)
  /\ UNCHANGED <<concentSide, tracker, candidates>>

-----------------------------------------------------------------------------
(* Authentication of links. *)

AcceptLink(l) ==
  /\ links[l].state = "none"
  /\ \A j \in 1..(l - 1) : links[j].state # "none"
  /\ IF active
       THEN /\ links' = [links EXCEPT ![l].state = "refused"]
            /\ UNCHANGED candidates
       ELSE /\ links' = [links EXCEPT ![l].state = "challenged", ![l].index = Len(candidates) + 1]
            /\ candidates' = Append(candidates, l)
  /\ UNCHANGED <<concentSide, tracker, active>>

\* The signing service answers the challenge.
ReceiveReply(l) ==
  /\ links[l].state = "challenged"
  /\ links' = [links EXCEPT ![l].state = "replied"]
  /\ UNCHANGED <<concentSide, tracker, active, candidates>>

\* pop(index) fails when an earlier candidate was removed meanwhile.
HasEntry(l) == links[l].index <= Len(candidates)

\* _abort_ongoing_authentication(), for a link that is still in the list.
Aborted(record) ==
  IF record.state \in {"challenged", "replied"} THEN [NewLink EXCEPT !.state = "aborted"]
  ELSE IF record.state = "served" THEN [record EXCEPT !.state = "hungUp"]
  ELSE record

\* The reply is right: the other candidates are aborted.
Admit(l) ==
  LET others == ToSet(RemoveAt(candidates, links[l].index))
      admitted == [links EXCEPT ![l] = [NewLink EXCEPT !.state = "served"]]
  IN
  /\ links[l].state = "replied"
  /\ IF HasEntry(l)
       THEN /\ links' = [j \in Link |->
                           IF j \in others THEN Aborted(admitted[j]) ELSE admitted[j]]
            /\ candidates' = <<>>
            /\ active' = TRUE
       ELSE Finally(l) /\ UNCHANGED candidates
  /\ UNCHANGED <<concentSide, tracker>>

\* The reply is wrong.
Refuse(l) ==
  /\ links[l].state = "replied"
  /\ Finally(l)
  /\ candidates' = IF HasEntry(l) THEN RemoveAt(candidates, links[l].index) ELSE candidates
  /\ UNCHANGED <<concentSide, tracker>>

\* No valid frame comes: is_authenticated() raises, and the candidate stays in the list.
LoseCandidate(l) ==
  /\ links[l].state \in {"challenged", "replied"}
  /\ Finally(l)
  /\ UNCHANGED <<concentSide, tracker, candidates>>

\* The handler of an aborted candidate is cancelled.
FinishAborted(l) ==
  /\ links[l].state = "aborted"
  /\ Finally(l)
  /\ UNCHANGED <<concentSide, tracker, candidates>>

-----------------------------------------------------------------------------
\* MiddleMan is stopped, and started again: everything is in memory.
Restart ==
  /\ handler' = [k \in Connection |-> IF InPool(k) THEN "gone" ELSE handler[k]]
  /\ requests' = <<>>
  /\ responses' = [k \in Connection |-> <<>>]
  /\ tracker' = <<>>
  /\ links' = [l \in Link |->
                 IF links[l].state = "none" THEN NewLink ELSE ClosedLink]
  /\ active' = FALSE
  /\ candidates' = <<>>
=============================================================================
