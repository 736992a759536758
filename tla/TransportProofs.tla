-------------------------- MODULE TransportProofs --------------------------
(***************************************************************************)
(* The transport implements module Ledger, and what its calls return was   *)
(* true while they lasted, for any number of nodes, calls and messages.    *)
(***************************************************************************)
EXTENDS Transport, TLAPS

\* A POST carries a message that its node submitted, or does not decode; its
\* path is that of the message.
Posted ==
    \A c \in Call :
        request[c].method = "POST" =>
            /\ request[c].path \in Posting
            /\ request[c].body # Malformed =>
                /\ request[c].body \in sent
                /\ request[c].body.path = request[c].path

\* There is no reply to a call that has not been made.
Quiet == \A c \in Call : client[c] = "idle" => reply[c] = NoReply

\* A POST that is answered with a success has had its effect.
Effected ==
    \A c \in Call :
        request[c].method = "POST" /\ reply[c].status \in 200 .. 299
            => request[c].body \in recorded

\* The gate is at the newest message on record, or beyond it.
Gate ==
    \A r \in recorded : r.path \in Gated => r.no <= last[Stream(r)]

\* The truth of the moment is among what a waiting call may be told,
Witnessed ==
    \A c \in Call :
        client[c] = "waiting" => Truth(request[c], offers, fee) \in seen[c]

\* and so is what it has been answered.
Truthful ==
    \A c \in Call :
        /\ client[c] = "waiting"
        /\ request[c].method = "GET"
        /\ reply[c].status \in 200 .. 299
        /\ reply[c].body # Broken
        => reply[c].body \in seen[c]

IInv == TypeOK /\ Posted /\ Quiet /\ Effected /\ Gate /\ Witnessed /\ Truthful
          /\ FreshAnswer

-----------------------------------------------------------------------------

LEMMA MessageTyped ==
    ASSUME NEW m \in Message
    PROVE  /\ m.path \in Posting /\ m.node \in Node
           /\ m.path \in Gated => m.no \in Nat /\ Stream(m) \in Gated \X Node
BY PathAssumption, BoundAssumption DEF Message, Posting, Stream

LEMMA TruthTyped ==
    ASSUME NEW r, NEW offered \in [Node -> SUBSET Job], NEW declared \in Nat
    PROVE  Truth(r, offered, declared) \in Value
BY DEF Truth, Value

\* A node's truth is what is on offer to it.
LEMMA TruthOfNode ==
    ASSUME NEW r, NEW n \in Node, r.path # "fees", r.caller = SPIFFEPathForNode(n),
           NEW offered \in [Node -> SUBSET Job], NEW declared
    PROVE  Truth(r, offered, declared) = offered[n]
<1>1. {k \in Node : r.caller = SPIFFEPathForNode(k)} = {n}
  BY DEF SPIFFEPathForNode
<1> QED
  BY <1>1 DEF Truth

\* A step that changes neither offers nor the declaration keeps Witnessed if
\* each call that waits has waited with the same request or has just begun.
LEMMA StillWitnessed ==
    ASSUME UNCHANGED <<offers, fee>>, Witnessed,
           \A c \in Call : client'[c] = "waiting" =>
               \/ /\ client[c] = "waiting"
                  /\ request'[c] = request[c]
                  /\ seen'[c] = seen[c]
               \/ Truth(request'[c], offers, fee) \in seen'[c]
    PROVE  Witnessed'
<1> SUFFICES ASSUME NEW c \in Call, client'[c] = "waiting"
             PROVE  Truth(request'[c], offers', fee') \in seen'[c]
  BY DEF Witnessed, Truth
<1>1. offers' = offers /\ fee' = fee
  OBVIOUS
<1>2. client[c] = "waiting" => Truth(request[c], offers, fee) \in seen[c]
  BY DEF Witnessed
<1> QED
  BY <1>1, <1>2

LEMMA InitIInv == Init => IInv
<1> SUFFICES ASSUME Init PROVE IInv
  OBVIOUS
<1>1. TypeOK
  BY DEF Init, TypeOK, NoRequest, NoReply, Request, RequestType, Path, Value
<1>2. Posted /\ Quiet /\ Effected /\ Gate
  BY DEF Init, Posted, Quiet, Effected, Gate, NoRequest, NoReply, Request
<1>3. Witnessed /\ Truthful /\ FreshAnswer
  BY DEF Init, Witnessed, Truthful, FreshAnswer
<1> QED
  BY <1>1, <1>2, <1>3 DEF IInv

-----------------------------------------------------------------------------
(* The caller's steps *)

LEMMA BeginIInv ==
    ASSUME IInv, NEW c \in Call, NEW r \in RequestType, Begin(c, r),
           sent \subseteq sent', sent' \subseteq Message,
           r.method = "POST" =>
               /\ r.path \in Posting
               /\ r.body # Malformed => r.body \in sent' /\ r.body.path = r.path
    PROVE  IInv'
<1> USE DEF IInv, Begin, callVars, coordVars
<1>1. Truth(r, offers, fee) \in Value
  BY TruthTyped DEF TypeOK
<1>2. TypeOK'
  BY <1>1 DEF TypeOK
<1>3. Posted'
  BY DEF Posted, TypeOK
<1>4. Quiet'
  BY DEF Quiet, TypeOK
<1>5. reply[c].status = 0
  BY DEF Quiet, NoReply
<1>6. Effected'
  BY <1>5 DEF Effected, TypeOK
<1>7. Gate'
  BY DEF Gate, Stream
<1>8. Witnessed'
  <2>1. \A d \in Call : client'[d] = "waiting" =>
            \/ client[d] = "waiting" /\ request'[d] = request[d] /\ seen'[d] = seen[d]
            \/ Truth(request'[d], offers, fee) \in seen'[d]
    BY DEF TypeOK
  <2> QED
    BY <2>1, StillWitnessed
<1>9. Truthful' /\ FreshAnswer'
  BY <1>5 DEF Truthful, FreshAnswer, TypeOK
<1> QED
  BY <1>2, <1>3, <1>4, <1>6, <1>7, <1>8, <1>9

LEMMA PostIInv ==
    ASSUME IInv, NEW c \in Call, NEW m \in Message, Begin(c, PostJSON(m)),
           sent' = sent \cup {m}
    PROVE  IInv'
<1>1. m.path \in Posting /\ m.node \in Node
  BY MessageTyped
<1>2. PostJSON(m) \in RequestType
  BY <1>1 DEF PostJSON, Request, RequestType, Path
<1>3. sent \subseteq sent' /\ sent' \subseteq Message
  BY DEF IInv, TypeOK
<1> QED
  BY <1>1, <1>2, <1>3, BeginIInv DEF PostJSON, Request

LEMMA GetIInv ==
    ASSUME IInv, NEW c \in Call, NEW r \in RequestType, Begin(c, r), UNCHANGED sent,
           r.method = "POST" => r.path \in Posting /\ r.body = Malformed
    PROVE  IInv'
<1>1. sent \subseteq sent' /\ sent' \subseteq Message
  BY DEF IInv, TypeOK
<1> QED
  BY <1>1, BeginIInv

LEMMA GiveUpIInv ==
    ASSUME IInv, NEW c \in Call, GiveUp(c)
    PROVE  IInv'
<1> USE DEF IInv, GiveUp, coordVars
<1>1. TypeOK' /\ Posted' /\ Quiet' /\ Effected'
  BY DEF TypeOK, Posted, Quiet, Effected
<1>2. Gate'
  BY DEF Gate, Stream
<1>3. Witnessed'
  BY StillWitnessed DEF TypeOK
<1>4. Truthful' /\ FreshAnswer'
  BY DEF Truthful, FreshAnswer, TypeOK
<1> QED
  BY <1>1, <1>2, <1>3, <1>4

\* What do returns, by the reply it is given.
LEMMA Results ==
    ASSUME NEW r, NEW answer
    PROVE  LET result == do(r, answer)
           IN  /\ result.err \in {"nil", "err"}
               /\ result.out \in {NoBody, answer.body}
               /\ result.err = "nil" =>
                    /\ answer.status \in 200 .. 299
                    /\ r.method # "POST" => /\ answer.body # Broken
                                            /\ result.out = answer.body
BY DEF do, Failed, Returned

LEMMA ReceiveIInv ==
    ASSUME IInv, NEW c \in Call, Receive(c)
    PROVE  IInv'
<1> DEFINE result == do(request[c], reply[c])
<1>1. /\ client[c] = "waiting"
      /\ client' = [client EXCEPT ![c] = result.err]
      /\ out' = [out EXCEPT ![c] = result.out]
      /\ confirmed' = IF result.err = "nil" /\ request[c].method = "POST"
                      THEN confirmed \cup {request[c].body} ELSE confirmed
      /\ UNCHANGED <<request, reply, seen, sent, recorded, last, offers, fee>>
  BY DEF Receive, coordVars
<1>2. /\ result.err \in {"nil", "err"}
      /\ result.out \in {NoBody, reply[c].body}
      /\ result.err = "nil" =>
           /\ reply[c].status \in 200 .. 299
           /\ request[c].method # "POST" => /\ reply[c].body # Broken
                                            /\ result.out = reply[c].body
  BY Results
<1> HIDE DEF result
<1>3. confirmed' \subseteq recorded
  BY <1>1, <1>2 DEF IInv, TypeOK, Effected
<1>4. TypeOK'
  BY <1>1, <1>2, <1>3 DEF IInv, TypeOK
<1>5. Posted' /\ Quiet' /\ Effected'
  BY <1>1, <1>2 DEF IInv, TypeOK, Posted, Quiet, Effected
<1>6. Gate'
  BY <1>1 DEF IInv, Gate, Stream
<1>7. Witnessed'
  BY <1>1, <1>2, StillWitnessed DEF IInv, TypeOK
<1>8. Truthful' /\ FreshAnswer'
  BY <1>1, <1>2 DEF IInv, TypeOK, Posted, Truthful, FreshAnswer
<1> QED
  BY <1>4, <1>5, <1>6, <1>7, <1>8 DEF IInv

LEMMA ForgetIInv ==
    ASSUME IInv, NEW c \in Call, Forget(c)
    PROVE  IInv'
<1> USE DEF IInv, Forget, coordVars
<1>1. TypeOK'
  BY DEF TypeOK, NoRequest, NoReply, Request, RequestType, Path
<1>2. Posted' /\ Quiet' /\ Effected'
  BY DEF TypeOK, Posted, Quiet, Effected, NoRequest, NoReply, Request
<1>3. Gate'
  BY DEF Gate, Stream
<1>4. Witnessed'
  BY StillWitnessed DEF TypeOK
<1>5. Truthful' /\ FreshAnswer'
  BY DEF Truthful, FreshAnswer, TypeOK
<1> QED
  BY <1>1, <1>2, <1>3, <1>4, <1>5

-----------------------------------------------------------------------------
(* Handler's steps *)

\* A reply keeps the invariant when a success of a POST stands for a message
\* on record, and one of a GET for something its caller may be told.
LEMMA RespondIInv ==
    ASSUME IInv, NEW c \in Call, Arrived(c),
           NEW status \in Nat, NEW body \in Value \cup {NoBody, Broken},
           Respond(c, status, body),
           recorded \subseteq recorded', recorded' \subseteq sent,
           last' \in [Gated \X Node -> Nat], Gate',
           request[c].method = "POST" /\ status \in 200 .. 299
               => request[c].body \in recorded',
           /\ client[c] = "waiting" /\ request[c].method = "GET"
           /\ status \in 200 .. 299 /\ body # Broken
           => body \in seen[c]
    PROVE  IInv'
<1> USE DEF IInv, Respond, Arrived
<1>1. /\ reply'[c] = [status |-> status, body |-> body]
      /\ \A d \in Call \ {c} : reply'[d] = reply[d]
  BY DEF TypeOK
<1>2. TypeOK'
  BY DEF TypeOK
<1>3. Posted' /\ Quiet'
  BY <1>1 DEF Posted, Quiet
<1>4. Effected'
  BY <1>1 DEF Effected
<1>5. Witnessed'
  BY StillWitnessed
<1>6. Truthful' /\ FreshAnswer'
  BY <1>1 DEF Truthful, FreshAnswer
<1> QED
  BY <1>2, <1>3, <1>4, <1>5, <1>6

\* A reply that says nothing of the coordinator.
LEMMA RefusalIInv ==
    ASSUME IInv, NEW c \in Call, Arrived(c), NEW status \in Nat \ (200 .. 299),
           Respond(c, status, NoBody), UNCHANGED <<recorded, last>>
    PROVE  IInv'
<1>1. Gate'
  BY DEF IInv, Gate, Stream
<1> QED
  BY <1>1, RespondIInv DEF IInv, TypeOK

LEMMA RefusalStatuses ==
    ASSUME NEW r
    PROVE  /\ Refusal(r) \in {0, 400, 404, 405}
           /\ Refusal(r) = 0 =>
                /\ r.path \in Posting <=> r.method = "POST"
                /\ r.path \in Posting \cup {"jobs", "fees"}
                /\ r.path \in {"jobs", "fees"} => r.method = "GET"
                /\ r.body # Malformed
                /\ r.path = "jobs" => r.id # NoId
BY PathAssumption DEF Refusal

\* What the request that PostAccepted records is.
LEMMA AcceptedMessage ==
    ASSUME IInv, NEW c \in Call, Dispatched(c), request[c].path \in Posting
    PROVE  /\ request[c].method = "POST"
           /\ request[c].body \in sent /\ request[c].body \in Message
           /\ request[c].body.path = request[c].path
BY RefusalStatuses DEF IInv, TypeOK, Posted, Dispatched

LEMMA PostAcceptedIInv ==
    ASSUME IInv, NEW c \in Call, PostAccepted(c)
    PROVE  IInv'
<1> DEFINE m == request[c].body
<1>1. /\ Dispatched(c) /\ request[c].path \in Posting /\ Accepts(m)
      /\ recorded' = recorded \cup {m}
      /\ last' = IF m.path \in Gated THEN [last EXCEPT ![Stream(m)] = m.no] ELSE last
      /\ Respond(c, 204, NoBody)
  BY DEF PostAccepted
<1>2. m \in sent /\ m \in Message /\ request[c].method = "POST"
  BY <1>1, AcceptedMessage
<1>3. m.path \in Gated => m.no \in Nat /\ Stream(m) \in Gated \X Node
  BY <1>2, MessageTyped
<1>4. last \in [Gated \X Node -> Nat]
  BY DEF IInv, TypeOK
<1> HIDE DEF m
<1>5. last' \in [Gated \X Node -> Nat]
  BY <1>1, <1>3, <1>4
<1>6. ASSUME NEW r \in recorded', r.path \in Gated
      PROVE  r.no <= last'[Stream(r)]
  <2>1. r \in Message
    BY <1>1, <1>2 DEF IInv, TypeOK
  <2>2. r.no \in Nat /\ Stream(r) \in Gated \X Node
    BY <2>1, <1>6, MessageTyped
  <2>3. CASE r = m
    BY <2>3, <2>2, <1>1, <1>4, <1>6
  <2>4. CASE r # m
    <3>1. r.no <= last[Stream(r)]
      BY <2>4, <1>1, <1>6 DEF IInv, Gate
    <3>2. CASE m.path \in Gated /\ Stream(r) = Stream(m)
      <4>1. last[Stream(m)] \in Nat /\ m.no > last[Stream(m)]
        BY <3>2, <1>1, <1>3, <1>4 DEF Accepts, Newer
      <4> QED
        BY <4>1, <3>1, <3>2, <2>2, <1>1, <1>3, <1>4
    <3>3. CASE ~(m.path \in Gated /\ Stream(r) = Stream(m))
      BY <3>1, <3>3, <2>2, <1>1, <1>3, <1>4
    <3> QED
      BY <3>2, <3>3
  <2> QED
    BY <2>3, <2>4
<1>7. Gate'
  BY <1>6 DEF Gate, Stream
<1>8. recorded \subseteq recorded' /\ recorded' \subseteq sent
  BY <1>1, <1>2 DEF IInv, TypeOK
<1>9. Arrived(c) /\ request[c].body \in recorded'
  BY <1>1 DEF Dispatched, m
<1> QED
  BY <1>1, <1>2, <1>5, <1>7, <1>8, <1>9, RespondIInv

\* An answer that is true of its caller at the moment it is given.
LEMMA WriteIInv ==
    ASSUME IInv, NEW c \in Call, Dispatched(c), request[c].path \in {"jobs", "fees"},
           NEW v \in Value, v = Truth(request[c], offers, fee), WriteJSON(c, v)
    PROVE  IInv'
<1>1. PICK body \in {v, Broken} : Respond(c, 200, body)
  BY DEF WriteJSON
<1>2. UNCHANGED <<recorded, last>>
  BY DEF WriteJSON
<1>3. Gate'
  BY <1>2 DEF IInv, Gate, Stream
<1>4. request[c].method = "GET" /\ Arrived(c)
  BY RefusalStatuses DEF Dispatched
<1>5. client[c] = "waiting" => v \in seen[c]
  BY DEF IInv, Witnessed
<1> QED
  BY <1>1, <1>2, <1>3, <1>4, <1>5, RespondIInv DEF IInv, TypeOK

LEMMA ServeJobsIInv ==
    ASSUME IInv, NEW c \in Call, ServeJobs(c)
    PROVE  IInv'
<1> DEFINE id == request[c].id
<1>1. /\ Dispatched(c) /\ request[c].path = "jobs"
      /\ request[c].caller = SPIFFEPathForNode(id)
      /\ WriteJSON(c, offers[id])
  BY DEF ServeJobs, BindsTo
<1>2. request[c] \in RequestType /\ offers \in [Node -> SUBSET Job]
  BY DEF IInv, TypeOK
<1>3. id \in Node
  BY <1>1, <1>2, RefusalStatuses DEF Dispatched, RequestType
<1>4. offers[id] = Truth(request[c], offers, fee)
  BY <1>1, <1>2, <1>3, TruthOfNode
<1>5. offers[id] \in Value
  BY <1>2, <1>3 DEF Value
<1> QED
  BY <1>1, <1>4, <1>5, WriteIInv

LEMMA ServeFeesIInv ==
    ASSUME IInv, NEW c \in Call, ServeFees(c)
    PROVE  IInv'
<1>1. {fee} \in Value /\ Dispatched(c) /\ request[c].path = "fees" /\ WriteJSON(c, {fee})
  BY DEF IInv, TypeOK, Value, ServeFees
<1>2. {fee} = Truth(request[c], offers, fee)
  BY <1>1 DEF Truth
<1> QED
  BY <1>1, <1>2, WriteIInv

LEMMA ChangeIInv ==
    ASSUME IInv, NEW offered \in [Node -> SUBSET Job], NEW declared \in Nat,
           Change(offered, declared)
    PROVE  IInv'
<1> USE DEF IInv, Change
<1>1. \A c \in Call : Truth(request[c], offered, declared) \in Value
  BY TruthTyped
<1>2. \A c \in Call :
        /\ seen[c] \subseteq seen'[c]
        /\ client[c] = "waiting" => Truth(request[c], offered, declared) \in seen'[c]
        /\ seen'[c] \subseteq seen[c] \cup {Truth(request[c], offered, declared)}
  OBVIOUS
<1>3. seen' \in [Call -> SUBSET Value]
  <2>1. \A c \in Call : seen'[c] \in SUBSET Value
    BY <1>1, <1>2 DEF TypeOK
  <2>2. seen' = [c \in Call |-> seen'[c]]
    BY Zenon
  <2> QED
    BY <2>1, <2>2
<1>4. TypeOK'
  BY <1>3 DEF TypeOK
<1>5. Posted' /\ Quiet' /\ Effected'
  BY DEF Posted, Quiet, Effected
<1>6. Gate'
  BY DEF Gate, Stream
<1>7. Witnessed'
  <2> SUFFICES ASSUME NEW c \in Call, client'[c] = "waiting"
               PROVE  Truth(request'[c], offers', fee') \in seen'[c]
    BY DEF Witnessed, Truth
  <2>1. offers' = offered /\ fee' = declared /\ request' = request /\ client' = client
    OBVIOUS
  <2> QED
    BY <2>1, <1>2
<1>8. Truthful' /\ FreshAnswer'
  BY <1>2 DEF Truthful, FreshAnswer
<1> QED
  BY <1>4, <1>5, <1>6, <1>7, <1>8

-----------------------------------------------------------------------------

LEMMA StepIInv == IInv /\ [Next]_vars => IInv'
<1> SUFFICES ASSUME IInv, [Next]_vars PROVE IInv'
  OBVIOUS
<1>1. ASSUME NEW c \in Call, NEW m \in Message, Submit(c, m)
      PROVE  IInv'
  BY <1>1, PostIInv DEF Submit
<1>2. ASSUME NEW c \in Call, NEW m \in Message, Resubmit(c, m)
      PROVE  IInv'
  <2>1. sent' = sent \cup {m}
    BY <1>2 DEF Resubmit
  <2> QED
    BY <1>2, <2>1, PostIInv DEF Resubmit
<1>3. ASSUME NEW c \in Call, NEW id \in Node \cup {NoId}, NEW caller \in Path,
             PollJobs(c, id, caller)
      PROVE  IInv'
  <2>1. GetJobs(id, caller) \in RequestType /\ GetJobs(id, caller).method = "GET"
    BY DEF GetJobs, Request, RequestType
  <2> QED
    BY <1>3, <2>1, GetIInv DEF PollJobs
<1>4. ASSUME NEW c \in Call, Fees(c)
      PROVE  IInv'
  <2>1. GetFees \in RequestType /\ GetFees.method = "GET"
    BY DEF GetFees, Request, RequestType, Path
  <2> QED
    BY <1>4, <2>1, GetIInv DEF Fees
<1>5. ASSUME NEW c \in Call, NEW r \in Stray, Intrude(c, r)
      PROVE  IInv'
  <2>1. /\ r \in RequestType
        /\ r.method = "POST" => r.path \in Posting /\ r.body = Malformed
    BY DEF Stray, Request, RequestType, Path
  <2> QED
    BY <1>5, <2>1, GetIInv DEF Intrude
<1>6. ASSUME NEW c \in Call, GiveUp(c) \/ Receive(c) \/ Forget(c)
      PROVE  IInv'
  BY <1>6, GiveUpIInv, ReceiveIInv, ForgetIInv
<1>7. ASSUME NEW c \in Call,
             RefuseRequest(c) \/ PostRefused(c) \/ RefuseCaller(c) \/ CoordinatorFails(c)
      PROVE  IInv'
  <2>1. PICK status \in {400, 401, 403, 404, 405, 500} :
            Arrived(c) /\ Respond(c, status, NoBody) /\ UNCHANGED <<recorded, last>>
    BY <1>7, RefusalStatuses
       DEF RefuseRequest, PostRefused, RefuseCaller, CoordinatorFails, Dispatched
  <2>2. status \in Nat \ (200 .. 299)
    OBVIOUS
  <2> QED
    BY <2>1, <2>2, RefusalIInv
<1>8. ASSUME NEW c \in Call, PostAccepted(c) \/ ServeJobs(c) \/ ServeFees(c)
      PROVE  IInv'
  BY <1>8, PostAcceptedIInv, ServeJobsIInv, ServeFeesIInv
<1>9. ASSUME NEW n \in Node, NEW j \in Job, Offer(n, j) \/ Withdraw(n, j)
      PROVE  IInv'
  <2>1. PICK offered \in [Node -> SUBSET Job] : Change(offered, fee)
    BY <1>9 DEF IInv, TypeOK, Offer, Withdraw
  <2> QED
    BY <2>1, ChangeIInv DEF IInv, TypeOK
<1>10. ASSUME DeclareFees
       PROVE  IInv'
  BY <1>10, ChangeIInv DEF DeclareFees, IInv, TypeOK
<1>11. CASE UNCHANGED vars
  <2>1. UNCHANGED <<client, request, reply, out, seen>>
    BY <1>11 DEF vars, callVars
  <2>2. UNCHANGED <<sent, confirmed, recorded, last, offers, fee>>
    BY <1>11 DEF vars, coordVars
  <2>3. TypeOK'
    BY <2>1, <2>2 DEF IInv, TypeOK
  <2>4. Posted' /\ Quiet' /\ Effected' /\ Gate'
    BY <2>1, <2>2 DEF IInv, Posted, Quiet, Effected, Gate, Stream
  <2>5. Witnessed'
    BY <2>1, <2>2 DEF IInv, Witnessed, Truth
  <2>6. Truthful' /\ FreshAnswer'
    BY <2>1, <2>2 DEF IInv, Truthful, FreshAnswer
  <2> QED
    BY <2>3, <2>4, <2>5, <2>6 DEF IInv
<1> QED
  BY <1>1, <1>2, <1>3, <1>4, <1>5, <1>6, <1>7, <1>8, <1>9, <1>10, <1>11
     DEF Next, CallOf, Serve

\* The strengthened invariant holds of every reachable state.
THEOREM Invariant == Spec => []IInv
<1> QED
  BY InitIInv, StepIInv, PTL DEF Spec

\* What PollJobs and Fees return was true, of the caller's own node, at some
\* moment of the call (ServeJobs, BindsTo, Client.do).
THEOREM AnswersFresh == Spec => []FreshAnswer
<1>1. IInv => FreshAnswer
  BY DEF IInv
<1> QED
  BY <1>1, Invariant, PTL

-----------------------------------------------------------------------------
(* The transport implements the ledger *)

\* Every step of Transport is a step of Ledger or leaves its variables alone.
LEMMA StepLedger == IInv /\ [Next]_vars => [Promise!Next]_(Promise!vars)
<1> SUFFICES ASSUME IInv, [Next]_vars PROVE [Promise!Next]_(Promise!vars)
  OBVIOUS
<1>a. /\ UNCHANGED <<sent, recorded, confirmed>> => UNCHANGED Promise!vars
      /\ Promise!Submit => Promise!Next
      /\ Promise!Record => Promise!Next
      /\ Promise!Confirm => Promise!Next
  BY DEF Promise!vars, Promise!Next
<1>1. ASSUME NEW c \in Call, NEW m \in Message, Submit(c, m)
      PROVE  Promise!Submit
  BY <1>1 DEF Submit, Begin, coordVars, Promise!Submit
<1>2. ASSUME NEW c \in Call, PostAccepted(c)
      PROVE  Promise!Record
  <2> DEFINE m == request[c].body
  <2>1. /\ request[c] \in RequestType /\ request[c].path \in Posting
        /\ Refusal(request[c]) = 0
    BY <1>2 DEF IInv, TypeOK, PostAccepted, Dispatched
  <2>2. m \in sent /\ m \in Message
    BY <2>1, <1>2, AcceptedMessage DEF IInv, TypeOK, PostAccepted
  <2>3. recorded' = recorded \cup {m} /\ UNCHANGED <<sent, confirmed>>
    BY <1>2 DEF PostAccepted, Respond
  <2>4. ASSUME m.path \in Gated, NEW r \in recorded, Promise!SameStream(m, r)
        PROVE  r.no < m.no
    <3>1. r \in Message /\ Stream(r) = Stream(m) /\ r.path \in Gated
      BY <2>4 DEF Promise!SameStream, Stream, IInv, TypeOK
    <3>2. r.no <= last[Stream(m)]
      BY <3>1 DEF IInv, Gate
    <3>3. m.no > last[Stream(m)]
      BY <1>2, <2>4 DEF PostAccepted, Accepts, Newer
    <3>4. last[Stream(m)] \in Nat /\ m.no \in Nat /\ r.no \in Nat
      BY <2>2, <2>4, <3>1, PathAssumption, BoundAssumption
         DEF Message, Stream, IInv, TypeOK
    <3> QED
      BY <3>2, <3>3, <3>4
  <2> QED
    BY <2>2, <2>3, <2>4 DEF Promise!Record
<1>3. ASSUME NEW c \in Call, Receive(c)
      PROVE  Promise!Confirm \/ UNCHANGED <<sent, recorded, confirmed>>
  <2>1. CASE do(request[c], reply[c]).err = "nil" /\ request[c].method = "POST"
    <3>1. reply[c].status \in 200 .. 299
      BY <2>1 DEF do, Failed
    <3>2. request[c].body \in recorded
      BY <2>1, <3>1 DEF IInv, Effected
    <3> QED
      BY <1>3, <2>1, <3>2 DEF Receive, coordVars, Promise!Confirm
  <2>2. CASE ~(do(request[c], reply[c]).err = "nil" /\ request[c].method = "POST")
    BY <1>3, <2>2 DEF Receive, coordVars
  <2> QED
    BY <2>1, <2>2
<1>4. ASSUME NEW c \in Call,
             \/ \E m \in Message : Resubmit(c, m)
             \/ \E id \in Node \cup {NoId}, caller \in Path : PollJobs(c, id, caller)
             \/ Fees(c)
             \/ \E r \in Stray : Intrude(c, r)
             \/ GiveUp(c) \/ Forget(c)
      PROVE  UNCHANGED <<sent, recorded, confirmed>>
  BY <1>4 DEF Resubmit, PollJobs, Fees, Intrude, Begin, GiveUp, Forget, coordVars
<1>5. ASSUME NEW c \in Call,
             \/ RefuseRequest(c) \/ PostRefused(c) \/ ServeJobs(c)
             \/ RefuseCaller(c) \/ ServeFees(c) \/ CoordinatorFails(c)
      PROVE  UNCHANGED <<sent, recorded, confirmed>>
  BY <1>5 DEF RefuseRequest, PostRefused, ServeJobs, RefuseCaller, ServeFees,
              CoordinatorFails, WriteJSON, Respond
<1>6. ASSUME \/ \E n \in Node, j \in Job : Offer(n, j) \/ Withdraw(n, j)
             \/ DeclareFees
      PROVE  UNCHANGED <<sent, recorded, confirmed>>
  BY <1>6 DEF Offer, Withdraw, DeclareFees, Change
<1>7. CASE UNCHANGED vars
  BY <1>7, <1>a DEF vars, coordVars
<1>8. CASE Next
  BY <1>8, <1>a, <1>1, <1>2, <1>3, <1>4, <1>5, <1>6 DEF Next, CallOf, Serve
<1> QED
  BY <1>7, <1>8

\* The calls of httpjson keep the promise of module Ledger, whatever is lost,
\* late or submitted again (Client.postJSON, Client.do, post).
THEOREM ImplementsLedger == Spec => KeepsPromise
<1>1. Init => Promise!Init
  BY DEF Init, Promise!Init
<1> QED
  BY <1>1, StepLedger, Invariant, PTL DEF Spec, KeepsPromise, Promise!Spec

-----------------------------------------------------------------------------
(* Replay *)

\* A step that answers 204 is that of PostAccepted.
LEMMA StepReplay ==
    ASSUME IInv, [Next]_vars, NEW c \in Call,
           reply[c] = NoReply, reply'[c].status = 204
    PROVE  PostAccepted(c)
<1>1. reply' # reply /\ reply[c].status # 204
  BY DEF NoReply
<1>2. Next
  BY <1>1 DEF vars, callVars
<1>3. ASSUME NEW d \in Call, CallOf(d)
      PROVE  reply' = reply \/ reply' = [reply EXCEPT ![d] = NoReply]
  BY <1>3 DEF CallOf, Submit, Resubmit, PollJobs, Fees, Intrude, Begin, GiveUp,
              Receive, Forget
<1>4. reply \in [Call -> [status : Nat, body : Value \cup {NoBody, Broken}]]
  BY DEF IInv, TypeOK
<1>5. ASSUME NEW d \in Call, NEW status \in Nat \ {204}, NEW body, Respond(d, status, body)
      PROVE  FALSE
  BY <1>1, <1>4, <1>5 DEF Respond, NoReply
<1>6. ~(\E d \in Call : CallOf(d))
  BY <1>1, <1>3, <1>4 DEF NoReply
<1>7. ~(\E n \in Node, j \in Job : Offer(n, j) \/ Withdraw(n, j)) /\ ~DeclareFees
  BY <1>1 DEF Offer, Withdraw, DeclareFees, Change
<1>8. PICK d \in Call : Serve(d)
  BY <1>2, <1>6, <1>7 DEF Next
<1>9. PostAccepted(d)
  <2>1. ~RefuseRequest(d)
    BY <1>5, RefusalStatuses DEF RefuseRequest
  <2>2. ~PostRefused(d) /\ ~RefuseCaller(d) /\ ~CoordinatorFails(d)
    BY <1>5 DEF PostRefused, RefuseCaller, CoordinatorFails
  <2>3. ~ServeJobs(d) /\ ~ServeFees(d)
    BY <1>5 DEF ServeJobs, ServeFees, WriteJSON
  <2> QED
    BY <1>8, <2>1, <2>2, <2>3 DEF Serve
<1>10. d = c
  <2>1. reply' = [reply EXCEPT ![d] = [status |-> 204, body |-> NoBody]]
    BY <1>9 DEF PostAccepted, Respond
  <2> QED
    BY <1>1, <1>4, <2>1
<1> QED
  BY <1>9, <1>10

\* A listing or heartbeat on record is never accepted a second time (the Seq
\* gate behind post).
THEOREM ReplaysRejected == Spec => ReplayRejected
<1> DEFINE Step ==
      \A c \in Call :
        /\ reply[c] = NoReply
        /\ reply'[c].status = 204
        /\ request[c].path \in Gated
        => request[c].body \notin recorded
<1>1. IInv /\ [Next]_vars => Step
  <2> SUFFICES ASSUME IInv, [Next]_vars, NEW c \in Call,
                      reply[c] = NoReply, reply'[c].status = 204,
                      request[c].path \in Gated, request[c].body \in recorded
               PROVE  FALSE
    OBVIOUS
  <2> DEFINE m == request[c].body
  <2>1. PostAccepted(c)
    BY StepReplay
  <2>2. /\ request[c] \in RequestType /\ request[c].path \in Posting
        /\ Refusal(request[c]) = 0
    BY <2>1 DEF IInv, TypeOK, PostAccepted, Dispatched
  <2>3. m \in Message /\ m.path \in Gated
    BY <2>1, <2>2, AcceptedMessage DEF IInv, TypeOK, PostAccepted
  <2>4. m.no > last[Stream(m)] /\ m.no <= last[Stream(m)]
    BY <2>1, <2>3 DEF PostAccepted, Accepts, Newer, IInv, Gate
  <2>5. last[Stream(m)] \in Nat /\ m.no \in Nat
    BY <2>3, PathAssumption, BoundAssumption DEF Message, Stream, IInv, TypeOK
  <2> QED
    BY <2>4, <2>5
<1>2. IInv /\ [Next]_vars => [Step]_vars
  BY <1>1
<1> QED
  BY <1>2, Invariant, PTL DEF Spec, ReplayRejected

=============================================================================
