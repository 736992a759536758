----------------------------- MODULE Transport -----------------------------
(***************************************************************************)
(* The reference transport (package httpjson): calls of Client, each a     *)
(* request that Handler serves or that is lost, and a reply that arrives,  *)
(* is lost, or comes after the caller has given up; and behind Handler a   *)
(* coordinator that keeps the rules of package coordinator.                *)
(*                                                                         *)
(* Abstractions.  A message is its path, its node and its number: the Seq  *)
(* of a listing or a heartbeat, the job of a decline or a report; all are  *)
(* signed by their node (module Messages is about that).  A declaration of *)
(* fees is its Seq, an assignment its job.  JSON decodes or it does not.   *)
(***************************************************************************)
EXTENDS Naturals

CONSTANTS
    Node, Job,
    Call,        \* places for calls that are under way at the same time
    Gated,       \* POST paths of messages with a Seq: "listing", "heartbeat"
    Plain,       \* POST paths of messages without: "decline", "report"
    NoId,        \* the empty node_id
    NoIdentity,  \* the caller presents no SPIFFE identity,
    Stranger,    \* or one that is not that of a node
    NoBody,      \* an empty body
    Malformed,   \* a request body that is not JSON of the message
    Broken,      \* a reply body that was not written, or not to its end
    MaxSeq,      \* bound: the largest Seq a node uses
    MaxFee       \* bound: the last fee declaration

Posting == Gated \cup Plain

ASSUME PathAssumption == /\ Gated \cap Plain = {}
                         /\ {"jobs", "fees", "none"} \cap Posting = {}
ASSUME BoundAssumption == MaxSeq \in Nat /\ MaxFee \in Nat
Message == [path : Gated, node : Node, no : 1 .. MaxSeq]
             \cup [path : Plain, node : Node, no : Job]

VARIABLES
    client,     \* of each call: "idle", "waiting", or the error it returned
    request,    \* its request, on the way or served
    reply,      \* the reply to it
    out,        \* what it returned besides the error
    seen,       \* history: what its answer could have been while it waited
    sent,       \* history: the messages that nodes have submitted
    confirmed,  \* history: those for which a call returned nil
    recorded,   \* the messages the coordinator has recorded
    last,       \* the Seq of the last one of each path and node
    offers,     \* the assignments it offers to each node
    fee         \* its current fee declaration

callVars  == <<client, request, reply, out, seen>>
coordVars == <<recorded, last, offers, fee>>
vars      == <<callVars, sent, confirmed, coordVars>>

-----------------------------------------------------------------------------
(* Package identity *)

SPIFFEPathForNode(n) == <<"node", n>>

\* Faulty variant of BindsTo: any identity will do.
BindsToAny(path, n) == path # NoIdentity

BindsTo(path, n) == path = SPIFFEPathForNode(n)

Path == {SPIFFEPathForNode(n) : n \in Node} \cup {Stranger, NoIdentity}

-----------------------------------------------------------------------------
(* Requests and replies *)

Request(method, path, body, id, caller) ==
    [method |-> method, path |-> path, body |-> body, id |-> id, caller |-> caller]

PostJSON(m) == Request("POST", m.path, m, NoId, SPIFFEPathForNode(m.node))
GetJobs(id, caller) == Request("GET", "jobs", NoBody, id, caller)
GetFees == Request("GET", "fees", NoBody, NoId, NoIdentity)

\* What reaches Handler from other HTTP clients.
Stray ==
    {Request("GET", "none", NoBody, NoId, NoIdentity)}
      \cup {Request("DELETE", p, NoBody, NoId, NoIdentity) : p \in Posting \cup {"jobs", "fees"}}
      \cup {Request("POST", p, Malformed, NoId, NoIdentity) : p \in Posting}

NoRequest == Request("none", "none", NoBody, NoId, NoIdentity)
NoReply   == [status |-> 0, body |-> NoBody]

\* The status with which Handler answers without calling the coordinator; 0
\* when it calls it.
Refusal(r) ==
    IF r.path \notin Posting \cup {"jobs", "fees"} THEN 404
    ELSE IF r.method # (IF r.path \in Posting THEN "POST" ELSE "GET") THEN 405
    ELSE IF r.body = Malformed THEN 400
    ELSE IF r.path = "jobs" /\ r.id = NoId THEN 400
    ELSE 0

Failed == [err |-> "err", out |-> NoBody]
Returned(v) == [err |-> "nil", out |-> v]

\* Faulty variants of do: the status is not looked at, and the error of
\* decoding is dropped.
doAnyStatus(r, answer) ==
    IF r.method = "POST" THEN Returned(NoBody)
    ELSE IF answer.body \in {Broken, NoBody} THEN Failed
    ELSE Returned(answer.body)

doUndecoded(r, answer) ==
    IF answer.status \notin 200 .. 299 THEN Failed
    ELSE IF r.method = "POST" THEN Returned(NoBody)
    ELSE IF answer.body = Broken THEN Returned({})
    ELSE Returned(answer.body)

\* Client.do once it has a response.
do(r, answer) ==
    IF answer.status \notin 200 .. 299 THEN Failed
    ELSE IF r.method = "POST" THEN Returned(NoBody)
    ELSE IF answer.body = Broken THEN Failed
    ELSE Returned(answer.body)

-----------------------------------------------------------------------------
(* The caller *)

\* What the caller of r would be told by a coordinator with these offers and
\* this declaration.
Truth(r, offered, declared) ==
    IF r.path = "fees" THEN {declared}
    ELSE UNION {offered[n] : n \in {k \in Node : r.caller = SPIFFEPathForNode(k)}}

Init ==
    /\ client = [c \in Call |-> "idle"]
    /\ request = [c \in Call |-> NoRequest]
    /\ reply = [c \in Call |-> NoReply]
    /\ out = [c \in Call |-> NoBody]
    /\ seen = [c \in Call |-> {}]
    /\ sent = {} /\ confirmed = {}
    /\ recorded = {}
    /\ last = [s \in Gated \X Node |-> 0]
    /\ offers = [n \in Node |-> {}]
    /\ fee = 1

Begin(c, r) ==
    /\ client[c] = "idle"
    /\ client' = [client EXCEPT ![c] = "waiting"]
    /\ request' = [request EXCEPT ![c] = r]
    /\ seen' = [seen EXCEPT ![c] = {Truth(r, offers, fee)}]
    /\ UNCHANGED <<reply, out, confirmed, coordVars>>

Stream(m) == <<m.path, m.node>>

Newest(m) == \A s \in sent : Stream(s) = Stream(m) => s.no <= m.no

\* A node signs a message and submits it, with a Seq beyond those it used.
Submit(c, m) ==
    /\ m \notin sent
    /\ m.path \in Gated => Newest(m)
    /\ Begin(c, PostJSON(m))
    /\ sent' = sent \cup {m}

\* It submits one again, having no confirmation of it.
Resubmit(c, m) ==
    /\ m \in sent \ confirmed
    /\ Begin(c, PostJSON(m))
    /\ UNCHANGED sent

PollJobs(c, id, caller) == Begin(c, GetJobs(id, caller)) /\ UNCHANGED sent
Fees(c)                 == Begin(c, GetFees) /\ UNCHANGED sent
Intrude(c, r)           == Begin(c, r) /\ UNCHANGED sent

\* The call returns an error of its own: the message does not marshal, the
\* connection fails, the context is cancelled.  The request may be served
\* none the less.
GiveUp(c) ==
    /\ client[c] = "waiting"
    /\ client' = [client EXCEPT ![c] = "err"]
    /\ UNCHANGED <<request, reply, out, seen, sent, confirmed, coordVars>>

\* The response arrives in time.
Receive(c) ==
    LET r      == request[c]
        result == do(r, reply[c])
    IN  /\ client[c] = "waiting"
        /\ reply[c] # NoReply
        /\ client' = [client EXCEPT ![c] = result.err]
        /\ out' = [out EXCEPT ![c] = result.out]
        /\ confirmed' = IF result.err = "nil" /\ r.method = "POST"
                        THEN confirmed \cup {r.body} ELSE confirmed
        /\ UNCHANGED <<request, reply, seen, sent, coordVars>>

\* Nothing of a call that has returned is on the way any more.
Forget(c) ==
    /\ client[c] \in {"nil", "err"}
    /\ client' = [client EXCEPT ![c] = "idle"]
    /\ request' = [request EXCEPT ![c] = NoRequest]
    /\ reply' = [reply EXCEPT ![c] = NoReply]
    /\ out' = [out EXCEPT ![c] = NoBody]
    /\ seen' = [seen EXCEPT ![c] = {}]
    /\ UNCHANGED <<sent, confirmed, coordVars>>

-----------------------------------------------------------------------------
(* Handler and the coordinator it calls *)

Respond(c, status, body) ==
    /\ reply' = [reply EXCEPT ![c] = [status |-> status, body |-> body]]
    /\ UNCHANGED <<client, request, out, seen, sent, confirmed, offers, fee>>

Arrived(c) == client[c] # "idle" /\ reply[c] = NoReply

Dispatched(c) == Arrived(c) /\ Refusal(request[c]) = 0

RefuseRequest(c) ==
    /\ Arrived(c)
    /\ Refusal(request[c]) # 0
    /\ Respond(c, Refusal(request[c]), NoBody)
    /\ UNCHANGED <<recorded, last>>

\* Faulty variants of Newer: no gate, one that lets the last message through
\* again, and one that is one too high.
NewerOrNot(m)  == TRUE
NewerOrSame(m) == m.no >= last[Stream(m)]
NewerByTwo(m)  == m.no > last[Stream(m)] + 1

\* The coordinator's gate on Seq.
Newer(m) == m.no > last[Stream(m)]

Accepts(m) == m.path \in Gated => Newer(m)

\* A message is verified and recorded under the coordinator's lock.
PostAccepted(c) ==
    LET m == request[c].body
    IN  /\ Dispatched(c)
        /\ request[c].path \in Posting
        /\ Accepts(m)
        /\ recorded' = recorded \cup {m}
        /\ last' = IF m.path \in Gated THEN [last EXCEPT ![Stream(m)] = m.no] ELSE last
        /\ Respond(c, 204, NoBody)

PostRefused(c) ==
    /\ Dispatched(c)
    /\ request[c].path \in Posting
    /\ ~Accepts(request[c].body)
    /\ Respond(c, 500, NoBody)
    /\ UNCHANGED <<recorded, last>>

\* writeJSON: the status is 200 whether the body can be written or not.
WriteJSON(c, v) ==
    /\ \E body \in {v, Broken} : Respond(c, 200, body)
    /\ UNCHANGED <<recorded, last>>

ServeJobs(c) ==
    /\ Dispatched(c)
    /\ request[c].path = "jobs"
    /\ BindsTo(request[c].caller, request[c].id)
    /\ WriteJSON(c, offers[request[c].id])

\* By middleware in front of Handler, with 401 or 403, or by the coordinator,
\* whose error fail makes a 500.
RefuseCaller(c) ==
    /\ Dispatched(c)
    /\ request[c].path = "jobs"
    /\ ~BindsTo(request[c].caller, request[c].id)
    /\ \E status \in {IF request[c].caller = NoIdentity THEN 401 ELSE 403, 500} :
          Respond(c, status, NoBody)
    /\ UNCHANGED <<recorded, last>>

ServeFees(c) ==
    /\ Dispatched(c)
    /\ request[c].path = "fees"
    /\ WriteJSON(c, {fee})

\* The coordinator returns another error, after it has made sure of the
\* caller and without having recorded anything.
CoordinatorFails(c) ==
    /\ Dispatched(c)
    /\ request[c].path = "jobs" => BindsTo(request[c].caller, request[c].id)
    /\ Respond(c, 500, NoBody)
    /\ UNCHANGED <<recorded, last>>

\* The coordinator's offers and declaration change while calls wait.
Change(offered, declared) ==
    /\ offers' = offered
    /\ fee' = declared
    /\ seen' = [c \in Call |->
                  IF client[c] = "waiting"
                  THEN seen[c] \cup {Truth(request[c], offered, declared)}
                  ELSE seen[c]]
    /\ UNCHANGED <<client, request, reply, out, sent, confirmed, recorded, last>>

Offer(n, j) ==
    /\ j \notin offers[n]
    /\ Change([offers EXCEPT ![n] = @ \cup {j}], fee)

Withdraw(n, j) ==
    /\ j \in offers[n]
    /\ Change([offers EXCEPT ![n] = @ \ {j}], fee)

DeclareFees == fee < MaxFee /\ Change(offers, fee + 1)

CallOf(c) ==
    \/ \E m \in Message : Submit(c, m) \/ Resubmit(c, m)
    \/ \E id \in Node \cup {NoId}, caller \in Path : PollJobs(c, id, caller)
    \/ Fees(c)
    \/ \E r \in Stray : Intrude(c, r)
    \/ GiveUp(c) \/ Receive(c) \/ Forget(c)

Serve(c) ==
    \/ RefuseRequest(c)
    \/ PostAccepted(c) \/ PostRefused(c)
    \/ ServeJobs(c) \/ RefuseCaller(c) \/ ServeFees(c)
    \/ CoordinatorFails(c)

Next ==
    \/ \E c \in Call : CallOf(c) \/ Serve(c)
    \/ \E n \in Node, j \in Job : Offer(n, j) \/ Withdraw(n, j)
    \/ DeclareFees

Spec == Init /\ [][Next]_vars

-----------------------------------------------------------------------------
(* Fairness *)

IsNewest(m, s) == Stream(m) = s /\ Newest(m)

\* A node whose newest message of a stream is not confirmed goes on
\* submitting it.
Persist(s) == \E c \in Call, m \in sent : IsNewest(m, s) /\ Resubmit(c, m)

\* One such request gets through.
GetThrough(s) ==
    \E c \in Call : /\ request[c].body \in sent
                    /\ IsNewest(request[c].body, s)
                    /\ PostAccepted(c)

\* Calls have a deadline, and neither the network nor the coordinator fails
\* every time.
Fairness ==
    /\ \A c \in Call : WF_vars(GiveUp(c)) /\ WF_vars(Forget(c))
    /\ \A s \in Gated \X Node : SF_vars(Persist(s)) /\ SF_vars(GetThrough(s))

FairSpec == Spec /\ Fairness

-----------------------------------------------------------------------------
(* Properties *)

RequestType ==
    [method : {"none", "GET", "POST", "DELETE"},
     path   : Posting \cup {"jobs", "fees", "none"},
     body   : Message \cup {NoBody, Malformed},
     id     : Node \cup {NoId},
     caller : Path]

\* A list of assignments or a declaration; the zero value is in both.
Value == (SUBSET Job) \cup (SUBSET Nat)

TypeOK ==
    /\ client \in [Call -> {"idle", "waiting", "nil", "err"}]
    /\ request \in [Call -> RequestType]
    /\ reply \in [Call -> [status : Nat, body : Value \cup {NoBody, Broken}]]
    /\ out \in [Call -> Value \cup {NoBody, Broken}]
    /\ seen \in [Call -> SUBSET Value]
    /\ sent \subseteq Message
    /\ confirmed \subseteq recorded /\ recorded \subseteq sent
    /\ last \in [Gated \X Node -> Nat]
    /\ offers \in [Node -> SUBSET Job]
    /\ fee \in Nat

\* Whatever is lost, late or submitted again, messages are recorded as their
\* nodes submitted them, listings and heartbeats only in the order of Seq,
\* and a call that returns nil has had its message recorded (Client.do, post).
Promise == INSTANCE Ledger
KeepsPromise == Promise!Spec

\* What a call of PollJobs or Fees returns was true at some moment while the
\* call lasted: the assignments offered to the very node that the caller is,
\* or the declaration then in force, never a zero value.
FreshAnswer ==
    \A c \in Call :
        client[c] = "nil" /\ request[c].method = "GET" => out[c] \in seen[c]

\* A listing or heartbeat that is on record is not accepted a second time,
\* whether it was submitted again or comes late (SPEC 4.1, replay).
ReplayRejected ==
    [][\A c \in Call :
        /\ reply[c] = NoReply
        /\ reply'[c].status = 204
        /\ request[c].path \in Gated
        => request[c].body \notin recorded]_vars

\* A node that goes on submitting its newest listing or heartbeat has it
\* recorded, whatever replies are lost (Seq gate of Coordinator).
RecordedEventually ==
    \A s \in Gated \X Node : \A q \in 1 .. MaxSeq :
        (\E m \in sent : Stream(m) = s /\ m.no >= q) ~> (last[s] >= q)

=============================================================================
