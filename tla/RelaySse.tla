------------------------------ MODULE RelaySse ------------------------------
(***************************************************************************)
(* One MCP session of relay-mcp over SSE (src/src/mcp_relay/main.py): the  *)
(* GET /mcp/sse that streams responses to the client, the POSTs to         *)
(* /mcp/message that produce them, and the bounded anyio stream between.   *)
(*                                                                         *)
(* Every POST is a task.  _handle_mcp_request is only "some awaits, then a *)
(* response or none"; sessions_lock is never held across an await, so it   *)
(* leaves no trace.  The client may leave at any time: sse-starlette then  *)
(* cancels or closes event_generator, whose finally clause runs.           *)
(***************************************************************************)
EXTENDS Naturals, Sequences, FiniteSets

CONSTANTS Posts,      \* POST requests of the client
          Capacity    \* create_memory_object_stream(32)

ASSUME CapacityAssumption == Capacity \in Nat

VARIABLES gen,        \* where event_generator is
          client,     \* what the client of the stream does
          announced,  \* the client has received the "endpoint" event
          registered, \* the session is in mcp_sessions
          closed,     \* session._closed, and response_send is closed
          post,       \* where each POST is
          status,     \* its HTTP status, 0 before
          buffer,     \* responses in the stream
          senders,    \* POSTs blocked in response_send.send, in order
          hand,       \* the response the generator has taken, if any
          received,   \* responses the client has received
          sent        \* history: the POSTs in the order they handed in responses

streamVars == <<buffer, senders, hand>>
vars == <<gen, client, announced, registered, closed, post, status, streamVars,
          received, sent>>

GeneratorPhases == {"absent",   \* no GET /mcp/sse yet
                    "new",      \* the response is returned, nothing has run
                    "endpoint", \* suspended in the yield of the endpoint event
                    "polling",  \* about to look into the stream
                    "waiting",  \* a waiting receiver of the empty stream
                    "woken",    \* handed a response, not yet resumed
                    "message",  \* suspended in the yield of a response
                    "over"}

PostPhases == {"idle", "body", "handling", "blocked", "released", "done"}

Init ==
  /\ gen = "absent" /\ client = "away" /\ announced = FALSE
  /\ registered = FALSE /\ closed = FALSE
  /\ post = [p \in Posts |-> "idle"]
  /\ status = [p \in Posts |-> 0]
  /\ buffer = <<>> /\ senders = <<>> /\ hand = <<>>
  /\ received = <<>> /\ sent = <<>>

TypeOK ==
  /\ gen \in GeneratorPhases
  /\ client \in {"away", "connected", "gone"}
  /\ announced \in BOOLEAN /\ registered \in BOOLEAN /\ closed \in BOOLEAN
  /\ post \in [Posts -> PostPhases]
  /\ status \in [Posts -> {0, 202, 400, 401, 404}]
  /\ buffer \in Seq(Posts) /\ senders \in Seq(Posts) /\ hand \in Seq(Posts)
  /\ received \in Seq(Posts) /\ sent \in Seq(Posts)
  /\ Len(buffer) <= Capacity /\ Len(hand) <= 1

-----------------------------------------------------------------------------
(* GET /mcp/sse.                                                           *)

Connect ==
  /\ gen = "absent"
  /\ gen' = "new" /\ client' = "connected" /\ registered' = TRUE
  /\ UNCHANGED <<announced, closed, post, status, streamVars, received, sent>>

StartGenerator ==
  /\ gen = "new"
  /\ gen' = "endpoint"
  /\ UNCHANGED <<client, announced, registered, closed, post, status, streamVars,
                 received, sent>>

\* After a yield the generator goes back to the stream.  (Variant for the mutant:
\* it ends with the first response.)
OneResponse == IF gen = "message" THEN "over" ELSE "polling"
AfterYield == "polling"

\* The client reads the event the generator is suspended on.
Transmit ==
  /\ gen \in {"endpoint", "message"} /\ client = "connected"
  /\ gen' = AfterYield
  /\ announced' = TRUE
  /\ received' = received \o hand
  /\ hand' = <<>>
  /\ UNCHANGED <<client, registered, closed, post, status, buffer, senders, sent>>

\* receive_nowait: the first blocked sender's response joins the buffer before
\* the oldest one is taken.
Available ==
  IF senders # <<>> THEN Append(buffer, Head(senders)) ELSE buffer

ReceiveNext ==
  /\ gen = "polling"
  /\ IF Available = <<>>
     THEN gen' = "waiting" /\ UNCHANGED <<post, streamVars>>
     ELSE /\ gen' = "message"
          /\ hand' = <<Head(Available)>>
          /\ buffer' = Tail(Available)
          /\ IF senders = <<>> THEN UNCHANGED <<post, senders>>
             ELSE /\ post' = [post EXCEPT ![Head(senders)] = "released"]
                  /\ senders' = Tail(senders)
  /\ UNCHANGED <<client, announced, registered, closed, status, received, sent>>

Wake ==
  /\ gen = "woken"
  /\ gen' = "message"
  /\ UNCHANGED <<client, announced, registered, closed, post, status, streamVars,
                 received, sent>>

Disconnect ==
  /\ client = "connected"
  /\ client' = "gone"
  /\ UNCHANGED <<gen, announced, registered, closed, post, status, streamVars,
                 received, sent>>

\* The finally clause: forget the session, close the sending end only.
\* (Variant for the mutant: the session is closed but not forgotten.)
CloseOnly == closed' = TRUE /\ UNCHANGED registered
Forget == closed' = TRUE /\ registered' = FALSE

EndGenerator ==
  /\ client = "gone" /\ gen \notin {"absent", "new", "over"}
  /\ gen' = "over"
  /\ Forget
  /\ UNCHANGED <<client, announced, post, status, streamVars, received, sent>>

\* A generator that never ran has no finally clause to run: the session stays.
AbandonGenerator ==
  /\ client = "gone" /\ gen = "new"
  /\ gen' = "over"
  /\ UNCHANGED <<client, announced, registered, closed, post, status, streamVars,
                 received, sent>>

-----------------------------------------------------------------------------
(* POST /mcp/message.                                                      *)

Finish(p, code) ==
  /\ post' = [post EXCEPT ![p] = "done"]
  /\ status' = [status EXCEPT ![p] = code]

\* The client knows the session id from the endpoint event.
Arrive(p) ==
  /\ post[p] = "idle" /\ announced
  /\ IF registered
     THEN post' = [post EXCEPT ![p] = "body"] /\ UNCHANGED status
     ELSE Finish(p, 404)
  /\ UNCHANGED <<gen, client, announced, registered, closed, streamVars, received,
                 sent>>

\* Invalid JSON, an unknown principal, or on to _handle_mcp_request.
ReadBody(p) ==
  /\ post[p] = "body"
  /\ \/ \E code \in {400, 401} : Finish(p, code)
     \/ post' = [post EXCEPT ![p] = "handling"] /\ UNCHANGED status
  /\ UNCHANGED <<gen, client, announced, registered, closed, streamVars, received,
                 sent>>

\* A notification has no response to send.
HandleSilently(p) ==
  /\ post[p] = "handling"
  /\ Finish(p, 202)
  /\ UNCHANGED <<gen, client, announced, registered, closed, streamVars, received,
                 sent>>

\* send_response on a closed session drops the response.
HandleTooLate(p) ==
  /\ post[p] = "handling" /\ closed
  /\ Finish(p, 202)
  /\ UNCHANGED <<gen, client, announced, registered, closed, streamVars, received,
                 sent>>

\* (Variant for the mutant: a response that finds no room is dropped.)
DropWhenFull(p) == Finish(p, 202) /\ UNCHANGED senders
WaitForRoom(p) ==
  /\ senders' = Append(senders, p)
  /\ post' = [post EXCEPT ![p] = "blocked"]
  /\ UNCHANGED status

\* (Variant for the mutant: room for one too many.)
HasRoomForOneMore == Len(buffer) <= Capacity
HasRoom == Len(buffer) < Capacity

\* send: to the waiting receiver, else into the buffer, else wait for room.
HandleAndSend(p) ==
  /\ post[p] = "handling" /\ ~closed
  /\ sent' = Append(sent, p)
  /\ \/ /\ gen = "waiting"
        /\ gen' = "woken" /\ hand' = <<p>>
        /\ Finish(p, 202)
        /\ UNCHANGED <<buffer, senders>>
     \/ /\ gen # "waiting" /\ HasRoom
        /\ buffer' = Append(buffer, p)
        /\ Finish(p, 202)
        /\ UNCHANGED <<gen, senders, hand>>
     \/ /\ gen # "waiting" /\ ~HasRoom
        /\ WaitForRoom(p)
        /\ UNCHANGED <<gen, buffer, hand>>
  /\ UNCHANGED <<client, announced, registered, closed, received>>

Resume(p) ==
  /\ post[p] = "released"
  /\ Finish(p, 202)
  /\ UNCHANGED <<gen, client, announced, registered, closed, streamVars, received,
                 sent>>

-----------------------------------------------------------------------------
Generator ==
  StartGenerator \/ ReceiveNext \/ Wake \/ EndGenerator \/ AbandonGenerator

Handle(p) ==
  ReadBody(p) \/ HandleSilently(p) \/ HandleTooLate(p) \/ HandleAndSend(p) \/ Resume(p)

Next ==
  \/ Connect \/ Generator \/ Transmit \/ Disconnect
  \/ \E p \in Posts : Arrive(p) \/ Handle(p)

Spec == Init /\ [][Next]_vars

\* The event loop runs whatever can run, requests come to a response, and a
\* client that stays connected reads its stream.
FairSpec ==
  /\ Spec
  /\ WF_vars(Generator) /\ WF_vars(Transmit)
  /\ \A p \in Posts : WF_vars(Handle(p))

-----------------------------------------------------------------------------
(* Properties.                                                             *)

Elements(s) == {s[i] : i \in DOMAIN s}

\* The stream loses, duplicates and reorders nothing: what the client has, what
\* the generator holds, what is buffered and what blocked POSTs still offer are
\* together the responses in the order in which they were sent.
NothingLost == received \o hand \o buffer \o senders = sent

\* A POST that was let in is answered, and its response reaches the client,
\* unless the client of the stream has left.
ResponseArrives ==
  \A p \in Posts :
    (post[p] # "idle") ~>
      \/ post[p] = "done" /\ (p \in Elements(sent) => p \in Elements(received))
      \/ client = "gone"

\* A session whose client got the endpoint event is forgotten when it has left.
SessionForgotten == (announced /\ client = "gone") ~> ~registered

\* "Return 202 Accepted (response comes via SSE)": a POST is answered, also when
\* the client of the stream leaves while the POST waits for room in the stream.
PostAnswered == \A p \in Posts : (post[p] = "handling") ~> (post[p] = "done")

-----------------------------------------------------------------------------
(* The inductive invariant behind the theorems of RelaySseProofs.          *)

\* A receiver waits only while there is nothing to receive; only a generator that
\* was given a response holds one; POSTs wait only for a full buffer.
StreamControl ==
  /\ gen = "waiting" => buffer = <<>> /\ senders = <<>>
  /\ gen \notin {"woken", "message", "over"} => hand = <<>>
  /\ senders # <<>> => Len(buffer) = Capacity

IInv == TypeOK /\ StreamControl /\ NothingLost
=============================================================================
