--------------------------- MODULE RelaySseProofs ---------------------------
(* Theorems about RelaySse for any number of POSTs and any capacity of the   *)
(* stream.                                                                   *)
EXTENDS RelaySse, SequenceTheorems, TLAPS

-----------------------------------------------------------------------------
(* Sequences.                                                                *)

LEMMA AppendLast ==
  ASSUME NEW S, NEW s \in Seq(S), NEW t \in Seq(S), NEW e \in S
  PROVE  s \o Append(t, e) = Append(s \o t, e)
BY AppendIsConcat, AppendProperties, ConcatProperties, ConcatAssociative

LEMMA SplitFirst ==
  ASSUME NEW S, NEW s \in Seq(S), s # <<>>
  PROVE  <<Head(s)>> \in Seq(S) /\ Tail(s) \in Seq(S) /\ <<Head(s)>> \o Tail(s) = s
<1>1. Head(s) \in S /\ Tail(s) \in Seq(S) /\ Len(Tail(s)) = Len(s) - 1
  BY HeadTailProperties
<1>2. <<Head(s)>> \in Seq(S) /\ Len(<<Head(s)>>) = 1
  BY <1>1
<1>3. <<Head(s)>> \o Tail(s) \in Seq(S) /\ Len(<<Head(s)>> \o Tail(s)) = Len(s)
  BY <1>1, <1>2, ConcatProperties, LenProperties
<1>4. ASSUME NEW i \in 1..Len(s) PROVE (<<Head(s)>> \o Tail(s))[i] = s[i]
  BY <1>1, <1>2, ConcatProperties, HeadTailProperties
<1> QED
  BY <1>1, <1>2, <1>3, <1>4, SeqEqual

\* All responses sent so far: r received, h held, b buffered, d blocked.
Contents(r, h, b, d) == r \o h \o b \o d
Grouped(r, h, b, d) == r \o ((h \o b) \o d)

LEMMA GroupLeft ==
  ASSUME NEW S, NEW r \in Seq(S), NEW h \in Seq(S), NEW b \in Seq(S), NEW d \in Seq(S)
  PROVE  Contents(r, h, b, d) = Grouped(r, h, b, d)
<1>1. h \o b \in Seq(S) /\ r \o h \o b = r \o (h \o b)
  OBVIOUS
<1>2. (r \o (h \o b)) \o d = r \o ((h \o b) \o d)
  BY <1>1
<1> QED
  BY <1>1, <1>2, Zenon DEF Contents, Grouped

\* What receive_nowait does to the stream: v is its content with the first blocked
\* response let in, e the responses still blocked.
LEMMA TakeFirst ==
  ASSUME NEW S, NEW r \in Seq(S), NEW b \in Seq(S), NEW d \in Seq(S), NEW v, NEW e,
         d = <<>> => v = b /\ e = <<>>,
         d # <<>> => v = Append(b, Head(d)) /\ e = Tail(d),
         v # <<>>
  PROVE  /\ <<Head(v)>> \in Seq(S) /\ Tail(v) \in Seq(S) /\ e \in Seq(S)
         /\ Contents(r, <<Head(v)>>, Tail(v), e) = Contents(r, <<>>, b, d)
         /\ Len(<<Head(v)>>) = 1
         /\ d = <<>> => Len(Tail(v)) = Len(b) - 1
         /\ d # <<>> => Len(Tail(v)) = Len(b)
<1>n. Len(b) \in Nat /\ <<>> \in Seq(S)
  BY LenProperties, EmptySeq
<1>0. d # <<>> => /\ Head(d) \in S /\ Tail(d) \in Seq(S) /\ <<Head(d)>> \in Seq(S)
                  /\ <<Head(d)>> \o Tail(d) = d
                  /\ Append(b, Head(d)) \in Seq(S)
                  /\ Append(b, Head(d)) = b \o <<Head(d)>>
                  /\ Len(Append(b, Head(d))) = Len(b) + 1
  <2> SUFFICES ASSUME d # <<>>
               PROVE  /\ Head(d) \in S /\ Tail(d) \in Seq(S) /\ <<Head(d)>> \in Seq(S)
                      /\ <<Head(d)>> \o Tail(d) = d
                      /\ Append(b, Head(d)) \in Seq(S)
                      /\ Append(b, Head(d)) = b \o <<Head(d)>>
                      /\ Len(Append(b, Head(d))) = Len(b) + 1
    BY Zenon
  <2>1. Head(d) \in S /\ Tail(d) \in Seq(S)
    BY HeadTailProperties
  <2>2. <<Head(d)>> \in Seq(S) /\ <<Head(d)>> \o Tail(d) = d
    BY SplitFirst
  <2>3. Append(b, Head(d)) \in Seq(S) /\ Len(Append(b, Head(d))) = Len(b) + 1
    BY <2>1, AppendProperties
  <2>4. Append(b, Head(d)) = b \o <<Head(d)>>
    BY <2>1, AppendIsConcat
  <2> QED
    BY <2>1, <2>2, <2>3, <2>4, Zenon
<1>1. v \in Seq(S) /\ e \in Seq(S)
  BY <1>0, Zenon
<1>2. /\ <<Head(v)>> \in Seq(S) /\ Tail(v) \in Seq(S) /\ Len(<<Head(v)>>) = 1
      /\ Len(Tail(v)) = Len(v) - 1
  BY <1>1, SplitFirst, HeadTailProperties
<1>3. <<Head(v)>> \o Tail(v) = v
  BY <1>1, SplitFirst
<1>4. v \o e = b \o d
  <2>1. CASE d = <<>>
    BY <2>1
  <2>2. CASE d # <<>>
    <3>1. (b \o <<Head(d)>>) \o Tail(d) = b \o (<<Head(d)>> \o Tail(d))
      BY <1>0, <2>2, ConcatAssociative
    <3> QED
      BY <1>0, <2>2, <3>1, Zenon
  <2> QED
    BY <2>1, <2>2
<1>5. Grouped(r, <<Head(v)>>, Tail(v), e) = Grouped(r, <<>>, b, d)
  <2>1. <<>> \o b = b
    BY ConcatEmptySeq
  <2> QED
    BY <1>3, <1>4, <2>1, Zenon DEF Grouped
<1>6. Contents(r, <<Head(v)>>, Tail(v), e) = Contents(r, <<>>, b, d)
  <2>1. Contents(r, <<Head(v)>>, Tail(v), e) = Grouped(r, <<Head(v)>>, Tail(v), e)
    <3>1. ASSUME NEW h \in Seq(S), NEW t \in Seq(S) PROVE Contents(r, h, t, e) = Grouped(r, h, t, e)
      BY <1>1, GroupLeft
    <3> QED
      BY <1>2, <3>1, Zenon
  <2>2. Contents(r, <<>>, b, d) = Grouped(r, <<>>, b, d)
    BY <1>n, GroupLeft
  <2> QED
    BY <1>5, <2>1, <2>2, Zenon
<1>7. d = <<>> => Len(Tail(v)) = Len(b) - 1
  BY <1>2, Zenon
<1>8. d # <<>> => Len(Tail(v)) = Len(b)
  <2>1. d # <<>> => Len(Tail(v)) = (Len(b) + 1) - 1
    BY <1>0, <1>2, Zenon
  <2> QED
    BY <1>n, <2>1
<1> QED
  BY <1>1, <1>2, <1>6, <1>7, <1>8, Zenon

-----------------------------------------------------------------------------
(* Every action preserves the invariant.                                     *)

LEMMA ControlType ==
  ASSUME TypeOK, NEW p \in Posts, NEW code \in {202, 400, 401, 404}, Finish(p, code)
  PROVE  /\ post' \in [Posts -> PostPhases]
         /\ status' \in [Posts -> {0, 202, 400, 401, 404}]
BY DEF TypeOK, Finish, PostPhases

\* Steps that leave the stream and the generator's hand alone.
LEMMA AsideInv ==
  ASSUME IInv, UNCHANGED <<streamVars, received, sent>>,
         gen' \in GeneratorPhases, gen' # "waiting" \/ gen = "waiting",
         gen' \in {"woken", "message", "over"} \/ gen \notin {"woken", "message", "over"},
         client' \in {"away", "connected", "gone"},
         announced' \in BOOLEAN, registered' \in BOOLEAN, closed' \in BOOLEAN,
         post' \in [Posts -> PostPhases],
         status' \in [Posts -> {0, 202, 400, 401, 404}]
  PROVE  IInv'
BY DEF IInv, TypeOK, StreamControl, NothingLost, streamVars

LEMMA TransmitInv ==
  ASSUME IInv, Transmit
  PROVE  IInv'
<1>1. TypeOK /\ StreamControl /\ NothingLost
  BY DEF IInv
<1>2. received' \in Seq(Posts) /\ received' \o hand' = received \o hand
  BY <1>1, ConcatProperties, ConcatEmptySeq DEF Transmit, TypeOK
<1>3. NothingLost'
  BY <1>1, <1>2 DEF Transmit, NothingLost
<1>4. TypeOK' /\ StreamControl'
  BY <1>1, <1>2 DEF Transmit, AfterYield, TypeOK, StreamControl, GeneratorPhases
<1> QED
  BY <1>3, <1>4 DEF IInv

LEMMA ReceiveNextInv ==
  ASSUME IInv, ReceiveNext
  PROVE  IInv'
<1>1. TypeOK /\ StreamControl /\ NothingLost /\ hand = <<>>
  BY DEF IInv, ReceiveNext, StreamControl
<1>t. buffer \in Seq(Posts) /\ senders \in Seq(Posts) /\ received \in Seq(Posts)
  BY <1>1 DEF TypeOK
<1>2. CASE Available = <<>>
  <2>1. buffer = <<>> /\ senders = <<>>
    BY <1>t, <1>2, AppendProperties, SplitFirst, HeadTailProperties DEF Available
  <2> QED
    BY <1>1, <1>2, <2>1
       DEF ReceiveNext, IInv, TypeOK, StreamControl, NothingLost, GeneratorPhases,
           streamVars
<1>3. CASE Available # <<>>
  <2>1. /\ gen' = "message" /\ hand' = <<Head(Available)>> /\ buffer' = Tail(Available)
        /\ received' = received /\ sent' = sent
        /\ senders = <<>> => Available = buffer /\ senders' = <<>>
        /\ senders # <<>> => /\ Available = Append(buffer, Head(senders))
                             /\ senders' = Tail(senders)
    BY <1>3 DEF ReceiveNext, Available
  <2>2. /\ hand' \in Seq(Posts) /\ buffer' \in Seq(Posts) /\ senders' \in Seq(Posts)
        /\ Contents(received, hand', buffer', senders')
             = Contents(received, <<>>, buffer, senders)
        /\ Len(hand') = 1
        /\ senders = <<>> => Len(buffer') = Len(buffer) - 1
        /\ senders # <<>> => Len(buffer') = Len(buffer)
    <3>1. /\ <<Head(Available)>> \in Seq(Posts) /\ Tail(Available) \in Seq(Posts)
          /\ senders' \in Seq(Posts)
          /\ Contents(received, <<Head(Available)>>, Tail(Available), senders')
               = Contents(received, <<>>, buffer, senders)
          /\ Len(<<Head(Available)>>) = 1
          /\ senders = <<>> => Len(Tail(Available)) = Len(buffer) - 1
          /\ senders # <<>> => Len(Tail(Available)) = Len(buffer)
      BY <1>t, <1>3, <2>1, TakeFirst
    <3> QED
      BY <2>1, <3>1, Zenon
  <2>4. NothingLost'
    BY <1>1, <2>1, <2>2, Zenon DEF NothingLost, Contents
  <2>5. post' \in [Posts -> PostPhases]
    BY <1>1, <1>3 DEF ReceiveNext, TypeOK, PostPhases
  <2>6. Len(buffer) \in Nat /\ Len(buffer) <= Capacity
    BY <1>1, <1>t, LenProperties DEF TypeOK
  <2>7. Len(buffer') <= Capacity /\ (senders' # <<>> => Len(buffer') = Capacity)
    <3>1. senders # <<>> => Len(buffer) = Capacity
      BY <1>1 DEF StreamControl
    <3>2. senders = <<>> => senders' = <<>>
      BY <2>1
    <3> QED
      BY <2>2, <2>6, <3>1, <3>2, CapacityAssumption
  <2>8. TypeOK'
    <3>1. UNCHANGED <<client, announced, registered, closed, status>>
      BY <1>3 DEF ReceiveNext
    <3>2. gen' \in GeneratorPhases /\ Len(hand') <= 1 /\ received' \in Seq(Posts)
          /\ sent' \in Seq(Posts)
      BY <1>1, <2>1, <2>2 DEF GeneratorPhases, TypeOK
    <3> QED
      BY <1>1, <2>2, <2>5, <2>7, <3>1, <3>2, Zenon DEF TypeOK
  <2>9. StreamControl'
    BY <2>1, <2>7, Zenon DEF StreamControl
  <2> QED
    BY <2>4, <2>8, <2>9 DEF IInv
<1> QED
  BY <1>2, <1>3

LEMMA HandleAndSendInv ==
  ASSUME IInv, NEW p \in Posts, HandleAndSend(p)
  PROVE  IInv'
<1>1. TypeOK /\ StreamControl /\ NothingLost
  BY DEF IInv
<1>t. /\ buffer \in Seq(Posts) /\ senders \in Seq(Posts) /\ hand \in Seq(Posts)
      /\ received \in Seq(Posts) /\ sent \in Seq(Posts)
      /\ Len(buffer) \in Nat /\ Len(buffer) <= Capacity
  BY <1>1, LenProperties DEF TypeOK
<1>s. sent' = Append(sent, p) /\ sent' \in Seq(Posts) /\ received' = received
  BY <1>t, AppendProperties DEF HandleAndSend
<1>h. /\ received \o hand \in Seq(Posts)
      /\ received \o hand \o buffer \in Seq(Posts)
  BY <1>t, ConcatProperties
<1>2. CASE gen = "waiting"
  <2>1. buffer = <<>> /\ senders = <<>> /\ hand = <<>> /\ hand' = <<p>>
        /\ buffer' = <<>> /\ senders' = <<>> /\ gen' = "woken" /\ Finish(p, 202)
    BY <1>1, <1>2 DEF HandleAndSend, StreamControl
  <2>2. received \o <<p>> = Append(received, p) /\ Append(received, p) \in Seq(Posts)
    BY <1>t, AppendIsConcat, AppendProperties
  <2>3. sent = received
    BY <1>1, <1>t, <2>1, ConcatEmptySeq DEF NothingLost
  <2>4. received \o <<p>> \o <<>> \o <<>> = Append(received, p)
    BY <2>2, ConcatEmptySeq
  <2>5. NothingLost'
    BY <1>s, <2>1, <2>3, <2>4 DEF NothingLost
  <2>6. TypeOK'
    BY <1>1, <1>s, <1>t, <2>1, ControlType
       DEF HandleAndSend, TypeOK, GeneratorPhases
  <2> QED
    BY <2>1, <2>5, <2>6 DEF IInv, StreamControl
<1>3. CASE gen # "waiting" /\ Len(buffer) < Capacity
  <2>1. /\ senders = <<>> /\ senders' = <<>> /\ buffer' = Append(buffer, p)
        /\ hand' = hand /\ gen' = gen /\ Finish(p, 202)
    BY <1>1, <1>3, <1>t, CapacityAssumption DEF HandleAndSend, HasRoom, StreamControl
  <2>2. buffer' \in Seq(Posts) /\ Len(buffer') = Len(buffer) + 1
    BY <1>t, <2>1, AppendProperties
  <2>3. received \o hand \o buffer' = Append(received \o hand \o buffer, p)
    BY <1>t, <1>h, <2>1, AppendLast
  <2>4. NothingLost'
    BY <1>1, <1>h, <1>s, <2>1, <2>2, <2>3, ConcatEmptySeq, AppendProperties DEF NothingLost
  <2>5. Len(buffer') <= Capacity
    BY <1>3, <1>t, <2>2, CapacityAssumption
  <2>6. TypeOK'
    BY <1>1, <1>s, <2>1, <2>2, <2>5, ControlType DEF HandleAndSend, TypeOK
  <2>7. StreamControl'
    BY <1>1, <1>3, <2>1 DEF StreamControl
  <2> QED
    BY <2>4, <2>6, <2>7 DEF IInv
<1>4. CASE gen # "waiting" /\ Len(buffer) >= Capacity
  <2>1. /\ senders' = Append(senders, p) /\ buffer' = buffer /\ hand' = hand /\ gen' = gen
        /\ post' = [post EXCEPT ![p] = "blocked"] /\ status' = status
    BY <1>4, <1>t, CapacityAssumption DEF HandleAndSend, HasRoom, WaitForRoom
  <2>2. senders' \in Seq(Posts) /\ Len(buffer) = Capacity
    BY <1>4, <1>t, <2>1, AppendProperties, CapacityAssumption
  <2>3. NothingLost'
    <3>1. (received \o hand \o buffer) \o Append(senders, p)
            = Append(received \o hand \o buffer \o senders, p)
      BY <1>t, <1>h, AppendLast
    <3> QED
      BY <1>1, <1>s, <2>1, <3>1, Zenon DEF NothingLost
  <2>4. TypeOK'
    BY <1>1, <1>s, <2>1, <2>2 DEF HandleAndSend, TypeOK, PostPhases
  <2>5. StreamControl'
    BY <1>1, <1>4, <2>1, <2>2 DEF StreamControl
  <2> QED
    BY <2>3, <2>4, <2>5 DEF IInv
<1>5. Len(buffer) < Capacity \/ Len(buffer) >= Capacity
  BY <1>t, LenProperties, CapacityAssumption
<1> QED
  BY <1>2, <1>3, <1>4, <1>5

-----------------------------------------------------------------------------
(* The theorems.                                                             *)

LEMMA InitSse == ASSUME Init PROVE IInv
<1>1. <<>> \in Seq(Posts) /\ Len(<<>>) = 0
  BY EmptySeq
<1>2. <<>> \o <<>> \o <<>> \o <<>> = <<>>
  BY <1>1, ConcatEmptySeq
<1>3. NothingLost /\ StreamControl
  BY <1>2 DEF Init, NothingLost, StreamControl
<1>4. TypeOK
  <2>1. Len(buffer) <= Capacity /\ Len(hand) <= 1
    BY <1>1, CapacityAssumption DEF Init
  <2>2. /\ gen \in GeneratorPhases /\ client \in {"away", "connected", "gone"}
        /\ post \in [Posts -> PostPhases]
        /\ status \in [Posts -> {0, 202, 400, 401, 404}]
    BY DEF Init, GeneratorPhases, PostPhases
  <2>3. announced \in BOOLEAN /\ registered \in BOOLEAN /\ closed \in BOOLEAN
    BY Zenon DEF Init
  <2> QED
    BY <1>1, <2>1, <2>2, <2>3, Zenon DEF Init, TypeOK
<1> QED
  BY <1>3, <1>4 DEF IInv

LEMMA NextSse == ASSUME IInv, [Next]_vars PROVE IInv'
<1>t. /\ announced \in BOOLEAN /\ registered \in BOOLEAN /\ closed \in BOOLEAN
      /\ client \in {"away", "connected", "gone"}
      /\ gen \in GeneratorPhases
      /\ post \in [Posts -> PostPhases]
      /\ status \in [Posts -> {0, 202, 400, 401, 404}]
  BY DEF IInv, TypeOK
<1>1. ASSUME Connect \/ Disconnect \/ StartGenerator \/ Wake
              \/ EndGenerator \/ AbandonGenerator
      PROVE  IInv'
  <2>1. announced' \in BOOLEAN /\ registered' \in BOOLEAN /\ closed' \in BOOLEAN
    BY <1>t, <1>1, Zenon
       DEF Connect, Disconnect, StartGenerator, Wake, EndGenerator,
           AbandonGenerator, Forget
  <2>2. /\ client' \in {"away", "connected", "gone"} /\ gen' \in GeneratorPhases
        /\ post' = post /\ status' = status
        /\ UNCHANGED <<streamVars, received, sent>>
        /\ gen' # "waiting" \/ gen = "waiting"
        /\ gen' \in {"woken", "message", "over"} \/ gen \notin {"woken", "message", "over"}
    BY <1>t, <1>1
       DEF Connect, Disconnect, StartGenerator, Wake, EndGenerator,
           AbandonGenerator, GeneratorPhases
  <2> QED
    BY <1>t, <2>1, <2>2, AsideInv
<1>2. ASSUME NEW p \in Posts,
             \/ Arrive(p) \/ ReadBody(p) \/ HandleSilently(p)
             \/ HandleTooLate(p) \/ Resume(p)
      PROVE  IInv'
  <2>1. /\ UNCHANGED <<gen, client, streamVars, received, sent>>
        /\ UNCHANGED <<announced, registered, closed>>
    BY <1>2 DEF Arrive, ReadBody, HandleSilently, HandleTooLate, Resume
  <2>2. /\ post' \in [Posts -> PostPhases]
        /\ status' \in [Posts -> {0, 202, 400, 401, 404}]
    BY <1>t, <1>2
       DEF Arrive, ReadBody, HandleSilently, HandleTooLate, Resume, Finish, PostPhases
  <2> QED
    BY <1>t, <2>1, <2>2, AsideInv
<1>3. ASSUME UNCHANGED vars PROVE IInv'
  BY <1>3 DEF vars, streamVars, IInv, TypeOK, StreamControl, NothingLost
<1> QED
  BY <1>1, <1>2, <1>3, TransmitInv, ReceiveNextInv, HandleAndSendInv
     DEF Next, Generator, Handle

\* The inductive invariant: a receiver waits only for an empty stream, POSTs wait
\* only for a full one, and nothing is lost between them.
THEOREM StreamInductive == Spec => []IInv
<1>1. Init => IInv
  BY InitSse
<1>2. IInv /\ [Next]_vars => IInv'
  BY NextSse
<1> QED
  BY <1>1, <1>2, PTL DEF Spec

\* The stream keeps its types and its bound: it never holds more than Capacity
\* responses, and the generator never more than one.
THEOREM StreamTypeCorrect == Spec => []TypeOK
<1>1. IInv => TypeOK
  BY DEF IInv
<1> QED
  BY <1>1, StreamInductive, PTL

\* The stream of a session hands every response on once and in order, whatever
\* its capacity and however many POSTs wait for room.
THEOREM StreamIsFifo == Spec => []NothingLost
<1>1. IInv => NothingLost
  BY DEF IInv
<1> QED
  BY <1>1, StreamInductive, PTL
=============================================================================
