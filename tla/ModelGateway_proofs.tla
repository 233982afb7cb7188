-------------------------- MODULE ModelGateway_proofs --------------------------
(***************************************************************************)
(* Proofs about ModelGateway, for any connections and any requests on      *)
(* them: turns are numbered, the account is sound, answers are one's own.  *)
(***************************************************************************)
EXTENDS ModelGateway, TLAPS

(* What Append does to a sequence.                                         *)
LEMMA AppendFacts ==
  ASSUME NEW S, NEW s \in Seq(S), NEW e \in S
  PROVE  /\ Append(s, e) \in Seq(S) /\ Len(s) \in Nat
         /\ Len(Append(s, e)) = Len(s) + 1
         /\ \A i \in 1 .. Len(s) : Append(s, e)[i] = s[i] /\ s[i] \in S
         /\ Append(s, e)[Len(s) + 1] = e
OBVIOUS

(* What a sequence over a set consists of.                                 *)
LEMMA ElementFacts ==
  ASSUME NEW S, NEW s \in Seq(S)
  PROVE  Len(s) \in Nat /\ \A i \in 1 .. Len(s) : s[i] \in S
OBVIOUS

(* A response is put at the end of the connection's stream, and what has   *)
(* been answered before stays answered.                                    *)
Sent(c, status) ==
  /\ stream' \in [Conns -> Seq(Responses)]
  /\ \A d \in Conns \ {c} : stream'[d] = stream[d]
  /\ Len(stream[c]) \in Nat /\ Len(stream'[c]) = Len(stream[c]) + 1
  /\ \A i \in 1 .. Len(stream[c]) : stream'[c][i] = stream[c][i]
  /\ stream'[c][Len(stream[c]) + 1] = [to |-> handled[c], status |-> status]
  /\ \A r \in Requests : Answered(r) => Answered(r)'

(* Send does that.                                                         *)
LEMMA SendFacts ==
  ASSUME TypeOK, NEW c \in Conns, NEW status \in {200, 403, 502}, handled[c] > 0, Send(c, status)
  PROVE  Sent(c, status)
<1> DEFINE e == [to |-> handled[c], status |-> status]
<1>1. e \in Responses
  BY DEF TypeOK, Responses
<1>2. stream[c] \in Seq(Responses) /\ stream' = [stream EXCEPT ![c] = Append(stream[c], e)]
  BY DEF TypeOK, Send
<1> HIDE DEF e
<1>3. /\ Append(stream[c], e) \in Seq(Responses) /\ Len(stream[c]) \in Nat
      /\ Len(Append(stream[c], e)) = Len(stream[c]) + 1
      /\ \A i \in 1 .. Len(stream[c]) : Append(stream[c], e)[i] = stream[c][i]
      /\ Append(stream[c], e)[Len(stream[c]) + 1] = e
  BY <1>1, <1>2, AppendFacts
<1>4. /\ stream' \in [Conns -> Seq(Responses)] /\ stream'[c] = Append(stream[c], e)
      /\ \A d \in Conns \ {c} : stream'[d] = stream[d]
  BY <1>2, <1>3 DEF TypeOK
<1>5. ASSUME NEW r \in Requests, Answered(r) PROVE Answered(r)'
  <2>1. PICK i \in 1 .. Len(stream[r[1]]) : stream[r[1]][i] = [to |-> r[2], status |-> 200]
    BY <1>5 DEF Answered
  <2>2. r[1] \in Conns
    BY DEF Requests
  <2>3. CASE r[1] = c
    <3>1. i \in 1 .. Len(stream'[c]) /\ stream'[c][i] = stream[c][i]
      BY <1>3, <1>4, <2>1, <2>3
    <3> QED
      BY <2>1, <2>3, <3>1 DEF Answered
  <2>4. CASE r[1] # c
    BY <1>4, <2>1, <2>2, <2>4 DEF Answered
  <2> QED
    BY <2>3, <2>4
<1> QED
  BY <1>3, <1>4, <1>5 DEF e, Sent

(* Nothing has happened yet.                                               *)
LEMMA InitGInv == Init => GInv
<1> SUFFICES ASSUME Init PROVE GInv
  OBVIOUS
<1> USE DEF Init
<1>1. TypeOK
  BY GatewayAssumption DEF TypeOK, Paths, Steps
<1>2. ServerInv
  BY DEF ServerInv, Busy, Tracer
<1>3. TurnInv
  BY DEF TurnInv, TurnsAreNumbered
<1>4. AccountIsSound
  BY DEF AccountIsSound
<1>5. ASSUME NEW c \in Conns PROVE ChargeOf(c) /\ StreamOf(c)
  <2>1. \A k \in 1 .. MaxRequests : usage[<<c, k>>] = 0
    BY DEF Requests
  <2>2. StreamOf(c)
    BY DEF StreamOf, Answering, Tracer, Void
  <2> QED
    BY <2>1, <2>2 DEF ChargeOf, Tracer
<1> QED
  BY <1>1, <1>2, <1>3, <1>4, <1>5 DEF GInv

(* The client changes nothing that the handler has done.                   *)
LEMMA ClientGInv == ASSUME GInv, NEW c \in Conns, Client(c) PROVE GInv'
<1> USE DEF Client, Ask, ReadAnswer, Leave, GiveUp, handler
<1>1. TypeOK /\ StreamOf(c)
  BY DEF GInv
<1>2. /\ UNCHANGED <<deployment, stream, at, handled, body, old, turn, charged, usage, trace>>
      /\ \A d \in Conns : open'[d] => open[d]
  BY <1>1 DEF TypeOK
<1>3. TypeOK'
  <2>1. sent' \in [Conns -> 0 .. MaxRequests]
    <3>1. sent[c] < MaxRequests => sent[c] + 1 \in 0 .. MaxRequests
      BY <1>1, GatewayAssumption DEF TypeOK
    <3> QED
      BY <1>1, <3>1 DEF TypeOK
  <2>2. got' \in [Conns -> Nat]
    <3>1. got \in [Conns -> Nat] /\ got[c] + 1 \in Nat
      BY <1>1 DEF TypeOK
    <3>2. UNCHANGED got \/ got' = [got EXCEPT ![c] = got[c] + 1]
      OBVIOUS
    <3> QED
      BY <3>1, <3>2
  <2>3. open' \in [Conns -> BOOLEAN]
    BY <1>1 DEF TypeOK
  <2>4. path' \in [Conns -> Paths]
    BY <1>1 DEF TypeOK
  <2> QED
    BY <1>1, <1>2, <2>1, <2>2, <2>3, <2>4 DEF TypeOK
<1>4. ServerInv' /\ TurnInv' /\ AccountIsSound'
  <2>1. ServerInv' /\ TurnInv'
    BY <1>2 DEF GInv, ServerInv, Busy, Threaded, Tracing, TurnInv, TurnsAreNumbered
  <2>2. \A r \in Requests : r[1] \in Conns /\ (Answered(r)' <=> Answered(r))
    BY <1>2 DEF Requests, Answered
  <2>3. AccountIsSound'
    BY <1>2, <2>2 DEF GInv, AccountIsSound, Threaded
  <2> QED
    BY <2>1, <2>3
<1>5. ASSUME NEW d \in Conns PROVE ChargeOf(d)' /\ (Void(d) => Void(d)')
  BY <1>2, <1>5 DEF GInv, ChargeOf, Request, Answered, Void, Threaded
<1>6. ASSUME NEW d \in Conns PROVE StreamOf(d)'
  <2>1. Tracing' <=> Tracing
    BY <1>2 DEF Tracing
  <2>2. /\ got'[d] <= sent'[d] /\ sent'[d] <= got'[d] + 1
        /\ got'[d] <= Len(stream[d]) /\ handled[d] <= sent'[d]
    <3>1. /\ got[d] \in Nat /\ sent[d] \in Nat /\ Len(stream[d]) \in Nat /\ handled[d] \in Nat
          /\ got[d] <= sent[d] /\ sent[d] <= got[d] + 1
          /\ got[d] <= Len(stream[d]) /\ handled[d] <= sent[d]
      <4>1. StreamOf(d) /\ stream[d] \in Seq(Responses)
        BY DEF GInv, TypeOK
      <4>2. got[d] \in Nat /\ sent[d] \in Nat /\ handled[d] \in Nat
        BY <1>1, GatewayAssumption DEF TypeOK
      <4> QED
        BY <4>1, <4>2, ElementFacts DEF StreamOf
    <3>2. \/ sent'[d] = sent[d] /\ got'[d] = got[d]
          \/ sent[d] = got[d] /\ sent'[d] = sent[d] + 1 /\ got'[d] = got[d]
          \/ got[d] < sent[d] /\ got[d] < Len(stream[d]) /\ got'[d] = got[d] + 1 /\ sent'[d] = sent[d]
      BY <1>1 DEF TypeOK
    <3> QED
      BY <3>1, <3>2
  <2>3. \A i : Doubled(d, i)' <=> Doubled(d, i)
    BY <1>2 DEF Doubled
  <2>4. StreamOf(d) /\ (Void(d) => Void(d)')
    BY <1>5 DEF GInv
  <2> QED
    BY <1>2, <2>1, <2>2, <2>3, <2>4 DEF StreamOf
<1> QED
  BY <1>3, <1>4, <1>5, <1>6 DEF GInv

(* A request that is being handled has been sent.                          *)
LEMMA HandledIsRequest ==
  ASSUME TypeOK, NEW c \in Conns, StreamOf(c), at[c] \notin {"queued", "ready", "closed"}
  PROVE  handled[c] \in 1 .. MaxRequests /\ Request(c) \in Requests /\ Len(stream[c]) \in Nat
<1>1. handled[c] \in 0 .. MaxRequests /\ Len(stream[c]) \in Nat /\ at[c] \in Steps
  BY GatewayAssumption, ElementFacts DEF TypeOK
<1>2. handled[c] > 0
  BY <1>1 DEF StreamOf, Steps, Answering, Tracer, Void
<1> QED
  BY <1>1, <1>2, GatewayAssumption DEF Request, Requests

(* The types are kept by each step of the handler.                         *)
LEMMA HandlerTypeOK == ASSUME GInv, NEW c \in Conns, Handler(c) PROVE TypeOK'
<1> USE DEF client, Goto
<1>1. TypeOK /\ StreamOf(c)
  BY DEF GInv
<1>2. CASE AcceptConn(c)
  BY <1>1, <1>2 DEF AcceptConn, TypeOK, Steps
<1>3. CASE ReadRequest(c)
  <2>1. handled[c] < sent[c] => handled[c] + 1 \in 0 .. MaxRequests
    BY <1>1, GatewayAssumption DEF TypeOK
  <2>2. handled' \in [Conns -> 0 .. MaxRequests]
    BY <1>1, <1>3, <2>1 DEF ReadRequest, TypeOK
  <2> QED
    BY <1>1, <1>3, <2>2 DEF ReadRequest, TypeOK, Steps
<1>4. CASE Check(c)
  <2>1. handled[c] > 0
    BY <1>1, <1>4, HandledIsRequest, GatewayAssumption DEF Check
  <2>2. Send(c, 403) \/ UNCHANGED stream
    BY <1>4 DEF Check
  <2>3. stream' \in [Conns -> Seq(Responses)]
    <3>1. CASE Send(c, 403)
      BY <1>1, <2>1, <3>1, SendFacts DEF Sent
    <3>2. CASE UNCHANGED stream
      BY <1>1, <3>2 DEF TypeOK
    <3> QED
      BY <2>2, <3>1, <3>2
  <2> QED
    BY <1>1, <1>4, <2>3 DEF Check, TypeOK, Steps
<1>5. CASE Upstream(c)
  <2>1. Request(c) \in Requests
    BY <1>1, <1>5, HandledIsRequest DEF Upstream
  <2>2. charged' \subseteq Requests
    BY <1>1, <1>5, <2>1 DEF Upstream, TypeOK
  <2>3. body' \in [Conns -> Bodies \union {"none"}]
    BY <1>1, <1>5 DEF Upstream, TypeOK, Bodies
  <2>4. at' \in [Conns -> Steps]
    BY <1>1, <1>5 DEF Upstream, TypeOK, Steps
  <2>5. UNCHANGED <<client, stream, handled, old, turn, usage, trace>>
    BY <1>5 DEF Upstream
  <2> QED
    BY <1>1, <2>2, <2>3, <2>4, <2>5 DEF TypeOK
<1>6. CASE Reply(c)
  <2>1. handled[c] > 0
    BY <1>1, <1>6, HandledIsRequest, GatewayAssumption DEF Reply
  <2>2. Send(c, 200) \/ UNCHANGED stream
    BY <1>6 DEF Reply
  <2>3. stream' \in [Conns -> Seq(Responses)]
    <3>1. CASE Send(c, 200)
      BY <1>1, <2>1, <3>1, SendFacts DEF Sent
    <3>2. CASE UNCHANGED stream
      BY <1>1, <3>2 DEF TypeOK
    <3> QED
      BY <2>2, <3>1, <3>2
  <2> QED
    BY <1>1, <1>6, <2>3 DEF Reply, TypeOK, Steps
<1>7. CASE LogUsage(c)
  <2>1. Request(c) \in Requests
    BY <1>1, <1>7, HandledIsRequest DEF LogUsage
  <2>2. usage[Request(c)] \in Nat /\ usage[Request(c)] + 1 \in Nat
    BY <1>1, <2>1 DEF TypeOK
  <2>3. usage' \in [Requests -> Nat]
    BY <1>1, <1>7, <2>2 DEF LogUsage, TypeOK
  <2> QED
    BY <1>1, <1>7, <2>3 DEF LogUsage, TypeOK, Steps
<1>8. CASE Count(c)
  BY <1>1, <1>8 DEF Count, TypeOK, Steps
<1>9. CASE Store(c)
  BY <1>1, <1>9 DEF Store, TypeOK, Steps
<1>10. CASE WriteTurn(c)
  <2>1. Request(c) \in Requests
    BY <1>1, <1>10, HandledIsRequest DEF WriteTurn
  <2> DEFINE S == [turn : Nat, of : Requests, usage : BOOLEAN]
             e == [turn |-> turn, of |-> Request(c), usage |-> body[c] = "usage"]
  <2>2. trace \in Seq(S) /\ e \in S /\ (trace' = Append(trace, e) \/ UNCHANGED trace)
    BY <1>1, <1>10, <2>1 DEF WriteTurn, TypeOK
  <2> HIDE DEF S, e
  <2>3. trace' \in Seq(S)
    BY <2>2, AppendFacts
  <2> QED
    BY <1>1, <1>10, <2>3 DEF WriteTurn, TypeOK, Steps, S
<1>11. CASE Error(c)
  <2>1. handled[c] > 0
    BY <1>1, <1>11, HandledIsRequest, GatewayAssumption DEF Error
  <2>2. Send(c, 502) \/ UNCHANGED stream
    BY <1>11 DEF Error
  <2>3. stream' \in [Conns -> Seq(Responses)]
    <3>1. CASE Send(c, 502)
      BY <1>1, <2>1, <3>1, SendFacts DEF Sent
    <3>2. CASE UNCHANGED stream
      BY <1>1, <3>2 DEF TypeOK
    <3> QED
      BY <2>2, <3>1, <3>2
  <2> QED
    BY <1>1, <1>11, <2>3 DEF Error, TypeOK, Steps
<1> QED
  BY <1>2, <1>3, <1>4, <1>5, <1>6, <1>7, <1>8, <1>9, <1>10, <1>11 DEF Handler

(* Only AcceptConn makes a connection busy, and only LogUsage begins to    *)
(* trace.                                                                  *)
LEMMA HandlerServerInv == ASSUME GInv, NEW c \in Conns, Handler(c) PROVE ServerInv'
<1> USE DEF client, Goto, GInv, TypeOK, ServerInv, Busy, Threaded, Tracing, Tracer
<1>1. CASE AcceptConn(c)
  BY <1>1 DEF AcceptConn
<1>2. CASE ReadRequest(c) \/ Check(c) \/ Upstream(c) \/ Reply(c)
  BY <1>2 DEF ReadRequest, Check, Upstream, Reply
<1>3. CASE LogUsage(c)
  BY <1>3 DEF LogUsage
<1>4. CASE Count(c) \/ Store(c) \/ WriteTurn(c) \/ Error(c)
  BY <1>4 DEF Count, Store, WriteTurn, Error
<1> QED
  BY <1>1, <1>2, <1>3, <1>4 DEF Handler

(* Between the read of the counter and the record of the turn nobody else  *)
(* traces.                                                                 *)
LEMMA HandlerTurnInv == ASSUME GInv, NEW c \in Conns, Handler(c) PROVE TurnInv'
<1> USE DEF client, Goto, TurnInv, TurnsAreNumbered
<1>1. TypeOK /\ ServerInv /\ TurnInv
  BY DEF GInv
<1>2. ASSUME at[c] \in Tracer, NEW d \in Conns, d # c PROVE at[d] \notin Tracer
  BY <1>1, <1>2 DEF ServerInv, TypeOK, Busy, Tracer, Threaded, Tracing
<1>3. CASE AcceptConn(c) \/ ReadRequest(c) \/ Check(c) \/ Upstream(c) \/ Reply(c)
           \/ LogUsage(c) \/ Error(c)
  <2>1. UNCHANGED <<turn, trace, old>> /\ at'[c] \notin {"store", "write"}
        /\ \A d \in Conns \ {c} : at'[d] = at[d]
    BY <1>1, <1>3 DEF TypeOK, AcceptConn, ReadRequest, Check, Upstream, Reply, LogUsage, Error
  <2> QED
    BY <1>1, <2>1
<1>4. CASE Count(c)
  <2>1. UNCHANGED <<turn, trace>> /\ at'[c] = "store" /\ old'[c] = turn
        /\ \A d \in Conns \ {c} : at'[d] = at[d] /\ old'[d] = old[d]
    BY <1>1, <1>4 DEF TypeOK, Count
  <2> QED
    BY <1>1, <2>1
<1>5. CASE Store(c)
  <2>1. /\ turn' = turn + 1 /\ UNCHANGED <<trace, old>> /\ at'[c] = "write" /\ turn \in Nat
        /\ \A d \in Conns \ {c} : at'[d] = at[d] /\ at[d] \notin {"store", "write"}
    BY <1>1, <1>2, <1>5 DEF TypeOK, Store, Tracer
  <2>2. ASSUME NEW i \in 1 .. Len(trace) PROVE trace[i].turn \in Nat
    <3>1. trace \in Seq([turn : Nat, of : Requests, usage : BOOLEAN])
      BY <1>1 DEF TypeOK
    <3>2. trace[i] \in [turn : Nat, of : Requests, usage : BOOLEAN]
      BY <3>1, ElementFacts
    <3> QED
      BY <3>2
  <2> QED
    BY <1>1, <2>1, <2>2
<1>6. CASE WriteTurn(c)
  <2>1. /\ UNCHANGED <<turn, old>> /\ at'[c] \notin {"store", "write"} /\ turn \in Nat
        /\ \A d \in Conns \ {c} : at'[d] = at[d] /\ at[d] \notin {"store", "write"}
        /\ \A i \in 1 .. Len(trace) : trace[i].turn < turn
    BY <1>1, <1>2, <1>6 DEF TypeOK, WriteTurn, Tracer
  <2>2. CASE UNCHANGED trace
    BY <1>1, <2>1, <2>2
  <2>3. CASE trace' = Append(trace, [turn |-> turn, of |-> Request(c), usage |-> body[c] = "usage"])
    <3> DEFINE e == [turn |-> turn, of |-> Request(c), usage |-> body[c] = "usage"]
               S == [turn : Nat, of : Requests, usage : BOOLEAN]
    <3>1. trace \in Seq(S) /\ e \in S
      BY <1>1, <1>6, <2>1, HandledIsRequest DEF GInv, TypeOK, WriteTurn
    <3>2. e.turn = turn
      OBVIOUS
    <3> HIDE DEF e, S
    <3>3. /\ Len(trace) \in Nat /\ Len(trace') = Len(trace) + 1
          /\ \A i \in 1 .. Len(trace) : trace'[i] = trace[i] /\ trace'[Len(trace) + 1] = e
      BY <2>3, <3>1, AppendFacts DEF e
    <3> QED
      BY <1>1, <2>1, <2>3, <3>1, <3>2, <3>3, AppendFacts DEF e
  <2> QED
    BY <1>6, <2>2, <2>3 DEF WriteTurn
<1> QED
  BY <1>3, <1>4, <1>5, <1>6 DEF Handler

(* A step of the handler of c says nothing of another connection, but that *)
(* what was charged, answered and logged for it stays so.                  *)
LEMMA OtherConns ==
  ASSUME GInv, NEW c \in Conns, NEW d \in Conns \ {c}, UNCHANGED deployment,
         at'[d] = at[d], handled'[d] = handled[d], stream'[d] = stream[d], body'[d] = body[d],
         got'[d] = got[d], sent'[d] = sent[d], open'[d] = open[d], charged \subseteq charged',
         \A k \in 1 .. MaxRequests : usage'[<<d, k>>] = usage[<<d, k>>]
  PROVE  ChargeOf(d)' /\ StreamOf(d)'
<1>1. ChargeOf(d) /\ StreamOf(d)
  BY DEF GInv
<1>2. /\ Request(d)' = Request(d) /\ (Answered(Request(d))' <=> Answered(Request(d)))
      /\ Void(d)' <=> Void(d)
  BY DEF Request, Answered, Void, Threaded
<1>3. ChargeOf(d)'
  <2>1. at[d] \in Tracer => handled[d] \in 1 .. MaxRequests
    BY <1>1, HandledIsRequest DEF GInv, Tracer
  <2>2. at[d] \in Tracer => usage'[Request(d)] = usage[Request(d)]
    BY <2>1 DEF Request
  <2> QED
    BY <1>1, <1>2, <2>2 DEF ChargeOf
<1>4. StreamOf(d)'
  <2>1. \A i : Doubled(d, i)' <=> Doubled(d, i)
    BY DEF Doubled
  <2>2. Tracing' <=> Tracing
    BY DEF Tracing
  <2> QED
    BY <1>1, <1>2, <2>1, <2>2 DEF StreamOf
<1> QED
  BY <1>3, <1>4

(* A step without a response and without a record leaves the account as it *)
(* is.                                                                     *)
LEMMA AccountStays ==
  ASSUME AccountIsSound, UNCHANGED <<deployment, open, stream, trace, usage>>,
         charged \subseteq charged'
  PROVE  AccountIsSound'
BY DEF AccountIsSound, Answered, Threaded

(* With a response, what has been answered stays answered.                 *)
LEMMA AccountAfterSend ==
  ASSUME TypeOK, AccountIsSound, NEW c \in Conns, handled[c] > 0,
         UNCHANGED <<deployment, open, trace, usage, charged>>,
         Send(c, 200) \/ Send(c, 403) \/ Send(c, 502)
  PROVE  AccountIsSound'
<1>1. \A r \in Requests : Answered(r) => Answered(r)'
  <2>1. Sent(c, 200) \/ Sent(c, 403) \/ Sent(c, 502)
    BY SendFacts
  <2> QED
    BY <2>1 DEF Sent
<1> QED
  BY <1>1 DEF AccountIsSound, Threaded

(* What the three actions that respond do to the stream.                   *)
LEMMA ResponseFacts ==
  ASSUME GInv, NEW c \in Conns, Check(c) \/ Reply(c) \/ Error(c)
  PROVE  UNCHANGED stream \/ Sent(c, 200) \/ Sent(c, 403) \/ Sent(c, 502)
<1>1. TypeOK /\ StreamOf(c)
  BY DEF GInv
<1>2. at[c] \notin {"queued", "ready", "closed"}
  BY DEF Check, Reply, Error
<1>3. handled[c] > 0
  BY <1>1, <1>2, HandledIsRequest, GatewayAssumption
<1>4. UNCHANGED stream \/ Send(c, 200) \/ Send(c, 403) \/ Send(c, 502)
  BY DEF Check, Reply, Error
<1> QED
  BY <1>1, <1>3, <1>4, SendFacts

(* What one handler does is no business of another connection.             *)
LEMMA HandlerOtherConns ==
  ASSUME GInv, NEW c \in Conns, Handler(c), NEW d \in Conns \ {c}
  PROVE  ChargeOf(d)' /\ StreamOf(d)'
<1> USE DEF client, Goto
<1>1. TypeOK
  BY DEF GInv
<1>2. UNCHANGED <<deployment, got, sent, open>> /\ charged \subseteq charged'
  BY DEF Handler, AcceptConn, ReadRequest, Check, Upstream, Reply, LogUsage, Count, Store, WriteTurn, Error
<1>3. at'[d] = at[d] /\ handled'[d] = handled[d] /\ body'[d] = body[d]
  BY <1>1 DEF TypeOK, Handler, AcceptConn, ReadRequest, Check, Upstream, Reply, LogUsage, Count, Store,
     WriteTurn, Error
<1>4. stream'[d] = stream[d]
  <2>1. CASE Check(c) \/ Reply(c) \/ Error(c)
    <3>1. UNCHANGED stream \/ Sent(c, 200) \/ Sent(c, 403) \/ Sent(c, 502)
      BY <2>1, ResponseFacts
    <3> QED
      BY <3>1 DEF Sent
  <2>2. CASE ~(Check(c) \/ Reply(c) \/ Error(c))
    BY <2>2 DEF Handler, AcceptConn, ReadRequest, Upstream, LogUsage, Count, Store, WriteTurn
  <2> QED
    BY <2>1, <2>2
<1>5. ASSUME NEW k \in 1 .. MaxRequests PROVE usage'[<<d, k>>] = usage[<<d, k>>]
  <2>1. \/ UNCHANGED usage
        \/ \E n : usage' = [usage EXCEPT ![Request(c)] = n]
    BY DEF Handler, AcceptConn, ReadRequest, Check, Upstream, Reply, LogUsage, Count, Store, WriteTurn, Error
  <2>2. <<d, k>> # Request(c) /\ <<d, k>> \in Requests
    BY DEF Request, Requests
  <2> QED
    BY <1>1, <2>1, <2>2 DEF TypeOK
<1> QED
  BY <1>2, <1>3, <1>4, <1>5, OtherConns

(* Nothing is charged or logged, and no response is written: where the     *)
(* handler may go from where it was.                                       *)
LEMMA QuietHandler ==
  ASSUME GInv, NEW c \in Conns, AcceptConn(c) \/ ReadRequest(c) \/ Count(c) \/ Store(c)
  PROVE  AccountIsSound' /\ ChargeOf(c)' /\ StreamOf(c)'
<1> USE DEF client, Goto
<1>1. TypeOK /\ ChargeOf(c) /\ StreamOf(c) /\ AccountIsSound
  BY DEF GInv
<1>2. UNCHANGED <<deployment, sent, got, open, stream, trace, usage, charged, body>>
  BY DEF AcceptConn, ReadRequest, Count, Store
<1>3. AccountIsSound'
  BY <1>1, <1>2, AccountStays
<1>4. \/ at[c] = "queued" /\ at'[c] = "ready" /\ handled'[c] = handled[c]
      \/ at[c] = "ready" /\ at'[c] = "check" /\ handled[c] < sent[c] /\ handled'[c] = handled[c] + 1
      \/ at[c] = "ready" /\ at'[c] = "closed" /\ handled'[c] = handled[c]
      \/ at[c] = "count" /\ at'[c] = "store" /\ handled'[c] = handled[c]
      \/ at[c] = "store" /\ at'[c] = "write" /\ handled'[c] = handled[c]
  BY <1>1 DEF TypeOK, AcceptConn, ReadRequest, Count, Store
<1>5. ChargeOf(c)'
  <2>1. handled[c] \in Nat /\ MaxRequests \in Nat
    BY <1>1, GatewayAssumption DEF TypeOK
  <2> QED
    BY <1>1, <1>2, <1>4, <2>1 DEF ChargeOf, Request, Tracer
<1>6. StreamOf(c)'
  <2>1. /\ handled[c] \in Nat /\ sent[c] \in Nat /\ got[c] \in Nat /\ Len(stream[c]) \in Nat
    BY <1>1, GatewayAssumption, ElementFacts DEF TypeOK
  <2>2. (Tracing' <=> Tracing) /\ \A i : Doubled(c, i)' <=> Doubled(c, i)
    BY <1>2 DEF Tracing, Doubled
  <2>3. handled'[c] = handled[c] => (Void(c)' <=> Void(c))
    BY <1>2 DEF Void, Threaded
  <2>4. at[c] = "ready" /\ handled[c] < sent[c] => Len(stream[c]) = handled[c]
    BY <1>1, <2>1 DEF StreamOf, Void
  <2>5. at[c] = "ready" /\ at'[c] = "check" => StreamOf(c)'
    BY <1>1, <1>2, <1>4, <2>1, <2>2, <2>4 DEF StreamOf, Answering, Tracer
  <2>6. handled'[c] = handled[c] => StreamOf(c)'
    BY <1>1, <1>2, <1>4, <2>1, <2>2, <2>3 DEF StreamOf, Answering, Tracer
  <2> QED
    BY <1>4, <2>5, <2>6
<1> QED
  BY <1>3, <1>5, <1>6

(* A request that is not allowed ends the connection, with a 403 in its    *)
(* place.                                                                  *)
LEMMA CheckGInv ==
  ASSUME GInv, NEW c \in Conns, Check(c) PROVE AccountIsSound' /\ ChargeOf(c)' /\ StreamOf(c)'
<1> USE DEF client, Goto
<1>1. TypeOK /\ ChargeOf(c) /\ StreamOf(c) /\ AccountIsSound
  BY DEF GInv
<1>2. /\ UNCHANGED <<deployment, sent, got, open, trace, usage, charged, body, handled>>
      /\ at[c] = "check" /\ at'[c] \in {"upstream", "closed"}
      /\ UNCHANGED stream \/ (at'[c] = "closed" /\ Send(c, 403))
  BY <1>1 DEF Check, TypeOK
<1>3. /\ handled[c] \in 1 .. MaxRequests /\ Len(stream[c]) \in Nat /\ Len(stream[c]) + 1 = handled[c]
      /\ sent[c] \in Nat /\ got[c] \in Nat
  BY <1>1, <1>2, HandledIsRequest, GatewayAssumption DEF TypeOK, StreamOf
<1>4. Send(c, 403) => Sent(c, 403)
  BY <1>1, <1>3, GatewayAssumption, SendFacts
<1>5. AccountIsSound'
  BY <1>1, <1>2, <1>3, AccountStays, AccountAfterSend, GatewayAssumption
<1>6. ChargeOf(c)'
  BY <1>1, <1>2 DEF ChargeOf, Tracer, Request
<1>7. StreamOf(c)'
  <2>1. \A i \in 1 .. Len(stream[c]) : stream[c][i].to = i
    BY <1>1, <1>2 DEF StreamOf
  <2>2. CASE UNCHANGED stream
    BY <1>1, <1>2, <1>3, <2>1, <2>2 DEF StreamOf, Answering, Tracer
  <2>3. CASE at'[c] = "closed" /\ Send(c, 403)
    <3>1. /\ Len(stream'[c]) = handled[c]
          /\ \A i \in 1 .. Len(stream[c]) : stream'[c][i] = stream[c][i]
          /\ stream'[c][handled[c]] = [to |-> handled[c], status |-> 403]
      BY <1>3, <1>4, <2>3 DEF Sent
    <3>2. \A i \in 1 .. Len(stream'[c]) : stream'[c][i].to = i
      BY <1>3, <2>1, <3>1
    <3> QED
      BY <1>1, <1>2, <1>3, <2>3, <3>1, <3>2 DEF StreamOf, Answering, Tracer
  <2> QED
    BY <1>2, <2>2, <2>3
<1> QED
  BY <1>5, <1>6, <1>7

(* The upstream charges for what it answers.                               *)
LEMMA UpstreamGInv ==
  ASSUME GInv, NEW c \in Conns, Upstream(c) PROVE AccountIsSound' /\ ChargeOf(c)' /\ StreamOf(c)'
<1> USE DEF client, Goto
<1>1. TypeOK /\ ChargeOf(c) /\ StreamOf(c) /\ AccountIsSound
  BY DEF GInv
<1>2. /\ UNCHANGED <<deployment, sent, got, open, stream, trace, usage, handled>> /\ charged \subseteq charged'
      /\ at[c] = "upstream"
      /\ at'[c] = "error" \/ (at'[c] = "reply" /\ Request(c) \in charged')
  BY <1>1 DEF Upstream, TypeOK
<1>3. AccountIsSound'
  BY <1>1, <1>2, AccountStays
<1>4. ChargeOf(c)'
  BY <1>1, <1>2 DEF ChargeOf, Tracer, Request
<1>5. StreamOf(c)'
  <2>1. /\ handled[c] \in Nat /\ Len(stream[c]) \in Nat
    BY <1>1, ElementFacts DEF TypeOK
  <2> QED
    BY <1>1, <1>2, <2>1 DEF StreamOf, Answering, Tracer
<1> QED
  BY <1>3, <1>4, <1>5

(* The answer has the number of the request that was handled.              *)
LEMMA ReplyGInv ==
  ASSUME GInv, NEW c \in Conns, Reply(c) PROVE AccountIsSound' /\ ChargeOf(c)' /\ StreamOf(c)'
<1> USE DEF client, Goto
<1>1. TypeOK /\ ChargeOf(c) /\ StreamOf(c) /\ AccountIsSound
  BY DEF GInv
<1>2. /\ UNCHANGED <<deployment, sent, got, open, trace, usage, charged, body, handled>>
      /\ at[c] = "reply"
      /\ \/ at'[c] = "error" /\ UNCHANGED stream
         \/ at'[c] = "log" /\ Send(c, 200)
         \/ at'[c] = "log" /\ ~open[c] /\ Threaded /\ UNCHANGED stream
  BY <1>1 DEF Reply, TypeOK
<1>3. /\ handled[c] \in 1 .. MaxRequests /\ Len(stream[c]) \in Nat /\ Len(stream[c]) + 1 = handled[c]
      /\ sent[c] \in Nat /\ got[c] \in Nat
  BY <1>1, <1>2, HandledIsRequest, GatewayAssumption DEF TypeOK, StreamOf
<1>4. Send(c, 200) => Sent(c, 200)
  BY <1>1, <1>3, GatewayAssumption, SendFacts
<1>5. AccountIsSound'
  BY <1>1, <1>2, <1>3, AccountStays, AccountAfterSend, GatewayAssumption
<1>6. \A i \in 1 .. Len(stream[c]) : stream[c][i].to = i
  BY <1>1, <1>2 DEF StreamOf
<1>7. CASE at'[c] = "error" /\ UNCHANGED stream
  <2>1. ChargeOf(c)'
    BY <1>1, <1>2, <1>7 DEF ChargeOf, Tracer
  <2>2. StreamOf(c)'
    BY <1>1, <1>2, <1>3, <1>6, <1>7 DEF StreamOf, Answering, Tracer
  <2> QED
    BY <1>5, <2>1, <2>2
<1>8. CASE at'[c] = "log" /\ Send(c, 200)
  <2>1. /\ Len(stream'[c]) = handled[c]
        /\ \A i \in 1 .. Len(stream[c]) : stream'[c][i] = stream[c][i]
        /\ stream'[c][handled[c]] = [to |-> handled[c], status |-> 200]
    BY <1>3, <1>4, <1>8 DEF Sent
  <2>2. \A i \in 1 .. Len(stream'[c]) : stream'[c][i].to = i
    BY <1>3, <1>6, <2>1
  <2>3. Request(c)' = Request(c) /\ Request(c) \in charged'
    BY <1>1, <1>2 DEF ChargeOf, Request
  <2>4. Answered(Request(c))'
    BY <1>2, <1>3, <2>1 DEF Answered, Request
  <2>5. ChargeOf(c)'
    BY <1>1, <1>2, <1>8, <2>3, <2>4 DEF ChargeOf, Tracer
  <2>6. StreamOf(c)'
    BY <1>1, <1>2, <1>3, <1>8, <2>1, <2>2 DEF StreamOf, Answering, Tracer
  <2> QED
    BY <1>5, <2>5, <2>6
<1>9. CASE at'[c] = "log" /\ ~open[c] /\ Threaded /\ UNCHANGED stream
  <2>1. Void(c)'
    BY <1>2, <1>3, <1>9 DEF Void, Threaded
  <2>2. ChargeOf(c)'
    BY <1>1, <1>2, <1>9, <2>1 DEF ChargeOf, Tracer, Request
  <2>3. StreamOf(c)'
    BY <1>1, <1>2, <1>3, <1>6, <1>9, <2>1 DEF StreamOf, Answering, Tracer
  <2> QED
    BY <1>5, <2>2, <2>3
<1> QED
  BY <1>2, <1>7, <1>8, <1>9

(* The tokens of an answer are logged when none were, and the answer was   *)
(* given and sent, or written to nobody.                                   *)
LEMMA LogGInv ==
  ASSUME GInv, NEW c \in Conns, LogUsage(c) PROVE AccountIsSound' /\ ChargeOf(c)' /\ StreamOf(c)'
<1> USE DEF client, Goto
<1> DEFINE r0 == Request(c)
<1>1. TypeOK /\ ChargeOf(c) /\ StreamOf(c) /\ AccountIsSound
  BY DEF GInv
<1>2. /\ UNCHANGED <<deployment, sent, got, open, stream, trace, charged, body, handled>>
      /\ at[c] = "log" /\ at'[c] \in {"count", "ready"} /\ (at'[c] = "count" => Tracing)
      /\ usage' = [usage EXCEPT ![r0] = IF body[c] = "usage" THEN @ + 1 ELSE @]
  BY <1>1 DEF LogUsage, TypeOK
<1>3. /\ handled[c] \in 1 .. MaxRequests /\ r0 \in Requests
      /\ r0 = <<c, handled[c]>> /\ Request(c)' = r0
  BY <1>1, <1>2, HandledIsRequest DEF Request
<1>4. r0 \in charged /\ (Answered(r0) \/ Void(c)) /\ usage[r0] = 0
  BY <1>1, <1>2, <1>3 DEF ChargeOf
<1>5. /\ usage'[r0] = IF body[c] = "usage" THEN 1 ELSE 0
      /\ \A r \in Requests \ {r0} : usage'[r] = usage[r]
  BY <1>1, <1>2, <1>3, <1>4 DEF TypeOK
<1>6. \A r : Answered(r)' <=> Answered(r)
  BY <1>2 DEF Answered
<1>7. AccountIsSound'
  <2>1. ASSUME NEW i \in 1 .. Len(trace), trace[i].usage PROVE usage'[trace[i].of] = 1
    <3>1. trace \in Seq([turn : Nat, of : Requests, usage : BOOLEAN])
      BY <1>1 DEF TypeOK
    <3>2. trace[i] \in [turn : Nat, of : Requests, usage : BOOLEAN]
      BY <3>1, ElementFacts
    <3>3. trace[i].of \in Requests /\ usage[trace[i].of] = 1
      BY <1>1, <2>1, <3>2 DEF AccountIsSound
    <3> QED
      BY <1>4, <1>5, <3>3
  <2>2. ASSUME NEW r \in Requests, usage'[r] > 0
        PROVE  usage'[r] = 1 /\ r \in charged' /\ (Answered(r)' \/ (Threaded' /\ ~open'[r[1]]))
    <3>1. CASE r = r0
      BY <1>2, <1>3, <1>4, <1>5, <1>6, <2>2, <3>1 DEF Void, Threaded
    <3>2. CASE r # r0
      BY <1>1, <1>2, <1>5, <1>6, <2>2, <3>2 DEF AccountIsSound, Threaded
    <3> QED
      BY <3>1, <3>2
  <2> QED
    BY <1>2, <2>1, <2>2 DEF AccountIsSound
<1>8. ChargeOf(c)'
  <2>1. ASSUME NEW k \in 1 .. MaxRequests, k > handled[c] PROVE usage'[<<c, k>>] = 0
    <3>1. <<c, k>> \in Requests \ {r0} /\ usage[<<c, k>>] = 0
      BY <1>1, <1>3, <2>1 DEF ChargeOf, Requests
    <3> QED
      BY <1>5, <3>1
  <2>2. /\ at'[c] \notin {"check", "upstream", "reply", "log"}
        /\ at'[c] \in Tracer /\ body'[c] = "usage" => usage'[Request(c)'] = 1
    BY <1>2, <1>3, <1>5
  <2> QED
    BY <1>2, <2>1, <2>2 DEF ChargeOf
<1>9. StreamOf(c)'
  <2>1. /\ handled[c] \in Nat /\ Len(stream[c]) \in Nat
    BY <1>1, ElementFacts DEF TypeOK
  <2>2. (Void(c)' <=> Void(c)) /\ (at'[c] = "count" => ~Void(c))
    BY <1>2 DEF Void, Threaded, Tracing
  <2>3. \A i : Doubled(c, i)' <=> Doubled(c, i)
    BY <1>2 DEF Doubled
  <2> QED
    BY <1>1, <1>2, <2>1, <2>2, <2>3 DEF StreamOf, Answering, Tracer
<1> QED
  BY <1>7, <1>8, <1>9

(* A turn with tokens is traced after they were logged; if the trace fails *)
(* the request has been answered already.                                  *)
LEMMA TraceGInv ==
  ASSUME GInv, NEW c \in Conns, WriteTurn(c) PROVE AccountIsSound' /\ ChargeOf(c)' /\ StreamOf(c)'
<1> USE DEF client, Goto
<1> DEFINE e == [turn |-> turn, of |-> Request(c), usage |-> body[c] = "usage"]
           S == [turn : Nat, of : Requests, usage : BOOLEAN]
<1>1. TypeOK /\ ChargeOf(c) /\ StreamOf(c) /\ AccountIsSound /\ Tracing
  BY DEF GInv, ServerInv, WriteTurn, Tracer
<1>2. /\ UNCHANGED <<deployment, sent, got, open, stream, usage, charged, body, handled>>
      /\ at[c] = "write" /\ at'[c] \in {"ready", "error"}
      /\ UNCHANGED trace \/ trace' = Append(trace, e)
  BY <1>1 DEF WriteTurn, TypeOK
<1>3. e.usage => usage[e.of] = 1
  BY <1>1, <1>2 DEF ChargeOf, Tracer
<1>4. trace \in Seq(S) /\ e \in S
  BY <1>1, <1>2, HandledIsRequest DEF TypeOK
<1>5. \A r : Answered(r)' <=> Answered(r)
  BY <1>2 DEF Answered
<1> HIDE DEF e, S
<1>6. \A i \in 1 .. Len(trace') : trace'[i] = e \/ (i \in 1 .. Len(trace) /\ trace'[i] = trace[i])
  <2>1. CASE UNCHANGED trace
    BY <2>1
  <2>2. CASE trace' = Append(trace, e)
    BY <1>4, <2>2, AppendFacts
  <2> QED
    BY <1>2, <2>1, <2>2
<1>7. AccountIsSound'
  BY <1>1, <1>2, <1>3, <1>5, <1>6 DEF AccountIsSound, Threaded
<1>8. ChargeOf(c)'
  BY <1>1, <1>2 DEF ChargeOf, Tracer
<1>9. StreamOf(c)'
  <2>1. /\ handled[c] \in Nat /\ Len(stream[c]) \in Nat
    BY <1>1, ElementFacts DEF TypeOK
  <2>2. Tracing' /\ ~Void(c)
    BY <1>1, <1>2 DEF Tracing, Void, Threaded
  <2>3. \A i : Doubled(c, i)' <=> Doubled(c, i)
    BY <1>2 DEF Doubled
  <2> QED
    BY <1>1, <1>2, <2>1, <2>2, <2>3 DEF StreamOf, Answering, Tracer
<1> QED
  BY <1>7, <1>8, <1>9

(* A 502 is the answer to the request, or one too many that is the last.   *)
LEMMA ErrorGInv ==
  ASSUME GInv, NEW c \in Conns, Error(c) PROVE AccountIsSound' /\ ChargeOf(c)' /\ StreamOf(c)'
<1> USE DEF client, Goto
<1>1. TypeOK /\ ChargeOf(c) /\ StreamOf(c) /\ AccountIsSound
  BY DEF GInv
<1>2. /\ UNCHANGED <<deployment, sent, got, open, trace, usage, charged, body, handled>>
      /\ at[c] = "error" /\ at'[c] = "closed"
      /\ UNCHANGED stream \/ Send(c, 502)
  BY <1>1 DEF Error, TypeOK
<1> DEFINE n == Len(stream[c])
<1>3. /\ handled[c] \in 1 .. MaxRequests /\ n \in Nat /\ sent[c] \in Nat /\ got[c] \in Nat
      /\ got[c] <= sent[c] /\ sent[c] <= got[c] + 1 /\ got[c] <= n /\ handled[c] <= sent[c]
      /\ \A i \in 1 .. n : stream[c][i].to = i
      /\ \/ n + 1 = handled[c]
         \/ n = handled[c] /\ Tracing /\ stream[c][n] = [to |-> n, status |-> 200]
  BY <1>1, <1>2, HandledIsRequest, GatewayAssumption DEF TypeOK, StreamOf
<1>4. Send(c, 502) => Sent(c, 502)
  BY <1>1, <1>3, GatewayAssumption, SendFacts
<1>5. AccountIsSound'
  BY <1>1, <1>2, <1>3, AccountStays, AccountAfterSend, GatewayAssumption
<1>6. ChargeOf(c)'
  BY <1>1, <1>2 DEF ChargeOf, Tracer
<1>7. StreamOf(c)'
  <2>1. CASE UNCHANGED stream
    BY <1>2, <1>3, <2>1 DEF StreamOf, Answering, Tracer
  <2>2. CASE Send(c, 502)
    <3>1. /\ Len(stream'[c]) = n + 1
          /\ \A i \in 1 .. n : stream'[c][i] = stream[c][i]
          /\ stream'[c][n + 1] = [to |-> handled[c], status |-> 502]
      BY <1>4, <2>2 DEF Sent
    <3>4. ASSUME NEW i \in 1 .. Len(stream'[c])
          PROVE  stream'[c][i].to = i \/ (i = Len(stream'[c]) /\ Tracing' /\ Doubled(c, i)')
      <4>1. CASE i \in 1 .. n
        <5>1. stream'[c][i] = stream[c][i] /\ stream[c][i].to = i
          BY <1>3, <3>1, <4>1
        <5>2. stream'[c][i].to = i
          BY <5>1, Zenon
        <5> QED
          BY <5>2, Zenon
      <4>2. CASE i = n + 1 /\ n + 1 = handled[c]
        BY <3>1, <4>2
      <4>3. CASE i = n + 1 /\ n = handled[c] /\ Tracing /\ stream[c][n] = [to |-> n, status |-> 200]
        <5>1. n \in 1 .. n /\ n \in 1 .. i - 1 /\ stream'[c][i].to = n
          BY <1>3, <3>1, <4>3
        <5>2. stream'[c][n] = [to |-> stream'[c][i].to, status |-> 200]
          <6>1. stream'[c][n] = stream[c][n]
            BY <3>1, <5>1
          <6>2. stream[c][n] = [to |-> n, status |-> 200]
            BY <4>3
          <6> HIDE DEF n
          <6> QED
            BY <5>1, <6>1, <6>2
        <5>3. Tracing'
          BY <1>2, <4>3 DEF Tracing
        <5> QED
          BY <3>1, <4>3, <5>1, <5>2, <5>3 DEF Doubled
      <4>4. i \in 1 .. n \/ i = n + 1
        BY <1>3, <3>1
      <4> QED
        BY <1>3, <4>1, <4>2, <4>3, <4>4
    <3> QED
      BY <1>2, <1>3, <3>1, <3>4 DEF StreamOf, Answering, Tracer
  <2> QED
    BY <1>2, <2>1, <2>2
<1> QED
  BY <1>5, <1>6, <1>7

(* The inductive invariant always holds.                                   *)
THEOREM GatewayInvariant == Spec => []GInv
<1>1. ASSUME GInv, NEW c \in Conns, Handler(c) PROVE GInv'
  <2>1. TypeOK' /\ ServerInv' /\ TurnInv'
    BY <1>1, HandlerTypeOK, HandlerServerInv, HandlerTurnInv
  <2>2. AccountIsSound' /\ ChargeOf(c)' /\ StreamOf(c)'
    BY <1>1, QuietHandler, CheckGInv, UpstreamGInv, ReplyGInv, LogGInv, TraceGInv, ErrorGInv DEF Handler
  <2>3. \A d \in Conns \ {c} : ChargeOf(d)' /\ StreamOf(d)'
    BY <1>1, HandlerOtherConns
  <2> QED
    BY <2>1, <2>2, <2>3 DEF GInv
<1>2. ASSUME GInv, UNCHANGED vars PROVE GInv'
  <2> USE <1>2 DEF vars, client, handler
  <2>1. TypeOK'
    BY DEF GInv, TypeOK
  <2>2. ServerInv' /\ TurnInv' /\ AccountIsSound'
    BY DEF GInv, ServerInv, Busy, Threaded, Tracing, TurnInv, TurnsAreNumbered, AccountIsSound, Answered
  <2>3. ASSUME NEW d \in Conns PROVE ChargeOf(d)' /\ StreamOf(d)'
    <3>1. ChargeOf(d) /\ StreamOf(d)
      BY <2>3 DEF GInv
    <3>2. Void(d)' = Void(d)
      BY DEF Void, Threaded
    <3>3. ChargeOf(d)'
      BY <3>1, <3>2 DEF ChargeOf, Request, Answered
    <3>4. ASSUME NEW i PROVE (Tracing /\ Doubled(d, i))' = (Tracing /\ Doubled(d, i))
      BY DEF Doubled, Tracing
    <3>5. stream' = stream /\ at' = at /\ got' = got /\ sent' = sent /\ handled' = handled
          /\ Tracing' = Tracing
      BY DEF Tracing
    <3> HIDE <1>2
    <3>6. StreamOf(d)'
      BY <3>1, <3>2, <3>4, <3>5 DEF StreamOf
    <3> QED
      BY <3>3, <3>6
  <2> QED
    BY <2>1, <2>2, <2>3 DEF GInv
<1>3. GInv /\ [Next]_vars => GInv'
  BY <1>1, <1>2, ClientGInv DEF Next
<1> QED
  BY <1>3, InitGInv, PTL DEF Spec

(* Two turns of the trace never share a number.                            *)
THEOREM TurnsSafe == Spec => []TurnsAreNumbered
<1>1. GInv => TurnsAreNumbered
  BY DEF GInv, TurnInv
<1> QED
  BY <1>1, GatewayInvariant, PTL

(* The log and the trace agree, and speak of answers that were given.      *)
THEOREM AccountSafe == Spec => []AccountIsSound
<1>1. GInv => AccountIsSound
  BY DEF GInv
<1> QED
  BY <1>1, GatewayInvariant, PTL

(* Clients read their own answers, but for the one case.                   *)
THEOREM AnswersSafe == Spec => []AnswersAreOwn
<1>1. GInv => AnswersAreOwn
  <2> SUFFICES ASSUME GInv, NEW c \in Conns, NEW i \in 1 .. got[c]
               PROVE  \/ stream[c][i].to = i
                      \/ Tracing /\ at[c] = "closed" /\ i = Len(stream[c]) /\ Doubled(c, i)
    BY DEF AnswersAreOwn
  <2>1. StreamOf(c) /\ got[c] \in Nat /\ Len(stream[c]) \in Nat
    BY ElementFacts DEF GInv, TypeOK
  <2>2. i \in 1 .. Len(stream[c])
    BY <2>1 DEF StreamOf
  <2> QED
    BY <2>1, <2>2 DEF StreamOf
<1> QED
  BY <1>1, GatewayInvariant, PTL
=============================================================================
