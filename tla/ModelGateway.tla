----------------------------- MODULE ModelGateway -----------------------------
(***************************************************************************)
(* common/model_gateway.py: clients send requests on keep-alive            *)
(* connections, the gateway forwards those on its allow list, answers, and *)
(* then accounts for the answer in its log and trace.  On its Unix socket  *)
(* the gateway is single-threaded and stays with a connection until that   *)
(* is closed; on TCP each connection has a thread.                         *)
(***************************************************************************)
EXTENDS Integers, Sequences, FiniteSets

CONSTANTS
  Conns,          \* the connections
  Deployments,    \* how the gateway may have been started
  MaxRequests     \* bound: requests on one connection

ASSUME GatewayAssumption ==
  /\ IsFiniteSet(Conns)
  /\ Deployments \subseteq {"demo", "service"}
  /\ MaxRequests \in Nat

Requests == Conns \X (1 .. MaxRequests)
Paths == {"chat", "models", "other"}
ALLOW == {"chat", "models"}
Bodies == {"usage", "object", "other"}
Responses == [to : 1 .. MaxRequests, status : {200, 403, 502}]

VARIABLES
  deployment,     \* by run.sh for one run, or as a service of a cluster
  sent, path,     \* per connection: the requests sent, the path of the last
  got,            \* the responses the client has read
  open,           \* the client has not closed the connection
  stream,         \* the responses written to it for a client that was there
  at,             \* where its handler is
  handled,        \* the requests its handler has read
  body,           \* what the upstream sent for the present one
  old,            \* the value of _turn[0] it read
  turn,           \* _turn[0]
  charged,        \* history: the requests the upstream has answered
  usage,          \* how many lines of the log have the tokens of a request
  trace           \* the trace file

(* run.sh sets GATEWAY_SOCK and GATEWAY_TRACE, the service neither: it is  *)
(* a ThreadingTCPServer.                                                   *)
Threaded == deployment = "service"
Tracing == deployment = "demo"

client == <<deployment, sent, path, got, open>>
handler == <<at, handled, body, old>>
vars == <<client, stream, handler, turn, charged, usage, trace>>

Steps == {"queued", "ready", "check", "upstream", "reply", "log", "count", "store", "write",
          "error", "closed"}

TypeOK ==
  /\ deployment \in Deployments
  /\ sent \in [Conns -> 0 .. MaxRequests] /\ path \in [Conns -> Paths]
  /\ got \in [Conns -> Nat] /\ open \in [Conns -> BOOLEAN]
  /\ stream \in [Conns -> Seq(Responses)]
  /\ at \in [Conns -> Steps] /\ handled \in [Conns -> 0 .. MaxRequests]
  /\ body \in [Conns -> Bodies \union {"none"}]
  /\ old \in [Conns -> Nat] /\ turn \in Nat
  /\ charged \subseteq Requests /\ usage \in [Requests -> Nat]
  /\ trace \in Seq([turn : Nat, of : Requests, usage : BOOLEAN])

Init ==
  /\ deployment \in Deployments
  /\ sent = [c \in Conns |-> 0] /\ path = [c \in Conns |-> "chat"]
  /\ got = [c \in Conns |-> 0] /\ open = [c \in Conns |-> TRUE]
  /\ stream = [c \in Conns |-> <<>>]
  /\ at = [c \in Conns |-> "queued"] /\ handled = [c \in Conns |-> 0]
  /\ body = [c \in Conns |-> "none"] /\ old = [c \in Conns |-> 0]
  /\ turn = 0 /\ charged = {} /\ usage = [r \in Requests |-> 0] /\ trace = <<>>

Goto(c, step) == at' = [at EXCEPT ![c] = step]
Request(c) == <<c, handled[c]>>
Send(c, status) ==
  stream' = [stream EXCEPT ![c] = Append(@, [to |-> handled[c], status |-> status])]
-----------------------------------------------------------------------------
(* The clients: one request at a time on a connection. *)

Ask(c) ==
  /\ open[c] /\ at[c] # "closed"
  /\ sent[c] = got[c] /\ sent[c] < MaxRequests
  /\ sent' = [sent EXCEPT ![c] = @ + 1]
  /\ \E p \in Paths : path' = [path EXCEPT ![c] = p]
  /\ UNCHANGED <<deployment, got, open, stream, handler, turn, charged, usage, trace>>

(* What the client takes for the answer to its last request. *)
ReadAnswer(c) ==
  /\ open[c]
  /\ got[c] < sent[c] /\ got[c] < Len(stream[c])
  /\ got' = [got EXCEPT ![c] = @ + 1]
  /\ UNCHANGED <<deployment, sent, path, open, stream, handler, turn, charged, usage, trace>>

(* A client closes its idle connection, or gives up on a request.          *)
Leave(c) ==
  /\ open[c] /\ got[c] = sent[c]
  /\ open' = [open EXCEPT ![c] = FALSE]
  /\ UNCHANGED <<deployment, sent, path, got, stream, handler, turn, charged, usage, trace>>

GiveUp(c) ==
  /\ open[c] /\ got[c] < sent[c]
  /\ open' = [open EXCEPT ![c] = FALSE]
  /\ UNCHANGED <<deployment, sent, path, got, stream, handler, turn, charged, usage, trace>>

Client(c) == Ask(c) \/ ReadAnswer(c) \/ Leave(c) \/ GiveUp(c)
-----------------------------------------------------------------------------
(* The gateway. *)

Busy == {c \in Conns : at[c] \notin {"queued", "closed"}}

\* Mutant: every connection is served at once, as if by ThreadingMixIn.
AcceptAny(c) ==
  /\ at[c] = "queued"
  /\ Goto(c, "ready")
  /\ UNCHANGED <<client, stream, handled, body, old, turn, charged, usage, trace>>

(* serve_forever: UnixServer handles a connection to its end. *)
AcceptConn(c) ==
  /\ at[c] = "queued"
  /\ ~Threaded => Busy = {}
  /\ Goto(c, "ready")
  /\ UNCHANGED <<client, stream, handled, body, old, turn, charged, usage, trace>>

\* Mutant: the end of a kept-alive connection is not noticed.
ReadRequestOnly(c) ==
  /\ at[c] = "ready" /\ handled[c] < sent[c]
  /\ handled' = [handled EXCEPT ![c] = @ + 1]
  /\ Goto(c, "check")
  /\ UNCHANGED <<client, stream, body, old, turn, charged, usage, trace>>

(* The next request line, or the end of the connection. *)
ReadRequest(c) ==
  /\ at[c] = "ready"
  /\ \/ /\ handled[c] < sent[c]
        /\ handled' = [handled EXCEPT ![c] = @ + 1]
        /\ Goto(c, "check")
     \/ ~open[c] /\ Goto(c, "closed") /\ UNCHANGED handled
  /\ UNCHANGED <<client, stream, body, old, turn, charged, usage, trace>>

(* A path that is not allowed is answered with 403, which closes.          *)
Check(c) ==
  /\ at[c] = "check"
  /\ IF path[c] \in ALLOW
     THEN Goto(c, "upstream") /\ UNCHANGED stream
     ELSE Goto(c, "closed") /\ (IF open[c] THEN Send(c, 403) ELSE UNCHANGED stream)
  /\ UNCHANGED <<client, handled, body, old, turn, charged, usage, trace>>

(* urlopen: a body with or without a usage, or one that is no JSON object, *)
(* or an HTTP error, or no answer in 120 seconds.                          *)
Upstream(c) ==
  /\ at[c] = "upstream"
  /\ \/ /\ body' \in {[body EXCEPT ![c] = b] : b \in Bodies}
        /\ charged' = charged \union {Request(c)}
        /\ Goto(c, "reply")
     \/ Goto(c, "error") /\ UNCHANGED <<body, charged>>
  /\ UNCHANGED <<client, stream, handled, old, turn, usage, trace>>

\* Mutant: the account of an answer does not depend on sending it.
ReplyIfOpen(c) ==
  /\ at[c] = "reply"
  /\ Goto(c, "log")
  /\ IF open[c] THEN Send(c, 200) ELSE UNCHANGED stream
  /\ UNCHANGED <<client, handled, body, old, turn, charged, usage, trace>>

(* The answer is written first.  With the client gone that is an error on *)
(* the Unix socket; on TCP it may also be written to nobody, as long as    *)
(* the reset has not come back, and counts as sent.                        *)
Reply(c) ==
  /\ at[c] = "reply"
  /\ \/ open[c] /\ Send(c, 200) /\ Goto(c, "log")
     \/ ~open[c] /\ Goto(c, "error") /\ UNCHANGED stream
     \/ ~open[c] /\ Threaded /\ Goto(c, "log") /\ UNCHANGED stream
  /\ UNCHANGED <<client, handled, body, old, turn, charged, usage, trace>>

\* Mutant: the tokens are logged by the tracing as well.
LogUsageTwice(c) ==
  /\ at[c] = "log"
  /\ usage' = [usage EXCEPT ![Request(c)] =
                 IF body[c] # "usage" THEN @ ELSE IF Tracing THEN @ + 2 ELSE @ + 1]
  /\ Goto(c, IF Tracing /\ path[c] = "chat" THEN "count" ELSE "ready")
  /\ UNCHANGED <<client, stream, handled, body, old, turn, charged, trace>>

(* The log lines; a body that has no usage is passed over, and only a chat *)
(* request is traced.                                                      *)
LogUsage(c) ==
  /\ at[c] = "log"
  /\ usage' = [usage EXCEPT ![Request(c)] = IF body[c] = "usage" THEN @ + 1 ELSE @]
  /\ Goto(c, IF Tracing /\ path[c] = "chat" THEN "count" ELSE "ready")
  /\ UNCHANGED <<client, stream, handled, body, old, turn, charged, trace>>

(* _turn[0] += 1 reads, then writes.                                       *)
Count(c) ==
  /\ at[c] = "count"
  /\ old' = [old EXCEPT ![c] = turn]
  /\ Goto(c, "store")
  /\ UNCHANGED <<client, stream, handled, body, turn, charged, usage, trace>>

Store(c) ==
  /\ at[c] = "store"
  /\ turn' = old[c] + 1
  /\ Goto(c, "write")
  /\ UNCHANGED <<client, stream, handled, body, old, charged, usage, trace>>

(* The record takes _turn[0] as it is now; a body that is no object has no *)
(* .get, and the error is one of the whole request.                        *)
WriteTurn(c) ==
  /\ at[c] = "write"
  /\ IF body[c] # "other"
     THEN /\ trace' = Append(trace, [turn |-> turn, of |-> Request(c), usage |-> body[c] = "usage"])
          /\ Goto(c, "ready")
     ELSE Goto(c, "error") /\ UNCHANGED trace
  /\ UNCHANGED <<client, stream, handled, body, old, turn, charged, usage>>

\* Mutant: the error is answered on a connection that stays open.
ErrorKeepsAlive(c) ==
  /\ at[c] = "error"
  /\ IF open[c] THEN Send(c, 502) ELSE UNCHANGED stream
  /\ Goto(c, "ready")
  /\ UNCHANGED <<client, handled, body, old, turn, charged, usage, trace>>

(* except Exception: 502, also after an answer, and the connection closes. *)
Error(c) ==
  /\ at[c] = "error"
  /\ IF open[c] THEN Send(c, 502) ELSE UNCHANGED stream
  /\ Goto(c, "closed")
  /\ UNCHANGED <<client, handled, body, old, turn, charged, usage, trace>>

Handler(c) ==
  \/ AcceptConn(c) \/ ReadRequest(c) \/ Check(c) \/ Upstream(c) \/ Reply(c) \/ LogUsage(c)
  \/ Count(c) \/ Store(c) \/ WriteTurn(c) \/ Error(c)

Next == \E c \in Conns : Client(c) \/ Handler(c)

(* The gateway runs, an upstream answers or times out, and clients read    *)
(* what they asked for.  Only the Unix socket needs its clients to close   *)
(* the connections they no longer use: the agents of a run end.            *)
Spec ==
  /\ Init /\ [][Next]_vars
  /\ \A c \in Conns : /\ WF_vars(Handler(c)) /\ WF_vars(ReadAnswer(c))
                      /\ WF_vars(~Threaded /\ Leave(c))
-----------------------------------------------------------------------------
(* Properties. *)

(* Turn numbers grow along the trace: two turns never share one            *)
(* (trace_turn, which reads, adds and writes without a lock).              *)
TurnsAreNumbered ==
  \A i, j \in 1 .. Len(trace) : i < j => trace[i].turn < trace[j].turn

(* What footprint.py sums and trajectory.py reports agree: a traced turn   *)
(* that shows tokens has them in the log; and what is in the log is there  *)
(* once for a request, is of an answer that the upstream gave, and that    *)
(* answer went to the client, unless the client of a TCP connection has    *)
(* gone.  On the Unix socket of a run nothing is logged for nobody.        *)
Answered(r) == \E i \in 1 .. Len(stream[r[1]]) : stream[r[1]][i] = [to |-> r[2], status |-> 200]

AccountIsSound ==
  /\ \A i \in 1 .. Len(trace) : trace[i].usage => usage[trace[i].of] = 1
  /\ \A r \in Requests : usage[r] > 0 =>
       /\ usage[r] = 1 /\ r \in charged
       /\ Answered(r) \/ (Threaded /\ ~open[r[1]])

(* What a client reads is the answer to what it asked, but for one case:   *)
(* accounting for an answer failed after it was sent, the 502 that this    *)
(* makes is taken for the next answer, and the connection ends with it.    *)
Doubled(c, i) == \E j \in 1 .. i - 1 : stream[c][j] = [to |-> stream[c][i].to, status |-> 200]

AnswersAreOwn ==
  \A c \in Conns : \A i \in 1 .. got[c] :
    \/ stream[c][i].to = i
    \/ Tracing /\ at[c] = "closed" /\ i = Len(stream[c]) /\ Doubled(c, i)

(* A request is answered, or the client gave up on it or the gateway       *)
(* closed its connection: other clients do not keep it waiting for ever.   *)
EveryoneIsServed ==
  \A c \in Conns : \A k \in 1 .. MaxRequests :
    sent[c] >= k ~> (got[c] >= k \/ ~open[c] \/ at[c] = "closed")
-----------------------------------------------------------------------------
(* The inductive invariant, in parts. *)

Tracer == {"count", "store", "write"}
Answering == {"log"} \union Tracer

(* The Unix socket serves one connection at a time, and only it traces.    *)
ServerInv ==
  /\ ~Threaded => \A c, d \in Busy : c = d
  /\ \A c \in Conns : at[c] \in Tracer => Tracing

(* No turn is ahead of the counter, and a new one is ahead of them all.    *)
TurnInv ==
  /\ TurnsAreNumbered
  /\ \A i \in 1 .. Len(trace) : trace[i].turn <= turn
  /\ \A c \in Conns :
       /\ at[c] = "store" => old[c] = turn
       /\ at[c] = "write" => \A i \in 1 .. Len(trace) : trace[i].turn < turn

\* The answer to the present request was written to nobody.
Void(c) == Threaded /\ ~open[c] /\ handled[c] > 0 /\ Len(stream[c]) + 1 = handled[c]

(* Where a request is says what has been accounted for it, and what is     *)
(* still to be handled has not been.                                       *)
ChargeOf(c) ==
  /\ at[c] \in {"reply", "log"} => Request(c) \in charged
  /\ at[c] = "log" => Answered(Request(c)) \/ Void(c)
  /\ at[c] \in Tracer /\ body[c] = "usage" => usage[Request(c)] = 1
  /\ \A k \in 1 .. MaxRequests :
       k > handled[c] \/ (k = handled[c] /\ at[c] \in {"check", "upstream", "reply", "log"}) =>
         usage[<<c, k>>] = 0

(* The handler has written one response for each request that it is done   *)
(* with, in their order, but for a last one that went to nobody, and one   *)
(* too many only when it closed.                                           *)
StreamOf(c) ==
  LET n == Len(stream[c]) IN
  /\ got[c] <= sent[c] /\ sent[c] <= got[c] + 1 /\ got[c] <= n /\ handled[c] <= sent[c]
  /\ at[c] \in {"queued", "ready"} \union Answering =>
       n = handled[c] \/ (at[c] \in {"ready", "log"} /\ Void(c))
  /\ at[c] \in {"check", "upstream", "reply"} => n + 1 = handled[c]
  /\ at[c] = "error" => n + 1 = handled[c] \/ (Tracing /\ n = handled[c])
  /\ (at[c] \in Answering /\ ~Void(c)) \/ (at[c] = "error" /\ n = handled[c]) =>
       n > 0 /\ stream[c][n] = [to |-> n, status |-> 200]
  /\ \A i \in 1 .. n :
       stream[c][i].to = i \/ (at[c] = "closed" /\ i = n /\ Tracing /\ Doubled(c, i))

(* The inductive invariant of ModelGateway.                                *)
GInv ==
  /\ TypeOK /\ ServerInv /\ TurnInv /\ AccountIsSound
  /\ \A c \in Conns : ChargeOf(c) /\ StreamOf(c)
=============================================================================
