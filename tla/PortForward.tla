------------------------------ MODULE PortForward ------------------------------
(***************************************************************************)
(* One connection of src/src/common/portfwd.py, which carries aider's      *)
(* requests from a port inside the sandbox to the model gateway's socket   *)
(* outside.  Two threads splice it, one for each direction; either end may *)
(* send, end its stream or leave at any time, and whichever thread stops   *)
(* first shuts both sockets under the other.  Bytes are counted, in units  *)
(* of an unspecified size; the sockets are the kernel's.                   *)
(***************************************************************************)
EXTENDS Naturals

CONSTANTS
  Room,           \* what a socket buffers in one direction
  MaxSent         \* bound: what one end sends

ASSUME PortAssumption == Room \in Nat \ {0} /\ MaxSent \in Nat

Ends == {"client", "gateway"}
Other == [e \in Ends |-> IF e = "client" THEN "gateway" ELSE "client"]

VARIABLES
  phase,          \* handle: connect, splice, or the sockets are kept or over
  listener,       \* the gateway's socket has room, its backlog is full, or it refuses
  thread,         \* the thread that reads from an end: where it is
  held,           \* what it has read and not yet written
  in,             \* what the end has sent and the forwarder not yet read
  out,            \* what the forwarder has written and the end not yet read
  shut,           \* has the forwarder shut its socket of that end?
  state,          \* the end: open, half (it ended its stream) or closed
  sent, got,      \* how much the end has sent and received
  told            \* has the end seen the end of its stream?

forwarder == <<phase, listener, thread, held, shut>>
ends == <<state, sent, got, told>>
vars == <<forwarder, in, out, ends>>

Stopped == {"first", "second", "done"}
Zero == [e \in Ends |-> 0]

TypeOK ==
  /\ phase \in {"connect", "splice", "kept", "over"}
  /\ listener \in {"room", "full", "gone"}
  /\ thread \in [Ends -> {"idle", "recv", "send"} \union Stopped]
  /\ held \in [Ends -> Nat] /\ in \in [Ends -> Nat] /\ out \in [Ends -> Nat]
  /\ shut \in [Ends -> BOOLEAN]
  /\ state \in [Ends -> {"open", "half", "closed"}]
  /\ sent \in [Ends -> Nat] /\ got \in [Ends -> Nat]
  /\ told \in [Ends -> BOOLEAN]

Init ==
  /\ phase = "connect" /\ listener \in {"room", "full", "gone"}
  /\ thread = [e \in Ends |-> "idle"]
  /\ held = Zero /\ in = Zero /\ out = Zero
  /\ shut = [e \in Ends |-> FALSE]
  /\ state = [e \in Ends |-> "open"]
  /\ sent = Zero /\ got = Zero
  /\ told = [e \in Ends |-> FALSE]
-----------------------------------------------------------------------------
(* handle: connect_upstream and the start of the two threads.  While the   *)
(* backlog of the gateway is full, connect blocks, for as long as it is.   *)

Connect ==
  /\ phase = "connect" /\ listener = "room"
  /\ phase' = "splice"
  /\ thread' = [e \in Ends |-> "recv"]
  /\ UNCHANGED <<listener, held, shut, in, out, ends>>

(* There is no gateway, or it refuses, or a vsock has timed out: the       *)
(* client's socket is closed with what it sent unread.                     *)
ConnectFails ==
  /\ phase = "connect" /\ listener = "gone"
  /\ phase' = "over"
  /\ state' = [state EXCEPT !["gateway"] = "closed"]
  /\ shut' = [e \in Ends |-> TRUE]
  /\ in' = Zero
  /\ UNCHANGED <<listener, thread, held, out, sent, got, told>>

(* Others connect, the gateway accepts, ends or is started again.          *)
ListenerChanges ==
  /\ phase = "connect"
  /\ listener' \in {"room", "full", "gone"} \ {listener}
  /\ UNCHANGED <<phase, thread, held, shut, in, out, ends>>
-----------------------------------------------------------------------------
(* splice(a, b), where a is the socket of e and b that of the other.       *)

Turn(e, to) == thread' = [thread EXCEPT ![e] = to] /\ UNCHANGED <<phase, listener>>

\* a.recv returns some of what there is ...
Recv(e) ==
  /\ thread[e] = "recv"
  /\ \E n \in 1 .. in[e] :
       /\ in' = [in EXCEPT ![e] = @ - n]
       /\ held' = [held EXCEPT ![e] = n]
  /\ Turn(e, "send")
  /\ UNCHANGED <<shut, out, ends>>

\* Mutant: the thread looks for the hang-up before it looks for data.
RecvEndFirst(e) ==
  /\ thread[e] = "recv"
  /\ state[e] # "open" \/ shut[e]
  /\ Turn(e, "first")
  /\ UNCHANGED <<held, shut, in, out, ends>>

\* Mutant: the end of one direction ends the thread without any shutdown.
RecvEndOnly(e) ==
  /\ thread[e] = "recv"
  /\ (in[e] = 0 /\ state[e] # "open") \/ shut[e]
  /\ Turn(e, "done")
  /\ UNCHANGED <<held, shut, in, out, ends>>

(* ... or nothing at the end of the stream; on a socket that was shut, it  *)
(* depends on its kind whether what has arrived is still read.             *)
RecvEnd(e) ==
  /\ thread[e] = "recv"
  /\ (in[e] = 0 /\ state[e] # "open") \/ shut[e]
  /\ Turn(e, "first")
  /\ UNCHANGED <<held, shut, in, out, ends>>

\* Mutant: send in the place of sendall, the rest is forgotten.
SendSome(e) ==
  /\ thread[e] = "send"
  /\ ~shut[Other[e]] /\ state[Other[e]] # "closed"
  /\ out[Other[e]] < Room
  /\ out' = [out EXCEPT ![Other[e]] = @ + 1]
  /\ held' = [held EXCEPT ![e] = 0]
  /\ Turn(e, "recv")
  /\ UNCHANGED <<shut, in, ends>>

\* Mutant: a write that was cut short begins again with all of it.
SendAgain(e) ==
  /\ thread[e] = "send"
  /\ ~shut[Other[e]] /\ state[Other[e]] # "closed"
  /\ out[Other[e]] < Room
  /\ out' = [out EXCEPT ![Other[e]] = @ + 1]
  /\ \E left \in {held[e] - 1, held[e]} :
       /\ held' = [held EXCEPT ![e] = left]
       /\ Turn(e, IF left = 0 THEN "recv" ELSE "send")
  /\ UNCHANGED <<shut, in, ends>>

(* b.sendall writes as there is room, and waits where there is none.       *)
SendAll(e) ==
  /\ thread[e] = "send"
  /\ ~shut[Other[e]] /\ state[Other[e]] # "closed"
  /\ out[Other[e]] < Room
  /\ out' = [out EXCEPT ![Other[e]] = @ + 1]
  /\ held' = [held EXCEPT ![e] = @ - 1]
  /\ Turn(e, IF held[e] = 1 THEN "recv" ELSE "send")
  /\ UNCHANGED <<shut, in, ends>>

(* It raises on a socket that was shut or whose end is gone ...            *)
SendFails(e) ==
  /\ thread[e] = "send"
  /\ shut[Other[e]] \/ state[Other[e]] = "closed"
  /\ held' = [held EXCEPT ![e] = 0]
  /\ Turn(e, "first")
  /\ UNCHANGED <<shut, in, out, ends>>

(* ... or, before the reset has come back, writes into the void.           *)
SendToNobody(e) ==
  /\ thread[e] = "send"
  /\ ~shut[Other[e]] /\ state[Other[e]] = "closed"
  /\ held' = [held EXCEPT ![e] = 0]
  /\ Turn(e, "recv")
  /\ UNCHANGED <<shut, in, out, ends>>

(* The finally clause shuts a, then b. *)
Shutdown(e) ==
  /\ \/ thread[e] = "first" /\ shut' = [shut EXCEPT ![e] = TRUE] /\ Turn(e, "second")
     \/ thread[e] = "second" /\ shut' = [shut EXCEPT ![Other[e]] = TRUE] /\ Turn(e, "done")
  /\ UNCHANGED <<held, in, out, ends>>

Thread(e) ==
  Recv(e) \/ RecvEnd(e) \/ SendAll(e) \/ SendFails(e) \/ SendToNobody(e) \/ Shutdown(e)

\* What may be left of what is on its way to an end whose connection is reset.
Reset(e) == 0 .. out[e]

\* A socket that is closed with something unread resets its connection.
CloseSocket(e) ==
  /\ \E left \in (IF in[e] > 0 THEN Reset(e) ELSE {out[e]}) : out' = [out EXCEPT ![e] = left]
  /\ in' = [in EXCEPT ![e] = 0]

(* The last thread drops the sockets.  That of the client stays open, as   *)
(* main still has it in its variable ...                                   *)
Release ==
  /\ phase = "splice"
  /\ \A e \in Ends : thread[e] = "done"
  /\ phase' = "kept"
  /\ CloseSocket("gateway")
  /\ UNCHANGED <<listener, thread, held, shut, ends>>

(* ... until it has accepted another client.                               *)
DropClient ==
  /\ phase = "kept"
  /\ phase' = "over"
  /\ CloseSocket("client")
  /\ UNCHANGED <<listener, thread, held, shut, ends>>
-----------------------------------------------------------------------------
(* The ends.  The gateway has none before the forwarder connects.          *)

Present(e) == e = "client" \/ phase # "connect"

Send(e) ==
  /\ Present(e) /\ state[e] = "open" /\ ~shut[e]
  /\ sent[e] < MaxSent /\ in[e] < Room
  /\ sent' = [sent EXCEPT ![e] = @ + 1]
  /\ in' = [in EXCEPT ![e] = @ + 1]
  /\ UNCHANGED <<forwarder, out, state, got, told>>

(* What is sent to a socket that was shut is answered with a reset.        *)
SendTooLate(e) ==
  /\ Present(e) /\ state[e] = "open" /\ shut[e]
  /\ sent[e] < MaxSent
  /\ sent' = [sent EXCEPT ![e] = @ + 1]
  /\ \E left \in Reset(e) : out' = [out EXCEPT ![e] = left]
  /\ UNCHANGED <<forwarder, in, state, got, told>>

Receive(e) ==
  /\ state[e] # "closed" /\ ~told[e]
  /\ IF out[e] > 0
     THEN /\ out' = [out EXCEPT ![e] = @ - 1]
          /\ got' = [got EXCEPT ![e] = @ + 1]
          /\ UNCHANGED told
     ELSE /\ shut[e]
          /\ told' = [told EXCEPT ![e] = TRUE]
          /\ UNCHANGED <<out, got>>
  /\ UNCHANGED <<forwarder, in, state, sent>>

EndStream(e) ==
  /\ Present(e) /\ state[e] = "open"
  /\ state' = [state EXCEPT ![e] = "half"]
  /\ UNCHANGED <<forwarder, in, out, sent, got, told>>

(* An end that leaves with something unread resets its connection, too.    *)
Close(e) ==
  /\ Present(e) /\ state[e] # "closed"
  /\ state' = [state EXCEPT ![e] = "closed"]
  /\ out' = [out EXCEPT ![e] = 0]
  /\ \E left \in 0 .. in[e] :
       /\ out[e] = 0 => left = in[e]
       /\ in' = [in EXCEPT ![e] = left]
  /\ UNCHANGED <<forwarder, sent, got, told>>

Next ==
  \/ Connect \/ ConnectFails \/ ListenerChanges \/ Release \/ DropClient
  \/ \E e \in Ends : Thread(e) \/ Send(e) \/ SendTooLate(e) \/ Receive(e) \/ EndStream(e) \/ Close(e)

(* The threads run, and an end reads what has arrived for it or leaves: the *)
(* gateway reads its requests to the end, aider its answers.  Nothing is   *)
(* assumed of the gateway's backlog, or of another client for main.        *)
Spec ==
  /\ Init /\ [][Next]_vars
  /\ WF_vars(Connect \/ ConnectFails) /\ WF_vars(Release)
  /\ \A e \in Ends : WF_vars(Thread(e)) /\ WF_vars(Receive(e))
-----------------------------------------------------------------------------
(* Properties. *)

(* An end that sees the end of its stream with something missing that the  *)
(* other had sent had ended its own stream before (line 26 then shuts both *)
(* directions), or the other left without reading all that it was sent: an *)
(* answer is never lost to a client that waits for it, from a gateway that *)
(* has read the request.                                                   *)
LossIsExplained ==
  \A e \in Ends : told[e] /\ got[e] < sent[Other[e]] =>
    \/ state[e] # "open"
    \/ state[Other[e]] # "open" /\ got[Other[e]] < sent[e]

(* The forwarder keeps the promise of ByteChannel.                         *)
Channel == INSTANCE ByteChannel WITH ended <- [e \in Ends |-> state[e] # "open"], over <- told

KeepsChannel == Channel!Spec

(* Whatever ends, or fails to connect, neither a thread nor the gateway's  *)
(* socket nor the other end is left waiting; unless it is for a gateway    *)
(* whose backlog is full again and again, which nothing limits (line 42).  *)
EndsAreSeen ==
  <>[](listener # "full") =>
    \A e \in Ends :
      state[e] # "open" ~>
        phase \in {"kept", "over"} /\ (told[Other[e]] \/ state[Other[e]] = "closed")
-----------------------------------------------------------------------------
(* The inductive invariant, in parts. *)

\* What has been read by an end, and what may still reach it.
Transit(e) == IF state[Other[e]] = "closed" THEN 0 ELSE out[Other[e]] + held[e] + in[e]
Lost(e) == got[Other[e]] + Transit(e) < sent[e]

(* Nothing is invented or duplicated on the way.                           *)
CountInv == \A e \in Ends :
  /\ got[Other[e]] + out[Other[e]] + held[e] + in[e] <= sent[e]
  /\ out[e] <= Room
  /\ state[e] = "closed" => out[e] = 0

(* Where the threads are says what they hold and what they have shut.      *)
ThreadInv ==
  /\ \A e \in Ends :
       /\ thread[e] = "send" <=> held[e] > 0
       /\ thread[e] = "idle" <=> phase = "connect" \/ \E x \in Ends : thread[x] = "idle"
       /\ thread[e] = "second" => shut[e]
       /\ thread[e] = "done" => \A x \in Ends : shut[x]
       /\ shut[e] => phase = "over" \/ thread[e] \in {"second", "done"} \/ thread[Other[e]] = "done"
       /\ told[e] => shut[e] /\ out[e] = 0
  /\ phase = "connect" =>
       state["gateway"] = "open" /\ sent["gateway"] = 0 /\ \A e \in Ends : out[e] = 0
  /\ phase = "kept" => in["gateway"] = 0 /\ \A e \in Ends : thread[e] = "done"
  /\ phase = "over" =>
       \A e \in Ends : shut[e] /\ in[e] = 0 /\ thread[e] \in {"idle", "done"}
  /\ phase = "over" /\ thread["client"] = "idle" =>
       state["gateway"] = "closed" /\ sent["gateway"] = 0

(* A thread that stopped of itself met the end of its stream, with nothing *)
(* left to read, or an end that left without what was sent to it.          *)
Own(e) ==
  \/ state[e] # "open" /\ in[e] = 0
  \/ state[Other[e]] = "closed" /\ Lost(e)

(* One of the threads that stopped did so of itself.                       *)
StopInv ==
  (\E e \in Ends : thread[e] \in Stopped) => \E e \in Ends : thread[e] \in Stopped /\ Own(e)

(* What can no longer arrive is explained as in ByteChannel.               *)
LossInv ==
  \A e \in Ends : Lost(e) => state[Other[e]] # "open" \/ (state[e] # "open" /\ Lost(Other[e]))

(* The inductive invariant of PortForward.                                 *)
PInv == TypeOK /\ CountInv /\ ThreadInv /\ StopInv /\ LossInv
=============================================================================
