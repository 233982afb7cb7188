-------------------------- MODULE PortForward_proofs --------------------------
(***************************************************************************)
(* Proofs about PortForward, for buffers of any size and ends that send    *)
(* any amount: its inductive invariant, what it implies about losses, and  *)
(* that the forwarder implements ByteChannel.                              *)
(***************************************************************************)
EXTENDS PortForward, TLAPS

(* There are two ends, each the other of the other.                        *)
LEMMA OtherIs ==
  ASSUME NEW e \in Ends
  PROVE  /\ Other[e] \in Ends /\ Other[e] # e /\ Other[Other[e]] = e
         /\ \A x \in Ends : x = e \/ x = Other[e]
BY DEF Ends, Other

(* The invariant holds before the forwarder connects.                      *)
LEMMA InitPInv == Init => PInv
<1> SUFFICES ASSUME Init PROVE PInv
  OBVIOUS
<1> USE OtherIs, PortAssumption DEF Init, Zero
<1>1. TypeOK
  BY DEF TypeOK
<1>2. CountInv
  BY DEF CountInv
<1>3. ThreadInv
  BY DEF ThreadInv, Ends, Stopped
<1>4. StopInv
  BY DEF StopInv, Stopped
<1>5. LossInv
  BY DEF LossInv, Lost, Transit
<1> QED
  BY <1>1, <1>2, <1>3, <1>4, <1>5 DEF PInv

-----------------------------------------------------------------------------
(* The steps of a connection as a whole. *)

(* With the connection, both threads start with empty hands.               *)
LEMMA ConnectPInv == ASSUME PInv, Connect PROVE PInv'
<1> USE OtherIs, PortAssumption DEF PInv, Connect, ends, Stopped
<1>1. TypeOK'
  BY DEF TypeOK
<1>2. CountInv'
  BY DEF TypeOK, CountInv, ThreadInv
<1>3. ThreadInv'
  BY DEF TypeOK, CountInv, ThreadInv
<1>4. StopInv'
  BY DEF TypeOK, CountInv, ThreadInv, StopInv, Own, Lost, Transit
<1>5. LossInv'
  BY DEF TypeOK, CountInv, ThreadInv, StopInv, LossInv, Own, Lost, Transit
<1> QED
  BY <1>1, <1>2, <1>3, <1>4, <1>5

(* Without one, what the client has sent is lost to no gateway.            *)
LEMMA ConnectFailsPInv == ASSUME PInv, ConnectFails PROVE PInv'
<1> USE OtherIs, PortAssumption DEF PInv, ConnectFails, Zero, Stopped, Ends
<1>1. TypeOK'
  BY DEF TypeOK
<1>2. CountInv'
  BY DEF TypeOK, CountInv, ThreadInv
<1>3. ThreadInv'
  <2>1. \A e \in Ends : thread'[e] = "idle" /\ held'[e] = 0 /\ out'[e] = out[e] /\ told'[e] = told[e]
    BY DEF TypeOK, ThreadInv
  <2>2. \A e \in Ends : shut'[e] /\ in'[e] = 0
    OBVIOUS
  <2>3. phase' = "over" /\ state'["gateway"] = "closed" /\ sent'["gateway"] = 0
    BY DEF TypeOK, ThreadInv
  <2>4. \A e \in Ends : ~told[e]
    BY DEF TypeOK, ThreadInv
  <2> QED
    BY <2>1, <2>2, <2>3, <2>4 DEF ThreadInv
<1>4. StopInv'
  BY DEF TypeOK, CountInv, ThreadInv, StopInv, Own, Lost, Transit
<1>5. LossInv'
  BY DEF TypeOK, CountInv, ThreadInv, StopInv, LossInv, Own, Lost, Transit
<1> QED
  BY <1>1, <1>2, <1>3, <1>4, <1>5

(* The resets at the end lose nothing that is not explained, as one of the *)
(* threads stopped of itself.                                              *)
LEMMA ReleasePInv == ASSUME PInv, Release \/ DropClient PROVE PInv'
<1> USE OtherIs, PortAssumption DEF PInv, Release, DropClient, CloseSocket, Reset, ends, Stopped
<1>1. TypeOK'
  BY DEF TypeOK
<1>2. CountInv'
  BY DEF TypeOK, CountInv, ThreadInv
<1>3. ThreadInv'
  <2>1. /\ \A e \in Ends : out'[e] <= out[e] /\ out'[e] \in Nat
        /\ in'["gateway"] = 0 /\ (phase' = "over" => in'["client"] = 0)
    BY DEF TypeOK, ThreadInv, Ends
  <2>2. \A e \in Ends : thread'[e] = "done" /\ shut'[e] /\ held'[e] = 0
    BY DEF TypeOK, ThreadInv
  <2>3. \A e \in Ends : told'[e] => out'[e] = 0
    BY <2>1 DEF TypeOK, ThreadInv
  <2>4. phase' \in {"kept", "over"}
    OBVIOUS
  <2> QED
    BY <2>1, <2>2, <2>3, <2>4 DEF ThreadInv, Ends
<1>4. StopInv'
  BY DEF TypeOK, CountInv, ThreadInv, StopInv, Own, Lost, Transit
<1>5. LossInv'
  BY DEF TypeOK, CountInv, ThreadInv, StopInv, LossInv, Own, Lost, Transit
<1> QED
  BY <1>1, <1>2, <1>3, <1>4, <1>5

(* The gateway's backlog is not the forwarder's.                           *)
LEMMA ListenerPInv == ASSUME PInv, ListenerChanges PROVE PInv'
BY DEF ListenerChanges, PInv, TypeOK, CountInv, ThreadInv, StopInv, LossInv, Own, Lost, Transit, ends

-----------------------------------------------------------------------------
(* The steps of a thread. *)

(* What is read is held instead.                                           *)
LEMMA RecvPInv == ASSUME PInv, NEW e \in Ends, Recv(e) PROVE PInv'
<1> USE OtherIs, PortAssumption DEF PInv, Recv, Turn, ends, Stopped
<1>1. TypeOK'
  BY DEF TypeOK
<1>2. CountInv'
  BY DEF TypeOK, CountInv, ThreadInv
<1>3. ThreadInv'
  BY DEF TypeOK, CountInv, ThreadInv
<1>4. StopInv'
  BY DEF TypeOK, CountInv, ThreadInv, StopInv, Own, Lost, Transit
<1>5. LossInv'
  BY DEF TypeOK, CountInv, ThreadInv, StopInv, LossInv, Own, Lost, Transit
<1> QED
  BY <1>1, <1>2, <1>3, <1>4, <1>5

(* A thread that stops reading does so of itself or after the other one.   *)
LEMMA RecvEndPInv == ASSUME PInv, NEW e \in Ends, RecvEnd(e) PROVE PInv'
<1> USE OtherIs, PortAssumption DEF PInv, RecvEnd, Turn, ends, Stopped
<1>1. TypeOK'
  BY DEF TypeOK
<1>2. CountInv'
  BY DEF TypeOK, CountInv, ThreadInv
<1>3. ThreadInv'
  BY DEF TypeOK, CountInv, ThreadInv
<1>4. StopInv'
  BY DEF TypeOK, CountInv, ThreadInv, StopInv, Own, Lost, Transit
<1>5. LossInv'
  BY DEF TypeOK, CountInv, ThreadInv, StopInv, LossInv, Own, Lost, Transit
<1> QED
  BY <1>1, <1>2, <1>3, <1>4, <1>5

(* What is written is on its way instead.                                  *)
LEMMA SendAllPInv == ASSUME PInv, NEW e \in Ends, SendAll(e) PROVE PInv'
<1> USE OtherIs, PortAssumption DEF PInv, SendAll, Turn, ends, Stopped
<1>1. TypeOK'
  BY DEF TypeOK, ThreadInv
<1>2. CountInv'
  BY DEF TypeOK, CountInv, ThreadInv
<1>3. ThreadInv'
  BY DEF TypeOK, CountInv, ThreadInv
<1>4. StopInv'
  BY DEF TypeOK, CountInv, ThreadInv, StopInv, Own, Lost, Transit
<1>5. LossInv'
  BY DEF TypeOK, CountInv, ThreadInv, StopInv, LossInv, Own, Lost, Transit
<1> QED
  BY <1>1, <1>2, <1>3, <1>4, <1>5

(* A write fails because the reader left, or because the other thread,     *)
(* which stopped of itself, has shut the socket.                           *)
LEMMA SendFailsPInv == ASSUME PInv, NEW e \in Ends, SendFails(e) PROVE PInv'
<1> USE OtherIs, PortAssumption DEF PInv, SendFails, Turn, ends, Stopped
<1>1. TypeOK'
  BY DEF TypeOK
<1>2. CountInv'
  BY DEF TypeOK, CountInv, ThreadInv
<1>3. ThreadInv'
  BY DEF TypeOK, CountInv, ThreadInv
<1>4. StopInv'
  <2>1. CASE \E x \in Ends : thread[x] \in Stopped /\ Own(x)
    BY <2>1 DEF TypeOK, CountInv, ThreadInv, Own, Lost, Transit, StopInv
  <2>2. CASE ~ \E x \in Ends : thread[x] \in Stopped
    <3>1. state[Other[e]] = "closed"
      BY <2>2 DEF TypeOK, ThreadInv
    <3>2. Own(e)'
      BY <3>1 DEF TypeOK, CountInv, ThreadInv, Own, Lost, Transit
    <3>3. thread'[e] = "first"
      BY DEF TypeOK
    <3> QED
      BY <3>2, <3>3 DEF StopInv
  <2> QED
    BY <2>1, <2>2 DEF StopInv
<1>5. LossInv'
  <2>1. state[Other[e]] # "open" \/ (state[e] # "open" /\ Lost(Other[e]))
    BY DEF TypeOK, ThreadInv, StopInv, Own
  <2>2. Lost(Other[e])' <=> Lost(Other[e])
    BY DEF TypeOK, Lost, Transit
  <2>3. Lost(e) => Lost(e)'
    BY DEF TypeOK, Lost, Transit
  <2>4. state' = state
    OBVIOUS
  <2> QED
    BY <2>1, <2>2, <2>3, <2>4 DEF LossInv
<1> QED
  BY <1>1, <1>2, <1>3, <1>4, <1>5

(* What is written to an end that left is lost.                            *)
LEMMA SendToNobodyPInv == ASSUME PInv, NEW e \in Ends, SendToNobody(e) PROVE PInv'
<1> USE OtherIs, PortAssumption DEF PInv, SendToNobody, Turn, ends, Stopped
<1>1. TypeOK'
  BY DEF TypeOK
<1>2. CountInv'
  BY DEF TypeOK, CountInv, ThreadInv
<1>3. ThreadInv'
  BY DEF TypeOK, CountInv, ThreadInv
<1>4. StopInv'
  BY DEF TypeOK, CountInv, ThreadInv, StopInv, Own, Lost, Transit
<1>5. LossInv'
  BY DEF TypeOK, CountInv, ThreadInv, StopInv, LossInv, Own, Lost, Transit
<1> QED
  BY <1>1, <1>2, <1>3, <1>4, <1>5

(* What is shut loses nothing yet.                                         *)
LEMMA ShutdownPInv == ASSUME PInv, NEW e \in Ends, Shutdown(e) PROVE PInv'
<1> USE OtherIs, PortAssumption DEF PInv, Shutdown, Turn, ends, Stopped
<1>1. TypeOK'
  <2>1. shut' \in [Ends -> BOOLEAN]
    <3>1. \E x \in Ends : shut' = [shut EXCEPT ![x] = TRUE]
      OBVIOUS
    <3> QED
      BY <3>1 DEF TypeOK
  <2>2. \E to \in {"second", "done"} : thread' = [thread EXCEPT ![e] = to]
    OBVIOUS
  <2>3. thread' \in [Ends -> {"idle", "recv", "send"} \union Stopped]
    BY <2>2 DEF TypeOK
  <2> QED
    BY <2>1, <2>3 DEF TypeOK
<1>2. CountInv'
  BY DEF TypeOK, CountInv, ThreadInv
<1>3. ThreadInv'
  BY DEF TypeOK, CountInv, ThreadInv
<1>4. StopInv'
  BY DEF TypeOK, CountInv, ThreadInv, StopInv, Own, Lost, Transit
<1>5. LossInv'
  BY DEF TypeOK, CountInv, ThreadInv, StopInv, LossInv, Own, Lost, Transit
<1> QED
  BY <1>1, <1>2, <1>3, <1>4, <1>5

-----------------------------------------------------------------------------
(* The steps of an end. *)

(* What is sent in time is on its way.                                     *)
LEMMA SendPInv == ASSUME PInv, NEW e \in Ends, Send(e) PROVE PInv'
<1> USE OtherIs, PortAssumption DEF PInv, Send, forwarder, Present
<1>1. TypeOK'
  BY DEF TypeOK
<1>2. CountInv'
  BY DEF TypeOK, CountInv, ThreadInv
<1>3. ThreadInv'
  BY DEF TypeOK, CountInv, ThreadInv
<1>4. StopInv'
  BY DEF TypeOK, CountInv, ThreadInv, StopInv, Own, Lost, Transit
<1>5. LossInv'
  BY DEF TypeOK, CountInv, ThreadInv, StopInv, LossInv, Own, Lost, Transit
<1> QED
  BY <1>1, <1>2, <1>3, <1>4, <1>5

(* What is sent too late is sent to an end that ended before.              *)
LEMMA SendTooLatePInv == ASSUME PInv, NEW e \in Ends, SendTooLate(e) PROVE PInv'
<1> USE OtherIs, PortAssumption DEF PInv, SendTooLate, forwarder, Present, Reset
<1>1. TypeOK'
  BY DEF TypeOK
<1>2. CountInv'
  BY DEF TypeOK, CountInv, ThreadInv
<1>3. ThreadInv'
  BY DEF TypeOK, CountInv, ThreadInv
<1>4. StopInv'
  BY DEF TypeOK, CountInv, ThreadInv, StopInv, Own, Lost, Transit
<1>5. LossInv'
  <2>1. state[Other[e]] # "open"
    BY DEF TypeOK, ThreadInv, StopInv, Own, Stopped, Ends, Other
  <2>2. Lost(e)'
    BY DEF TypeOK, CountInv, Lost, Transit
  <2>3. state' = state
    OBVIOUS
  <2> QED
    BY <2>1, <2>2, <2>3 DEF LossInv
<1> QED
  BY <1>1, <1>2, <1>3, <1>4, <1>5

(* What is received was on its way.                                        *)
LEMMA ReceivePInv == ASSUME PInv, NEW e \in Ends, Receive(e) PROVE PInv'
<1> USE OtherIs, PortAssumption DEF PInv, Receive, forwarder
<1>1. TypeOK'
  <2>1. CASE out[e] > 0
    BY <2>1 DEF TypeOK
  <2>2. CASE ~(out[e] > 0)
    BY <2>2 DEF TypeOK
  <2> QED
    BY <2>1, <2>2
<1>2. CountInv'
  BY DEF TypeOK, CountInv, ThreadInv
<1>3. ThreadInv'
  BY DEF TypeOK, CountInv, ThreadInv
<1>4. StopInv'
  BY DEF TypeOK, CountInv, ThreadInv, StopInv, Own, Lost, Transit
<1>5. LossInv'
  BY DEF TypeOK, CountInv, ThreadInv, StopInv, LossInv, Own, Lost, Transit
<1> QED
  BY <1>1, <1>2, <1>3, <1>4, <1>5

(* Ending a stream loses nothing.                                          *)
LEMMA EndStreamPInv == ASSUME PInv, NEW e \in Ends, EndStream(e) PROVE PInv'
<1> USE OtherIs, PortAssumption DEF PInv, EndStream, forwarder, Present
<1>1. TypeOK'
  BY DEF TypeOK
<1>2. CountInv'
  BY DEF TypeOK, CountInv, ThreadInv
<1>3. ThreadInv'
  BY DEF TypeOK, CountInv, ThreadInv
<1>4. StopInv'
  BY DEF TypeOK, CountInv, ThreadInv, StopInv, Own, Lost, Transit
<1>5. LossInv'
  BY DEF TypeOK, CountInv, ThreadInv, StopInv, LossInv, Own, Lost, Transit
<1> QED
  BY <1>1, <1>2, <1>3, <1>4, <1>5

(* Leaving loses what was sent to the end and, if that was something, what *)
(* the end itself had sent.                                                *)
LEMMA ClosePInv == ASSUME PInv, NEW e \in Ends, Close(e) PROVE PInv'
<1> USE OtherIs, PortAssumption DEF PInv, Close, forwarder, Present
<1>1. TypeOK'
  BY DEF TypeOK
<1>2. CountInv'
  BY DEF TypeOK, CountInv, ThreadInv
<1>3. ThreadInv'
  BY DEF TypeOK, CountInv, ThreadInv
<1>4. StopInv'
  BY DEF TypeOK, CountInv, ThreadInv, StopInv, Own, Lost, Transit
<1>5. LossInv'
  <2>1. state'[e] = "closed" /\ state'[Other[e]] = state[Other[e]]
    BY DEF TypeOK
  <2>2. Lost(e)' => Lost(e) \/ Lost(Other[e])'
    <3>1. /\ got[e] \in Nat /\ out[e] \in Nat /\ in[e] \in Nat /\ in[Other[e]] \in Nat
          /\ held[e] \in Nat /\ held[Other[e]] \in Nat /\ sent[Other[e]] \in Nat
          /\ out[Other[e]] \in Nat /\ got[Other[e]] \in Nat /\ sent[e] \in Nat
          /\ got[e] + out[e] + held[Other[e]] + in[Other[e]] <= sent[Other[e]]
      BY DEF TypeOK, CountInv
    <3>2. /\ UNCHANGED <<got, held, sent>> /\ out'[Other[e]] = out[Other[e]]
          /\ in'[e] \in Nat /\ (out[e] = 0 => in'[e] = in[e])
      BY DEF TypeOK
    <3> QED
      BY <2>1, <3>1, <3>2 DEF Lost, Transit
  <2>3. Lost(Other[e]) => Lost(Other[e])'
    BY DEF TypeOK, CountInv, Lost, Transit
  <2> QED
    BY <2>1, <2>2, <2>3 DEF LossInv
<1> QED
  BY <1>1, <1>2, <1>3, <1>4, <1>5

-----------------------------------------------------------------------------
(* Every step preserves the invariant, and so does a stutter.              *)
LEMMA NextPInv == ASSUME PInv, [Next]_vars PROVE PInv'
<1>1. ASSUME NEW e \in Ends, Thread(e) PROVE PInv'
  BY <1>1, RecvPInv, RecvEndPInv, SendAllPInv, SendFailsPInv, SendToNobodyPInv, ShutdownPInv
  DEF Thread
<1>2. ASSUME UNCHANGED vars PROVE PInv'
  BY <1>2 DEF PInv, TypeOK, CountInv, ThreadInv, StopInv, LossInv, Own, Lost, Transit, vars,
     forwarder, ends
<1> QED
  BY <1>1, <1>2, ConnectPInv, ConnectFailsPInv, ListenerPInv, ReleasePInv, SendPInv, SendTooLatePInv,
     ReceivePInv, EndStreamPInv, ClosePInv DEF Next

(* The inductive invariant always holds.                                   *)
THEOREM ForwardInvariant == Spec => []PInv
BY InitPInv, NextPInv, PTL DEF Spec

(* Nothing can reach an end whose socket is shut; what is missing then is  *)
(* explained.                                                              *)
LEMMA MissingIsExplained ==
  ASSUME PInv, NEW e \in Ends, shut[e], out[e] = 0
  PROVE  /\ \E x \in Ends : state[x] # "open"
         /\ got[e] < sent[Other[e]] =>
              state[e] # "open" \/ (state[Other[e]] # "open" /\ got[Other[e]] < sent[e])
<1> USE OtherIs DEF PInv, Stopped
<1>1. \E x \in Ends : state[x] # "open"
  BY DEF TypeOK, ThreadInv, StopInv, Own, Ends
<1> SUFFICES ASSUME got[e] < sent[Other[e]], state[e] = "open"
             PROVE  state[Other[e]] # "open" /\ got[Other[e]] < sent[e]
  BY <1>1
<1>2. CASE Lost(Other[e])
  BY <1>2 DEF TypeOK, CountInv, LossInv, Lost, Transit
<1>3. CASE ~Lost(Other[e])
  <2>1. held[Other[e]] + in[Other[e]] > 0
    BY <1>3 DEF TypeOK, Lost, Transit
  <2>2. \E x \in Ends : thread[x] \in Stopped
    BY <2>1 DEF TypeOK, ThreadInv
  <2>3. PICK x \in Ends : thread[x] \in Stopped /\ Own(x)
    BY <2>2 DEF StopInv
  <2>4. CASE x = e
    BY <2>3, <2>4 DEF TypeOK, CountInv, Own, Lost, Transit
  <2>5. CASE x = Other[e]
    BY <2>1, <2>3, <2>5 DEF TypeOK, ThreadInv, Own
  <2> QED
    BY <2>4, <2>5
<1> QED
  BY <1>2, <1>3

(* A loss that an end can notice is explained.                             *)
THEOREM LossSafe == Spec => []LossIsExplained
<1>1. PInv => LossIsExplained
  BY MissingIsExplained DEF PInv, ThreadInv, LossIsExplained
<1> QED
  BY <1>1, ForwardInvariant, PTL

(* The steps that change nothing of what the ends see are stutters.        *)
LEMMA InnerSteps ==
  ASSUME UNCHANGED <<state, sent, got, told>> PROVE UNCHANGED Channel!bcVars
BY DEF Channel!bcVars

(* The forwarder implements ByteChannel.                                   *)
LEMMA NextChannel == ASSUME PInv, [Next]_vars PROVE [Channel!Next]_(Channel!bcVars)
<1>1. CASE Connect \/ ListenerChanges \/ Release \/ DropClient \/ UNCHANGED vars
  BY <1>1, InnerSteps DEF Connect, ListenerChanges, Release, DropClient, vars, ends
<1>2. CASE ConnectFails
  <2>1. Channel!End("gateway")
    BY <1>2 DEF ConnectFails, Channel!End, PInv, TypeOK, Ends
  <2> QED
    BY <2>1 DEF Channel!Next, Channel!Ends
<1>3. ASSUME NEW e \in Ends, Thread(e) PROVE UNCHANGED Channel!bcVars
  BY <1>3, InnerSteps DEF Thread, Recv, RecvEnd, SendAll, SendFails, SendToNobody, Shutdown, ends
<1>4. ASSUME NEW e \in Ends, Send(e) \/ SendTooLate(e) PROVE Channel!Send(e)
  BY <1>4 DEF Send, SendTooLate, Channel!Send, PInv, TypeOK
<1>5. ASSUME NEW e \in Ends, EndStream(e) \/ Close(e) PROVE Channel!End(e)
  BY <1>5 DEF EndStream, Close, Channel!End, PInv, TypeOK
<1>6. ASSUME NEW e \in Ends, Receive(e) PROVE Channel!Deliver(e) \/ Channel!Tell(e)
  <2>1. CASE out[e] > 0
    <3>1. got[e] < sent[Other[e]]
      BY <2>1, OtherIs DEF PInv, TypeOK, CountInv
    <3> QED
      BY <1>6, <2>1, <3>1 DEF Receive, Channel!Deliver, Channel!Other, Channel!Ends, Other, Ends
  <2>2. CASE ~(out[e] > 0)
    <3>1. shut[e] /\ out[e] = 0
      BY <1>6, <2>2 DEF Receive, PInv, TypeOK
    <3>2. Channel!Explained(e) /\ \E x \in Ends : state[x] # "open"
      BY <3>1, MissingIsExplained, OtherIs
      DEF Channel!Explained, Channel!Other, Channel!Ends, Other, Ends
    <3> QED
      BY <1>6, <2>2, <3>2 DEF Receive, Channel!Tell, Channel!Ends, Ends
  <2> QED
    BY <2>1, <2>2
<1> QED
  BY <1>1, <1>2, <1>3, <1>4, <1>5, <1>6 DEF Next, Channel!Next, Channel!Ends, Ends

(* Every behaviour of the forwarder is one that ByteChannel allows.        *)
THEOREM ForwardImplements == Spec => KeepsChannel
<1>1. Init => Channel!Init
  BY DEF Init, Zero, Channel!Init, Channel!Ends, Ends
<1> QED
  BY <1>1, ForwardInvariant, NextChannel, PTL DEF Spec, KeepsChannel, Channel!Spec

=============================================================================
