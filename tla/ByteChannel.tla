------------------------------ MODULE ByteChannel ------------------------------
(***************************************************************************)
(* What a relay between two programs may promise: it invents and           *)
(* duplicates nothing, tells an end that its stream is over only when one  *)
(* of them ended it, and by then has delivered everything, unless that end *)
(* had ended its own side, or the other one left what it was sent.  What   *)
(* is sent is counted: its order is not expressed.                         *)
(* An exchange in which each end closes only after it has read all that it *)
(* was sent, as HTTP does, thus loses nothing.                             *)
(***************************************************************************)
EXTENDS Naturals

Ends == {"client", "gateway"}
Other == [e \in Ends |-> IF e = "client" THEN "gateway" ELSE "client"]

VARIABLES
  sent,           \* how much each end has sent
  got,            \* how much each end has received
  ended,          \* has the end ended its stream?
  over            \* has the end seen the end of its stream?

bcVars == <<sent, got, ended, over>>

Init ==
  /\ sent = [e \in Ends |-> 0] /\ got = [e \in Ends |-> 0]
  /\ ended = [e \in Ends |-> FALSE] /\ over = [e \in Ends |-> FALSE]

Send(e) ==
  /\ ~ended[e]
  /\ sent' = [sent EXCEPT ![e] = @ + 1]
  /\ UNCHANGED <<got, ended, over>>

Deliver(e) ==
  /\ ~over[e] /\ got[e] < sent[Other[e]]
  /\ got' = [got EXCEPT ![e] = @ + 1]
  /\ UNCHANGED <<sent, ended, over>>

End(e) ==
  /\ ended' = [ended EXCEPT ![e] = TRUE]
  /\ UNCHANGED <<sent, got, over>>

\* Is what the end has not received its own doing, or that of the other?
Explained(e) ==
  got[e] < sent[Other[e]] =>
    ended[e] \/ (ended[Other[e]] /\ got[Other[e]] < sent[e])

Tell(e) ==
  /\ \E x \in Ends : ended[x]
  /\ Explained(e)
  /\ over' = [over EXCEPT ![e] = TRUE]
  /\ UNCHANGED <<sent, got, ended>>

Next == \E e \in Ends : Send(e) \/ Deliver(e) \/ End(e) \/ Tell(e)

Spec == Init /\ [][Next]_bcVars
=============================================================================
