------------------------------ MODULE Aggregate ------------------------------
(***************************************************************************)
(* What the aggregate endpoint promises, without its tables, timers and    *)
(* transitions: at most one source is shown at a time, and the one shown   *)
(* gives way before the next; a call goes to at most one source and ends   *)
(* once, at the latest when that source is lost.                           *)
(***************************************************************************)
EXTENDS Integers

CONSTANTS Source,     \* positive numbers
          Consumer    \* the viewer's request IDs

VARIABLES holder,     \* the source that is shown, or Nobody
          calls       \* for each request ID: idle, asked or with a source

Nobody == 0
Idle == 0
Asked == -1

TypeOK ==
  /\ holder \in Source \cup {Nobody}
  /\ calls \in [Consumer -> Source \cup {Idle, Asked}]

Init == holder = Nobody /\ calls = [c \in Consumer |-> Idle]

Acquire(s) == holder = Nobody /\ holder' = s /\ UNCHANGED calls

Release == holder' = Nobody /\ UNCHANGED calls

Ask(c) ==
  calls[c] = Idle /\ calls' = [calls EXCEPT ![c] = Asked] /\ UNCHANGED holder

Route(c, s) ==
  calls[c] = Asked /\ calls' = [calls EXCEPT ![c] = s] /\ UNCHANGED holder

Answer(c) == calls' = [calls EXCEPT ![c] = Idle] /\ UNCHANGED holder

(* Sources are lost: their calls end, and calls in expired end with them.  *)
Lose(lost, expired) ==
  /\ holder' = IF holder \in lost THEN Nobody ELSE holder
  /\ calls' = [c \in Consumer |->
                 IF calls[c] \in lost \/ c \in expired THEN Idle ELSE calls[c]]

Next ==
  \/ \E s \in Source : Acquire(s)
  \/ Release
  \/ \E c \in Consumer : Ask(c) \/ Answer(c) \/ \E s \in Source : Route(c, s)
  \/ \E lost \in SUBSET Source, expired \in SUBSET Consumer : Lose(lost, expired)

Spec == Init /\ [][Next]_<<holder, calls>>

=============================================================================
