------------------------------ MODULE Recovery -------------------------------
(***************************************************************************)
(* The failure history of one share (hive/internal/gateway/recovery.go).   *)
(* A record is kept per share and publication generation; it outlives the  *)
(* connections that failed.  retryAt is modelled by the time left until it.*)
(***************************************************************************)
EXTENDS Integers

CONSTANT MaxAttempts   \* the attempt count at which the backoff is capped (5)

ASSUME MaxAttemptsAssumption == MaxAttempts \in 1..5

(* time.Second << (attempts-1), for attempts 1 to 5.                       *)
Backoffs == <<1, 2, 4, 8, 16>>

(* A generation is a positive number: 0 marks the absence of a record.     *)
NoRecord == [gen |-> 0, attempts |-> 0, wait |-> 0, blocked |-> FALSE]

Recorded(r) == r.gen # 0

(* The record fail() updates: a fresh one for another generation.          *)
RecordOf(r, g) == IF r.gen = g THEN r ELSE [NoRecord EXCEPT !.gen = g]

NextAttempt(r) == IF r.attempts < MaxAttempts THEN r.attempts + 1 ELSE r.attempts

(* The classes of failure fail() tells apart.                              *)
Transient == "transient"
Persistent == "persistent"
FailureKinds == {Transient, Persistent}

(***************************************************************************)
(* fail: a persistent failure (errWire, or an UpstreamFailure that is not  *)
(* retryable) quarantines the generation; any other is retried later.      *)
(***************************************************************************)
Penalise(r, g, kind) ==
  LET old == RecordOf(r, g) IN
  IF kind = Persistent
    THEN [old EXCEPT !.blocked = TRUE]
    ELSE [old EXCEPT !.blocked = FALSE,
                     !.attempts = NextAttempt(old),
                     !.wait = Backoffs[NextAttempt(old)]]

(* refresh opens a source without a record, or whose backoff has run out.  *)
MayOpen(r) == ~Recorded(r) \/ (~r.blocked /\ r.wait = 0)

=============================================================================
