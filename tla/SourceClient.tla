---------------------------- MODULE SourceClient ----------------------------
(***************************************************************************)
(* What the clones of one MediaWiki client share: the request slots, the   *)
(* byte budget of a run, the download rate and the circuit breaker         *)
(* (crates/wikisync-mediawiki/src/lib.rs, media.rs, acquisition.rs).       *)
(*                                                                         *)
(* An operation is a query, which is retried and guarded by the breaker    *)
(* (get_json, get_thumbnail_bytes), or a dump download, which is neither.  *)
(* Time is counted in ticks; a response is its length.  The source may     *)
(* answer anything, and the caller may drop an operation at any await.     *)
(***************************************************************************)
EXTENDS Integers, FiniteSetsExt
CONSTANTS
  Op, Dumps,          \* concurrent operations, and those that are downloads
  Slots,              \* ClientConfig::max_concurrent_requests
  Budget,             \* max_downloaded_response_bytes_per_run
  MaxResponse,        \* max_response_bytes
  Rate, Ticks,        \* bytes per second, ticks per second
  Attempts, InitialDelay, MaxDelay, Threshold, OpenFor,  \* RetryPolicy
  MaxChunk, MaxTime   \* bounds: bytes that arrive together, and ticks
ASSUME ClientAssumption ==
  /\ IsFiniteSet(Op) /\ Dumps \subseteq Op
  /\ {Slots, Budget, MaxResponse, Rate, Ticks, Attempts, Threshold} \subseteq Nat \ {0}
  /\ {InitialDelay, MaxDelay, OpenFor, MaxChunk, MaxTime} \subseteq Nat
  /\ InitialDelay <= MaxDelay

VARIABLES
  time,
  op,        \* each operation: the await it is at, and its locals
  spent,     \* TransportLimits::downloaded_response_bytes
  limiter,   \* ByteRateState, and who holds its lock
  circuit,   \* CircuitState
  arrived,   \* history: bytes received, by all operations
  paid,      \* history: bytes the limiter let through
  opened     \* history: when the circuit last opened
clientVars == <<time, op, spent, limiter, circuit, arrived, paid, opened>>

Nobody == "nobody"
Waits == {"new", "slot", "sent", "body", "throttle", "backoff", "done"}
Fates == {"ok", "retryable", "final"}
Lesser(a, b) == IF a < b THEN a ELSE b
Greater(a, b) == IF a < b THEN b ELSE a

ClientTypeOK ==
  /\ time \in 0..MaxTime
  /\ op \in [Op -> [at : Waits, attempt : 0..Attempts, known : BOOLEAN,
                    reserved : 0..MaxResponse, received : 0..MaxResponse, owing : 0..MaxChunk,
                    due : 0..(MaxTime + Greater(MaxDelay, Ticks)), began : 0..MaxTime]]
  /\ spent \in 0..Budget
  /\ limiter \in [credit : 0..(Rate * Ticks), refilled : 0..MaxTime, holder : Op \cup {Nobody}]
  /\ circuit \in [failures : 0..(Cardinality(Op)), until : 0..(MaxTime + OpenFor)]
  /\ {arrived, paid} \subseteq Nat /\ opened \in 0..MaxTime

Fresh == [at |-> "new", attempt |-> 0, known |-> FALSE,
          reserved |-> 0, received |-> 0, owing |-> 0, due |-> 0, began |-> 0]
ClientInit ==
  /\ time = 0 /\ op = [o \in Op |-> Fresh] /\ spent = 0
  /\ limiter = [credit |-> 0, refilled |-> 0, holder |-> Nobody]
  /\ circuit = [failures |-> 0, until |-> 0]
  /\ arrived = 0 /\ paid = 0 /\ opened = 0

Pass == time < MaxTime /\ time' = time + 1
        /\ UNCHANGED <<op, spent, limiter, circuit, arrived, paid, opened>>

-----------------------------------------------------------------------------
(* The circuit breaker. *)
IsOpen == circuit.until > time
RecordSuccess == circuit' = [failures |-> 0, until |-> 0] /\ UNCHANGED opened
RecordFailure ==
  LET failures == circuit.failures + 1 IN
  IF failures >= Threshold
    THEN circuit' = [failures |-> failures, until |-> time + OpenFor] /\ opened' = time
    ELSE circuit' = [circuit EXCEPT !.failures = failures] /\ UNCHANGED opened

(* before_request: once for an operation, not for each of its attempts. *)
BeforeRequestBlind == UNCHANGED circuit
BeforeRequest ==
  /\ ~IsOpen
  /\ circuit' = IF circuit.until # 0 THEN [failures |-> 0, until |-> 0] ELSE circuit
Begin(o) ==
  /\ op[o].at = "new"
  /\ \/ o \in Dumps /\ UNCHANGED circuit
        /\ op' = [op EXCEPT ![o].at = "slot", ![o].attempt = 1, ![o].began = time]
     \/ o \notin Dumps /\ BeforeRequest
        /\ op' = [op EXCEPT ![o].at = "slot", ![o].attempt = 1, ![o].began = time]
     \/ o \notin Dumps /\ IsOpen /\ UNCHANGED circuit
        /\ op' = [op EXCEPT ![o].at = "done"]
  /\ UNCHANGED <<time, spent, limiter, arrived, paid, opened>>

-----------------------------------------------------------------------------
(* One attempt.  It holds a slot from the request to the end of the body. *)
Holding == {o \in Op : op[o].at \in {"sent", "body", "throttle"}}
Send(o) ==
  /\ op[o].at = "slot" /\ Cardinality(Holding) < Slots
  /\ op' = [op EXCEPT ![o].at = "sent"]
  /\ UNCHANGED <<time, spent, limiter, circuit, arrived, paid, opened>>

(* retry_delay: doubled up to the maximum, jittered over its upper half, and at
   least what the source asked for, itself capped. *)
Exponential[n \in 1..Attempts] ==
  IF n = 1 THEN InitialDelay ELSE Lesser(2 * Exponential[n - 1], MaxDelay)
RetryDelays(attempt) ==
  {Greater(jittered, requested) : jittered \in (Exponential[attempt] \div 2)..Exponential[attempt],
                                  requested \in 0..MaxDelay}

(* ResponseBudget::drop *)
UnusedForgetsReceived(o) == op[o].reserved
Unused(o) == Greater(op[o].reserved - op[o].received, 0)
Released(o) == IF limiter.holder = o THEN [limiter EXCEPT !.holder = Nobody] ELSE limiter

(* An attempt ends, and with it its slot and its reservation; the operation
   sleeps before the next attempt or ends. *)
EndAttempt(o, fate) ==
  /\ spent' = spent - Unused(o)
  /\ IF o \notin Dumps /\ fate = "retryable" /\ op[o].attempt < Attempts
       THEN /\ \E delay \in RetryDelays(op[o].attempt) :
                 op' = [op EXCEPT ![o] = [Fresh EXCEPT !.at = "backoff", !.due = time + delay,
                                            !.attempt = op[o].attempt, !.began = op[o].began]]
            /\ UNCHANGED <<circuit, opened>>
       ELSE /\ op' = [op EXCEPT ![o] = [Fresh EXCEPT !.at = "done"]]
            /\ IF o \in Dumps THEN UNCHANGED <<circuit, opened>>
               ELSE IF fate = "retryable" THEN RecordFailure ELSE RecordSuccess
  /\ UNCHANGED <<time, limiter, arrived, paid>>
Retry(o) ==
  /\ op[o].at = "backoff" /\ time >= op[o].due
  /\ op' = [op EXCEPT ![o].at = "slot", ![o].attempt = @ + 1, ![o].due = 0]
  /\ UNCHANGED <<time, spent, limiter, circuit, arrived, paid, opened>>

(* reserve_response_capacity: what was declared, or all one response may have. *)
Reservation(size, known) == IF known THEN size ELSE MaxResponse
Reserve(amount) == spent + amount <= Budget /\ spent' = spent + amount
Respond(o, size, known) ==
  /\ op[o].at = "sent"
  /\ ~(known /\ size > MaxResponse)
  /\ Reserve(Reservation(size, known))
  /\ op' = [op EXCEPT ![o].at = "body", ![o].known = known,
                      ![o].reserved = Reservation(size, known)]
  /\ UNCHANGED <<time, limiter, circuit, arrived, paid, opened>>
RefuseResponse(o, size, known) ==
  /\ op[o].at = "sent"
  /\ (known /\ size > MaxResponse) \/ spent + Reservation(size, known) > Budget
  /\ EndAttempt(o, "final")

(* A chunk is counted against the reservation, then waits for the limiter.  Only
   a body of no declared length can be longer than what is reserved for it. *)
RecordChunk(o, n) == op[o].received + n <= op[o].reserved
Receive(o, n) ==
  /\ op[o].at = "body" /\ RecordChunk(o, n)
  /\ op' = [op EXCEPT ![o].at = "throttle", ![o].received = @ + n, ![o].owing = n]
  /\ arrived' = arrived + n
  /\ UNCHANGED <<time, spent, limiter, circuit, paid, opened>>
Overflow(o, n) ==
  /\ op[o].at = "body" /\ ~op[o].known /\ ~RecordChunk(o, n)
  /\ EndAttempt(o, "final")
Complete(o, fate) ==
  /\ op[o].at = "body" /\ (op[o].known => op[o].received = op[o].reserved)
  /\ EndAttempt(o, fate)
(* A timeout or a refused connection is retryable, a broken body is not. *)
Break(o, fate) ==
  /\ op[o].at \in {"sent", "body"} /\ fate # "ok"
  /\ EndAttempt(o, fate)

-----------------------------------------------------------------------------
(* ByteRateLimiter::consume, one quantum at a time: credit is in byte-ticks, and
   the lock is held while the holder sleeps for what is missing. *)
RefilledFromStart == Lesser(limiter.credit + time * Rate, Rate * Ticks)
Refilled == Lesser(limiter.credit + (time - limiter.refilled) * Rate, Rate * Ticks)
CeilDiv(a, b) == (a + b - 1) \div b
Consume(o) ==
  LET quantum == Lesser(op[o].owing, Rate)
      cost == quantum * Ticks IN
  /\ op[o].at = "throttle" /\ limiter.holder \in {Nobody, o} /\ time >= op[o].due
  /\ IF Refilled >= cost
       THEN /\ limiter' = [credit |-> Refilled - cost, refilled |-> time, holder |-> Nobody]
            /\ paid' = paid + quantum
            /\ op' = [op EXCEPT ![o].owing = @ - quantum, ![o].due = 0,
                                ![o].at = IF op[o].owing = quantum THEN "body" ELSE @]
       ELSE /\ limiter' = [credit |-> Refilled, refilled |-> time, holder |-> o]
            /\ op' = [op EXCEPT ![o].due = time + CeilDiv(cost - Refilled, Rate)]
            /\ UNCHANGED paid
  /\ UNCHANGED <<time, spent, circuit, arrived, opened>>

(* The caller drops the operation at an await: a shutdown, or its own timeout. *)
Cancel(o) ==
  /\ op[o].at \notin {"new", "done"}
  /\ op' = [op EXCEPT ![o] = [Fresh EXCEPT !.at = "done"]]
  /\ spent' = spent - Unused(o)
  /\ limiter' = Released(o)
  /\ UNCHANGED <<time, circuit, arrived, paid, opened>>

ClientNext ==
  \/ Pass
  \/ \E o \in Op :
       \/ Begin(o) \/ Send(o) \/ Retry(o) \/ Consume(o) \/ Cancel(o)
       \/ \E size \in 1..(MaxResponse + 1), known \in BOOLEAN :
            Respond(o, size, known) \/ RefuseResponse(o, size, known)
       \/ \E n \in 1..MaxChunk : Receive(o, n) \/ Overflow(o, n)
       \/ \E fate \in Fates : Complete(o, fate) \/ Break(o, fate)
ClientSpec == ClientInit /\ [][ClientNext]_clientVars

-----------------------------------------------------------------------------
(* The counter of the run is what has arrived and what open responses may still
   bring, so the clones together never receive more than the run may, however
   their reservations, retries and cancellations interleave. *)
BudgetCoversArrivals ==
  /\ spent = arrived + SumFunction([o \in Op |-> op[o].reserved - op[o].received])
  /\ spent <= Budget

(* No more bytes pass, over all clones, than the rate allows since the client
   was made: credit starts at zero, and a sleeping holder keeps the others out. *)
RateHolds == paid * Ticks <= Rate * time

(* While the circuit is open no query is under way that began after it opened;
   those that began before may still use up their attempts. *)
OpenCircuitAdmitsNone ==
  IsOpen => \A o \in Op \ Dumps : op[o].at \notin {"new", "done"} => op[o].began <= opened

(* The limits the clones share hold for all of them together. *)
TransportLimitsHold == BudgetCoversArrivals /\ RateHolds /\ OpenCircuitAdmitsNone
=============================================================================
