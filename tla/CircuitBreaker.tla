--------------------------- MODULE CircuitBreaker ---------------------------
(***************************************************************************)
(* The process-local circuit breaker in front of Redis                     *)
(* (src/kuvox_ai/cache.py, class CircuitBreaker) together with the pattern *)
(* every Redis operation of RedisCacheStore and RedisLockStore follows:    *)
(*                                                                         *)
(*     if not circuit.allow_request(): return BYPASS                       *)
(*     try:    async with asyncio.timeout(...): await redis command        *)
(*             circuit.record_success()                                    *)
(*     except Exception: circuit.record_failure()                          *)
(*                                                                         *)
(* Several callers (asyncio tasks) are suspended in their command at the   *)
(* same time, so a result may be recorded when the breaker is no longer in *)
(* the state in which it admitted the command.  CancelledError is not an   *)
(* Exception: a cancelled command records nothing.                         *)
(*                                                                         *)
(* Each store has a breaker of its own; this is one of them.               *)
(*                                                                         *)
(* Names that SingleFlight has too begin with B here, so that a module can *)
(* extend both.                                                            *)
(***************************************************************************)
EXTENDS Naturals, FiniteSets

CONSTANTS
    Callers,            \* tasks that use the store
    FailureThreshold,   \* failure_threshold
    OpenTicks,          \* open_seconds, in ticks of the clock
    TimeoutTicks        \* operation_timeout_seconds, in ticks of the clock

(* The defaults are 10 s against 0.5 s.                                    *)
ASSUME BreakerAssumption ==
    /\ FailureThreshold \in Nat \ {0}
    /\ OpenTicks \in Nat
    /\ TimeoutTicks \in Nat
    /\ TimeoutTicks < OpenTicks

VARIABLES
    state,      \* _state
    failures,   \* _failures, capped at FailureThreshold: only compared with it
    openAge,    \* monotonic() - _opened_at, capped at OpenTicks: the code only
                \* compares the difference with open_seconds
    probing,    \* _half_open_in_flight
    command,    \* the command each caller is suspended in, if any
    age,        \* how long that command has been running
    redisUp,    \* whether a command that ends now succeeds
    probeLost   \* history: some half-open command was cancelled

breaker == <<state, failures, openAge, probing>>
bvars == <<state, failures, openAge, probing, command, age, redisUp, probeLost>>

States == {"closed", "open", "half_open"}

(* "ordinary": admitted by a closed breaker; "probe": admitted half-open.  *)
Commands == {"none", "ordinary", "probe"}

Running(c) == command[c] # "none"

BTypeOK ==
    /\ state \in States
    /\ failures \in 0 .. FailureThreshold
    /\ openAge \in 0 .. OpenTicks
    /\ probing \in BOOLEAN
    /\ command \in [Callers -> Commands]
    /\ age \in [Callers -> 0 .. TimeoutTicks]
    /\ redisUp \in BOOLEAN
    /\ probeLost \in BOOLEAN

BInit ==
    /\ state = "closed"
    /\ failures = 0
    /\ openAge = 0
    /\ probing = FALSE
    /\ command = [c \in Callers |-> "none"]
    /\ age = [c \in Callers |-> 0]
    /\ redisUp = TRUE
    /\ probeLost = FALSE

-----------------------------------------------------------------------------
(* The breaker's methods.                                                  *)

AtMost(n, bound) == IF n > bound THEN bound ELSE n

(* open_seconds have passed since _opened_at.                              *)
Cooled == openAge >= OpenTicks

(* Mutant: the in-flight flag is set but not looked at.                     *)
AdmitTwoProbes(c) ==
    /\ ~Running(c)
    /\ \/ /\ state = "closed"
          /\ command' = [command EXCEPT ![c] = "ordinary"]
          /\ UNCHANGED breaker
       \/ /\ state = "half_open" \/ (state = "open" /\ Cooled)
          /\ state' = "half_open"
          /\ probing' = TRUE
          /\ command' = [command EXCEPT ![c] = "probe"]
          /\ UNCHANGED <<failures, openAge>>
    /\ age' = [age EXCEPT ![c] = 0]
    /\ UNCHANGED <<redisUp, probeLost>>

(* allow_request() returns True: the caller sends its command.             *)
Admit(c) ==
    /\ ~Running(c)
    /\ \/ /\ state = "closed"
          /\ command' = [command EXCEPT ![c] = "ordinary"]
          /\ UNCHANGED breaker
       \/ /\ state = "half_open" \/ (state = "open" /\ Cooled)
          /\ ~probing
          /\ state' = "half_open"
          /\ probing' = TRUE
          /\ command' = [command EXCEPT ![c] = "probe"]
          /\ UNCHANGED <<failures, openAge>>
    /\ age' = [age EXCEPT ![c] = 0]
    /\ UNCHANGED <<redisUp, probeLost>>

(* Mutant: each refused call restarts the cooling period.                   *)
RefuseRestamps(c) ==
    /\ ~Running(c)
    /\ \/ /\ state = "open" /\ ~Cooled
          /\ openAge' = 0
          /\ UNCHANGED state
       \/ /\ state = "half_open" \/ (state = "open" /\ Cooled)
          /\ probing
          /\ state' = "half_open"
          /\ UNCHANGED openAge
    /\ UNCHANGED <<failures, probing, command, age, redisUp, probeLost>>

(* allow_request() returns False: the operation reports BYPASS.            *)
Refuse(c) ==
    /\ ~Running(c)
    /\ \/ /\ state = "open" /\ ~Cooled
          /\ UNCHANGED state
       \/ /\ state = "half_open" \/ (state = "open" /\ Cooled)
          /\ probing
          /\ state' = "half_open"
    /\ UNCHANGED <<failures, openAge, probing, command, age, redisUp, probeLost>>

RecordSuccess ==
    /\ failures' = 0
    /\ probing' = FALSE
    /\ state' = "closed"
    /\ UNCHANGED openAge

(* Mutant: _opened_at keeps the time of an earlier opening.                 *)
RecordFailureUnstamped ==
    /\ probing' = FALSE
    /\ failures' = AtMost(failures + 1, FailureThreshold)
    /\ IF state = "half_open" \/ failures + 1 >= FailureThreshold
       THEN state' = "open" /\ UNCHANGED openAge
       ELSE UNCHANGED <<state, openAge>>

RecordFailure ==
    /\ probing' = FALSE
    /\ failures' = AtMost(failures + 1, FailureThreshold)
    /\ IF state = "half_open" \/ failures + 1 >= FailureThreshold
       THEN state' = "open" /\ openAge' = 0
       ELSE UNCHANGED <<state, openAge>>

-----------------------------------------------------------------------------
(* How the command of caller c ends.                                       *)

EndCommand(c) ==
    /\ Running(c)
    /\ command' = [command EXCEPT ![c] = "none"]
    /\ age' = [age EXCEPT ![c] = 0]

Succeed(c) == EndCommand(c) /\ redisUp /\ RecordSuccess /\ UNCHANGED <<redisUp, probeLost>>

(* An error reply, a lost connection or the operation's timeout.           *)
Fail(c) == EndCommand(c) /\ ~redisUp /\ RecordFailure /\ UNCHANGED <<redisUp, probeLost>>

(* The task is cancelled while it awaits Redis: neither method is called.  *)
CancelCommand(c) ==
    /\ EndCommand(c)
    /\ probeLost' = (probeLost \/ command[c] = "probe")
    /\ UNCHANGED <<state, failures, openAge, probing, redisUp>>

Finish(c) == Succeed(c) \/ Fail(c)

(* Mutant: commands are not under asyncio.timeout.                          *)
TickNoTimeout ==
    /\ age' = [c \in Callers |-> IF Running(c) THEN age[c] + 1 ELSE 0]
    /\ openAge' = IF state = "open" THEN AtMost(openAge + 1, OpenTicks) ELSE openAge
    /\ UNCHANGED <<state, failures, probing, command, redisUp, probeLost>>

(* Time passes, but no command outlives its asyncio.timeout.               *)
Tick ==
    /\ \A c \in Callers : Running(c) => age[c] < TimeoutTicks
    /\ age' = [c \in Callers |-> IF Running(c) THEN age[c] + 1 ELSE 0]
    /\ openAge' = IF state = "open" THEN AtMost(openAge + 1, OpenTicks) ELSE openAge
    /\ UNCHANGED <<state, failures, probing, command, redisUp, probeLost>>

(* The environment: Redis goes away or comes back.                         *)
RedisChanges ==
    /\ redisUp' = ~redisUp
    /\ UNCHANGED <<state, failures, openAge, probing, command, age, probeLost>>

BNext ==
    \/ \E c \in Callers : Admit(c) \/ Refuse(c) \/ Succeed(c) \/ Fail(c) \/ CancelCommand(c)
    \/ Tick
    \/ RedisChanges

(* Commands end (each is under asyncio.timeout), the clock advances, and   *)
(* requests keep arriving.  Nothing is assumed of Redis or of cancellation.*)
BFairness ==
    /\ \A c \in Callers : WF_bvars(Finish(c))
    /\ WF_bvars(Tick)
    /\ WF_bvars(\E c \in Callers : Admit(c))

BSpec == BInit /\ [][BNext]_bvars /\ BFairness

-----------------------------------------------------------------------------
(* Half-open, the probe is the only command in flight anywhere, and no     *)
(* probe outlives the half-open state: results of commands admitted before *)
(* the circuit opened can no longer decide a recovery.                     *)
ProbeAlone ==
    \A c \in Callers :
        /\ command[c] = "probe" => state = "half_open"
        /\ state = "half_open" /\ Running(c) =>
              command[c] = "probe" /\ \A d \in Callers : Running(d) => d = c

(* An open circuit goes quiet: once it has been open for longer than the   *)
(* operation timeout, no caller is still waiting for Redis.                *)
QuietWhileOpen ==
    state = "open" /\ openAge > TimeoutTicks => \A c \in Callers : ~Running(c)

(* A closed circuit has seen fewer than failure_threshold failures since   *)
(* the last success.                                                       *)
ClosedBelowThreshold == state = "closed" => failures < FailureThreshold

(* The in-flight flag of the half-open state is backed by a command that   *)
(* will clear it, unless a probe was cancelled.                            *)
ProbeFlagBacked ==
    probing /\ ~probeLost => \E c \in Callers : command[c] = "probe"

(* Once Redis stays up, the circuit closes for good, whatever is cancelled *)
(* except a probe.                                                         *)
RecoversUnlessProbeLost ==
    <>[]redisUp => <>[](state = "closed") \/ <>probeLost

(* No command runs and allow_request() refuses everyone.                   *)
Wedged == state = "half_open" /\ probing /\ \A c \in Callers : ~Running(c)

(* What a cancelled probe leaves behind is permanent: neither time nor a   *)
(* recovered Redis nor any sequence of calls ever admits a command again.  *)
WedgeIsPermanent == [][Wedged => Wedged']_bvars
=============================================================================
