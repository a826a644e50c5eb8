---------------------------- MODULE RateLimiter ----------------------------
(***************************************************************************)
(* The limiter of one LLM provider in one process (src/rate_limiter.py): a *)
(* daily counter of tokens with reservations for the calls in flight, and  *)
(* a bucket of calls per minute.  guard() reserves before the call and     *)
(* releases after it; what the call really used is recorded separately,    *)
(* inside the guard or after it.  The counter starts again at the first    *)
(* use of a new day, whatever is in flight then.                           *)
(***************************************************************************)
EXTENDS Integers, FiniteSetsExt

CONSTANTS
    Guarded,            \* calls, each made at most once
    HardLimit,          \* tokens_per_day_hard_limit
    PerCall,            \* max_tokens_per_call: the largest estimate
    PerMinute,          \* calls_per_minute
    MostUsed,           \* bound: tokens a call really uses
    LastDate            \* bound: days

ASSUME RateLimiterAssumption ==
    /\ IsFiniteSet(Guarded)
    /\ HardLimit \in Nat /\ PerCall \in Nat \ {0} /\ PerMinute \in Nat \ {0}
    /\ MostUsed \in Nat /\ LastDate \in Nat

VARIABLES
    date,               \* date.today()
    daily,              \* the DailyCounter
    llm_calls,          \* call -> its stage, its estimate and when it reserved
    bucket,             \* calls of the last minute
    api_usage,          \* tokens in the table, by day
    stolen,             \* reservations of this day that older calls released
    unreserved          \* tokens counted this day that were not reserved for

limiterVars == <<date, daily, llm_calls, bucket, api_usage, stolen, unreserved>>

NoLlmCall == [stage |-> "idle", estimate |-> 0, reserved_on |-> 0, used |-> 0, counted |-> FALSE]
Amounts == 0 .. (Cardinality(Guarded) * (PerCall + MostUsed) + HardLimit)

RateLimiterTypeOK ==
    /\ date \in 0 .. LastDate
    /\ daily \in [date : 0 .. LastDate, total_tokens : Amounts, reserved : Amounts]
    /\ llm_calls \in [Guarded -> [stage : {"idle", "refused", "waiting", "calling", "left", "over"},
                                  estimate : 0 .. PerCall, reserved_on : 0 .. LastDate,
                                  used : 0 .. MostUsed, counted : BOOLEAN]]
    /\ bucket \in 0 .. PerMinute
    /\ api_usage \in [0 .. LastDate -> Amounts]
    /\ stolen \in Amounts /\ unreserved \in Amounts

RateLimiterInit ==
    /\ date = 0 /\ daily = [date |-> 0, total_tokens |-> 0, reserved |-> 0]
    /\ llm_calls = [c \in Guarded |-> NoLlmCall]
    /\ bucket = 0 /\ api_usage = [d \in 0 .. LastDate |-> 0]
    /\ stolen = 0 /\ unreserved = 0

InFlightToday == {c \in Guarded : llm_calls[c].stage \in {"waiting", "calling"}
                                  /\ llm_calls[c].reserved_on = daily.date}

(* The sum of the estimates of calls: one pair for each token they reserve. *)
reserved_for(S) == {x \in S \X (1 .. PerCall) : x[2] <= llm_calls[x[1]].estimate}
estimates(S) == Cardinality(reserved_for(S))

-----------------------------------------------------------------------------
(* The counter, each operation under its lock                              *)

NewDay == daily.date # date
reset_if_new_day == IF NewDay THEN [date |-> date, total_tokens |-> 0, reserved |-> 0] ELSE daily

(* What the day's history is when the counter has been brought up to date. *)
of_today(n) == IF NewDay THEN 0 ELSE n
keeps_history == stolen' = of_today(stolen) /\ unreserved' = of_today(unreserved)

(* A variant: the tokens reserved by calls in flight are left out.         *)
exceeds_committed(n) == reset_if_new_day.total_tokens + n > HardLimit

exceeds(n) == reset_if_new_day.total_tokens + reset_if_new_day.reserved + n > HardLimit

_check_per_call_limit(n) == n <= PerCall

(* The check and the reservation; a refusal raises, the reset stays.       *)
check_and_reserve(c, n) ==
    /\ llm_calls[c].stage = "idle" /\ _check_per_call_limit(n)
    /\ daily' = IF exceeds(n) THEN reset_if_new_day
                ELSE [reset_if_new_day EXCEPT !.reserved = @ + n]
    /\ llm_calls' = [llm_calls EXCEPT ![c] =
          IF exceeds(n) THEN [@ EXCEPT !.stage = "refused"]
          ELSE [@ EXCEPT !.stage = "waiting", !.estimate = n, !.reserved_on = date]]
    /\ keeps_history
    /\ UNCHANGED <<date, bucket, api_usage>>

(* In guard's finally: no reset, and never below zero.                     *)
release_reservation(c) ==
    /\ daily' = [daily EXCEPT !.reserved = Max({0, @ - llm_calls[c].estimate})]
    /\ stolen' = IF c \in InFlightToday THEN stolen
                 ELSE stolen + Min({daily.reserved, llm_calls[c].estimate})

(* A call that reserved nothing this day, or has released it already, or   *)
(* used more than it reserved.                                             *)
beyond(c, n) ==
    IF c \in InFlightToday /\ ~NewDay THEN Max({0, n - llm_calls[c].estimate}) ELSE n

add(c, n) ==
    /\ daily' = [reset_if_new_day EXCEPT !.total_tokens = @ + n]
    /\ stolen' = of_today(stolen)
    /\ unreserved' = of_today(unreserved) + beyond(c, n)

-----------------------------------------------------------------------------
(* A guarded call                                                          *)

(* The bucket of calls per minute has room.                                *)
guard_enters(c) ==
    /\ llm_calls[c].stage = "waiting" /\ bucket < PerMinute
    /\ bucket' = bucket + 1
    /\ llm_calls' = [llm_calls EXCEPT ![c].stage = "calling"]
    /\ UNCHANGED <<date, daily, api_usage, stolen, unreserved>>

(* The call returns or fails, or is cancelled, also while it waits.        *)
guard_exits(c) ==
    /\ llm_calls[c].stage \in {"waiting", "calling"}
    /\ release_reservation(c)
    /\ llm_calls' = [llm_calls EXCEPT ![c].stage =
                        IF @ = "calling" /\ ~llm_calls[c].counted THEN "left" ELSE "over"]
    /\ UNCHANGED <<date, bucket, api_usage, unreserved>>

(* The first half: the counter.                                            *)
record_actual_usage(c, n) ==
    /\ llm_calls[c].stage \in {"calling", "left"} /\ ~llm_calls[c].counted
    /\ add(c, n)
    /\ llm_calls' = [llm_calls EXCEPT ![c].used = n, ![c].counted = TRUE]
    /\ UNCHANGED <<date, bucket, api_usage>>

(* The second: the row.  Its failure is logged; used = 0 when it is done.  *)
record_api_usage(c) ==
    /\ llm_calls[c].counted /\ llm_calls[c].used > 0
    /\ \/ api_usage' = [api_usage EXCEPT ![date] = @ + llm_calls[c].used]
       \/ UNCHANGED api_usage
    /\ llm_calls' = [llm_calls EXCEPT ![c].used = 0]
    /\ UNCHANGED <<date, daily, bucket, stolen, unreserved>>

(* Snapshots: the check before a call of an agent's node, and the health   *)
(* routes.  Neither reserves anything; both bring the counter up to date.  *)
preflight_budget_check == daily' = reset_if_new_day
get_daily_status == daily' = reset_if_new_day

snapshot ==
    /\ NewDay
    /\ preflight_budget_check \/ get_daily_status
    /\ keeps_history
    /\ UNCHANGED <<date, llm_calls, bucket, api_usage>>

-----------------------------------------------------------------------------
drained ==
    /\ bucket > 0 /\ bucket' = bucket - 1
    /\ UNCHANGED <<date, daily, llm_calls, api_usage, stolen, unreserved>>

date_changes ==
    /\ date < LastDate /\ date' = date + 1
    /\ UNCHANGED <<daily, llm_calls, bucket, api_usage, stolen, unreserved>>

RateLimiterNext ==
    \/ \E c \in Guarded :
          \/ \E n \in 1 .. PerCall : check_and_reserve(c, n)
          \/ guard_enters(c) \/ guard_exits(c)
          \/ \E n \in 0 .. MostUsed : record_actual_usage(c, n)
          \/ record_api_usage(c)
    \/ snapshot \/ drained \/ date_changes

RateLimiterSpec == RateLimiterInit /\ [][RateLimiterNext]_limiterVars

-----------------------------------------------------------------------------
(* What the counter holds reserved is what the calls in flight reserved    *)
(* this day, less what calls of an earlier day released from it after the  *)
(* counter had started again (src/rate_limiter.py:114-153).                *)
ReservedForCalls ==
    LET inFlight == estimates(InFlightToday)
    IN  daily.reserved <= inFlight /\ inFlight <= daily.reserved + stolen

(* However many calls are guarded at a time, the tokens counted in a day   *)
(* and those the calls in flight reserved for stay within the hard limit,  *)
(* but for tokens nothing was reserved for (more than the estimate,        *)
(* recorded after the guard, or by a call of the day before) and for       *)
(* reservations such a call took away (src/rate_limiter.py:126-148).       *)
WithinHardLimit ==
    daily.total_tokens + estimates({c \in InFlightToday : ~llm_calls[c].counted})
       <= HardLimit + unreserved + stolen

(* The counter of a provider is exact about calls in flight and keeps the  *)
(* day's tokens within the limit, also over midnight                       *)
(* (src/rate_limiter.py 100-330).                                          *)
LimiterInvariant ==
    /\ RateLimiterTypeOK
    /\ ReservedForCalls
    /\ WithinHardLimit

=============================================================================
