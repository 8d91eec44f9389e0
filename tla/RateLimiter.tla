---------------------------- MODULE RateLimiter ----------------------------
(***************************************************************************)
(* RateLimiter::wait(), which both REST clients call before every request; *)
(* the two copies in the source are the same.  A call is one critical      *)
(* section, or two with a sleep between them during which the mutex is     *)
(* free.  Time is counted in milliseconds.  The stamps come from           *)
(* system_clock, which may be set; sleep_for() goes by a steady clock.     *)
(***************************************************************************)
EXTENDS Integers, Sequences, FiniteSets

CONSTANTS
    Threads,          \* threads that share one REST client
    localLimit,       \* requests per window
    windowSizeMs,     \* length of the window
    Margin,           \* what is added to the sleep (10 ms in the code)
    MaxOffset,        \* the system clock is set at most this far ahead
    MaxTime,          \* bound: how far the steady clock runs
    MaxReleases       \* bound: requests released in a behaviour

ASSUME ParameterAssumption ==
    /\ localLimit \in Nat \ {0} /\ windowSizeMs \in Nat \ {0} /\ Margin \in Nat \ {0}
    /\ MaxOffset \in Nat /\ MaxTime \in Nat /\ MaxReleases \in Nat

VARIABLES
    requestTimes,     \* the deque of stamps
    steady,           \* the steady clock
    offset,           \* system clock = steady + offset
    pc,               \* per thread: outside wait(), or sleeping in it
    now,              \* per thread: the stamp it took on entry
    wakeAt,           \* per thread: when its sleep ends at the earliest
    released,         \* history: when calls of wait() returned, by the steady clock
    adjusted          \* history: the system clock has been off the steady one

vars == <<requestTimes, steady, offset, pc, now, wakeAt, released, adjusted>>

TypeOK ==
    /\ requestTimes \in Seq(Nat)
    /\ steady \in Nat
    /\ offset \in 0 .. MaxOffset
    /\ pc \in [Threads -> {"idle", "sleeping"}]
    /\ now \in [Threads -> Nat]
    /\ wakeAt \in [Threads -> Int]
    /\ released \in Seq(Nat)
    /\ adjusted \in BOOLEAN

Init ==
    /\ requestTimes = <<>>
    /\ steady = 0
    /\ offset \in 0 .. MaxOffset
    /\ pc = [t \in Threads |-> "idle"]
    /\ now = [t \in Threads |-> 0]
    /\ wakeAt = [t \in Threads |-> 0]
    /\ released = <<>>
    /\ adjusted = (offset # 0)

system_clock == steady + offset

Expired(stamp) == system_clock - stamp > windowSizeMs

\* Entries are popped from the front up to the first that has not expired; an
\* expired entry behind it stays.
FirstLive ==
    LET live == {i \in 1 .. Len(requestTimes) : ~Expired(requestTimes[i])}
    IN  IF live = {} THEN Len(requestTimes) + 1
                     ELSE CHOOSE i \in live : \A j \in live : i <= j

Pruned == SubSeq(requestTimes, FirstLive, Len(requestTimes))

\* Mutant: the age of the oldest entry is added instead of subtracted.
waitTime_Swapped == system_clock - Head(Pruned) + windowSizeMs + Margin

waitTime == Head(Pruned) + windowSizeMs - system_clock + Margin

\* Mutant: the limit itself still passes without waiting.
MustWait_OffByOne == Len(Pruned) > localLimit /\ waitTime > 0

MustWait == Len(Pruned) >= localLimit /\ waitTime > 0

\* The stamp goes into the deque and the call returns.
Record(stamps, stamp) ==
    /\ Len(released) < MaxReleases
    /\ requestTimes' = Append(stamps, stamp)
    /\ released' = Append(released, steady)

WaitReturns(t) ==
    /\ pc[t] = "idle" /\ ~MustWait
    /\ now' = [now EXCEPT ![t] = system_clock]
    /\ Record(Pruned, system_clock)
    /\ UNCHANGED <<steady, offset, pc, wakeAt, adjusted>>

WaitSleeps(t) ==
    /\ pc[t] = "idle" /\ MustWait
    /\ now' = [now EXCEPT ![t] = system_clock]
    /\ requestTimes' = Pruned
    /\ pc' = [pc EXCEPT ![t] = "sleeping"]
    /\ wakeAt' = [wakeAt EXCEPT ![t] = steady + waitTime]
    /\ UNCHANGED <<steady, offset, released, adjusted>>

\* After the sleep nothing is looked at again: the stamp taken on entry goes in.
WaitWakes(t) ==
    /\ pc[t] = "sleeping" /\ steady >= wakeAt[t]
    /\ Record(requestTimes, now[t])
    /\ pc' = [pc EXCEPT ![t] = "idle"]
    /\ UNCHANGED <<steady, offset, now, wakeAt, adjusted>>

Tick ==
    /\ steady < MaxTime
    /\ steady' = steady + 1
    /\ UNCHANGED <<requestTimes, offset, pc, now, wakeAt, released, adjusted>>

ClockSet ==
    /\ offset' \in 0 .. MaxOffset
    /\ adjusted' = (adjusted \/ offset' # 0)
    /\ UNCHANGED <<requestTimes, steady, pc, now, wakeAt, released>>

Next == \/ \E t \in Threads : WaitReturns(t) \/ WaitSleeps(t) \/ WaitWakes(t)
        \/ Tick \/ ClockSet

Spec == Init /\ [][Next]_vars

\* The connector's login() makes a new REST client between calls; its limiter has
\* seen no request, although the exchange has.
Login ==
    /\ \A t \in Threads : pc[t] = "idle"
    /\ requestTimes' = <<>>
    /\ UNCHANGED <<steady, offset, pc, now, wakeAt, released, adjusted>>

\* The limiter of a connector that logs in again: OneOverLimit does not hold of it.
LoginSpec == Init /\ [][Next \/ Login]_vars

-----------------------------------------------------------------------------
(* Properties.                                                             *)

\* The calls that returned less than a window ago.
InWindow == {i \in 1 .. Len(released) : steady - released[i] < windowSizeMs}

AtMostOneOver == Cardinality(InWindow) <= localLimit + 1

\* A single thread, as long as nobody sets the clock, exceeds the limit by at most
\* one request, although a caller that slept records the stamp of its entry, so
\* that its request is forgotten a whole wait too early.
OneOverLimit == ~adjusted => AtMostOneOver

\* However often the system clock is set while it sleeps, and whatever stamps it
\* finds, a caller is never told to sleep longer than a window, the margin and
\* the amount by which the clock may have been set back.
SleepBounded ==
    \A t \in Threads : pc[t] = "sleeping" =>
        wakeAt[t] <= steady + windowSizeMs + Margin + MaxOffset

-----------------------------------------------------------------------------
(* What the documentation says and the code does not do.                   *)

\* At most localLimit requests leave in any window.
LimitKept == Cardinality(InWindow) <= localLimit
=============================================================================
