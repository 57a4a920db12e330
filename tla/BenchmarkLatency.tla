-------------------------- MODULE BenchmarkLatency --------------------------
(***************************************************************************)
(* calc_time_diff_ns of rtos_benchmark: the time between the stamp a       *)
(* sensor puts into its message and the moment the message is received,    *)
(* both read from the monotonic clock, in the C type long.                 *)
(*                                                                         *)
(* A long of 32 bits holds 2.1 s.  One second is 10^9 ns; the model scales *)
(* both down.                                                              *)
(* Overflow is undefined in C; this is what builds that wrap around do.    *)
(***************************************************************************)
EXTENDS Integers

CONSTANTS
    NS_PER_SEC,             \* 1000000000
    LONG_MAX,               \* of the build: 2^31 - 1 or 2^63 - 1
    MaxSec                  \* bound: seconds a time stamp may hold

VARIABLE send_time          \* the stamp of the message that is received

ASSUME LatencyAssumption ==
    NS_PER_SEC \in Nat \ {0} /\ LONG_MAX \in Nat /\ MaxSec \in Nat

timespec == [tv_sec : 0 .. MaxSec, tv_nsec : 0 .. NS_PER_SEC - 1]

\* What is left of integer x in a long.
Modulus == 2 * (LONG_MAX + 1)
long(x) == ((x + LONG_MAX + 1) % Modulus) - LONG_MAX - 1

nanoseconds(t) == t.tv_sec * NS_PER_SEC + t.tv_nsec

\* A slip the property notices: no borrow from the seconds.
NoBorrow(start, end) ==
    LET sec_diff  == long(end.tv_sec - start.tv_sec)
        nsec_diff == IF end.tv_nsec < start.tv_nsec THEN 0 ELSE end.tv_nsec - start.tv_nsec
    IN  long(long(sec_diff * NS_PER_SEC) + nsec_diff)

calc_time_diff_ns(start, end) ==
    LET sec_diff  == long(end.tv_sec - start.tv_sec)
        nsec_diff == long(end.tv_nsec - start.tv_nsec)
    IN  long(long(sec_diff * NS_PER_SEC) + nsec_diff)

\* One message after another, stamped at any time.
LatencyInit == send_time \in timespec
LatencyNext == send_time' \in timespec
LatencySpec == LatencyInit /\ [][LatencyNext]_send_time

\* A latency that a long can hold is reported exactly, although the product of
\* the seconds may already have run over and the nanoseconds may be fewer at
\* the end than at the start (sensor_heavy_instrumented.c:23-27, 128).
LatencyExact ==
    \A recv_time \in timespec :
        LET elapsed == nanoseconds(recv_time) - nanoseconds(send_time)
        IN  elapsed \in 0 .. LONG_MAX => calc_time_diff_ns(send_time, recv_time) = elapsed
=============================================================================
