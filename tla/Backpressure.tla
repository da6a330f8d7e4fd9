----------------------------- MODULE Backpressure -----------------------------
(***************************************************************************)
(* BackpressureStatus of crates/af-swarm-runtime/src/agent.rs: what the    *)
(* supervisor publishes and the orchestrator polls, and the two levels of  *)
(* pressure.  A threshold is the product of a limit and a ratio in f32,    *)
(* cut to an integer; the product and its rounding are modelled exactly.   *)
(* The fill of the buffer is in whole per cent.                            *)
(***************************************************************************)
EXTENDS Integers

CONSTANTS Limits,  \* values that active_agent_limit may have
          Fills    \* fill levels of the egress buffer, per cent

ASSUME BackpressureAssumption ==
    /\ \A limit \in Limits : limit \in Nat /\ limit < 16777216   \* f32 holds it
    /\ Fills \subseteq 0 .. 100 /\ 0 \in Fills

BackpressureStatus ==
    [active_agent_count : Nat, active_agent_limit : Limits,
     l3_egress_buffer_fill_pct : Fills, pending_hydrations : Nat]

------------------------------------------------------------------------------
(* f32: 24 significant bits *)

(* Values of the lowest bit, as far as a limit that is an f32 itself needs. *)
Units == {1, 2, 4, 8, 16, 32, 64, 128, 256, 512, 1024, 2048, 4096, 8192, 16384,
          32768, 65536, 131072, 262144, 524288, 1048576, 2097152, 4194304,
          8388608, 16777216}

(* The lowest bit of n has this value when 24 bits are kept. *)
IsUnit(u, n) == n \div u < 16777216 /\ (u = 1 \/ 8388608 * u <= n)

Unit(n) == CHOOSE u \in Units : IsUnit(u, n)

RoundedDown(n) == n - (n % Unit(n))

(* n to the nearest number of 24 bits and, from halfway, to the even one. *)
Rounded(n) ==
    LET u == Unit(n)
        r == n % u
    IN  IF 2 * r < u \/ (2 * r = u /\ (n \div u) % 2 = 0) THEN n - r ELSE n - r + u

(* THROTTLE_AGENT_RATIO and CRITICAL_AGENT_RATIO, 0.80 and 0.95, times 2^24 *)
THROTTLE_AGENT_RATIO == 13421773
CRITICAL_AGENT_RATIO == 15938355

(* (active_agent_limit as f32 * ratio) as usize *)
Product(limit, ratio) == Rounded(limit * ratio) \div 16777216

ThresholdRoundedUp(limit) == (limit * 4 + 4) \div 5
ThrottleThreshold(limit) == Product(limit, THROTTLE_AGENT_RATIO)
CriticalThreshold(limit) == Product(limit, CRITICAL_AGENT_RATIO)

ShouldThrottle(status) ==
    \/ status.active_agent_count > ThrottleThreshold(status.active_agent_limit)
    \/ status.l3_egress_buffer_fill_pct > 85

IsCritical(status) ==
    \/ status.active_agent_count > CriticalThreshold(status.active_agent_limit)
    \/ status.l3_egress_buffer_fill_pct > 95
==============================================================================
