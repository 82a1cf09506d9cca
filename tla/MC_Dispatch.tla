---------------------------- MODULE MC_Dispatch -----------------------------
(* Small rule sets on which TLC explores Dispatch. *)
EXTENDS Dispatch

CONSTANTS r1, r2, a, b, c, f, tm

\* Event a starts r1 (with lookups) and then r2, which emits b; b starts r2
\* again, until the depth limit; fact f starts r1; timer tm emits c, which
\* starts nothing.
CascadeMatching == [k \in {a, b, c, f, tm} |->
    CASE k = a -> <<r1, r2>>
      [] k = b -> <<r2>>
      [] k = f -> <<r1>>
      [] OTHER -> <<>>]
CascadeActions == [r \in {r1, r2} |-> IF r = r1 THEN <<Other>> ELSE <<b>>]
CascadeExpire == [k \in {tm} |-> c]

\* Event a starts r2, which emits b, which starts r1: no loop.
PlainMatching == [k \in {a, b} |-> IF k = a THEN <<r2>> ELSE <<r1>>]

NoTimers == <<>>
=============================================================================
