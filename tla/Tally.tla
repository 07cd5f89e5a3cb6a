-------------------------------- MODULE Tally --------------------------------
(* Adding up what was counted at the instants 0, 1, 2 and so on. *)
EXTENDS Integers

\* count[0] + ... + count[i], and 0 before the first instant.
Through(count, i) ==
    LET sum[k \in DOMAIN count] ==
            IF k = 0 THEN count[0] ELSE sum[k - 1] + count[k]
    IN IF i < 0 THEN 0 ELSE sum[i]

\* What was counted after instant i, up to instant j.
After(count, i, j) == Through(count, j) - Through(count, i)
==============================================================================
