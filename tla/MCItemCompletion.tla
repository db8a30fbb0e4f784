-------------------------- MODULE MCItemCompletion --------------------------
EXTENDS ItemCompletion, TLC

CONSTANTS p, q

Ask(cmd, policy, flags) == [cmd |-> cmd, policy |-> policy, flags |-> flags]
All == Gates \cup {"dirty"}

\* One process completes by each policy that commits, overriding every gate, or
\* uncommitted files as well; the other completes without an override, or it
\* starts, blocks and resets.
Commands ==
  (p :> {Ask("complete", "separate", Gates), Ask("complete", "defer", All)})
  @@ (q :> {Ask("complete", "separate", {}), Ask("complete", "none", {}),
            Ask("start", "separate", {}), Ask("block", "defer", {}),
            Ask("reset", "none", {})})
=============================================================================
