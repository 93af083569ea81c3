----------------------------- MODULE LatestRead -----------------------------
(***************************************************************************)
(* What the viewer promises of each stream of reads (catalog, overview,    *)
(* detail), without a worker, a queue or a selection: requests carry       *)
(* increasing generations, only the newest one can ever be shown, what is  *)
(* shown is never replaced by something older, and every request is        *)
(* answered, superseded or withdrawn.                                      *)
(***************************************************************************)
EXTENDS Integers

VARIABLES
  issued,  \* the highest generation given out, to any stream
  wanted,  \* the generation this stream waits for, or 0
  shown    \* the generation this stream shows, or 0

readVars == <<issued, wanted, shown>>

ReadInit == issued \in Nat /\ wanted = 0 /\ shown = 0

\* Requests of other streams use up generations too.
Others == issued' >= issued

\* A request supersedes the one before it; what was shown may be withdrawn.
Ask ==
  /\ wanted' > issued
  /\ issued' >= wanted'
  /\ shown' \in {shown, 0}

Answer ==
  /\ wanted # 0
  /\ shown' = wanted
  /\ wanted' = 0
  /\ Others

Fail ==
  /\ wanted # 0
  /\ wanted' = 0
  /\ shown' = shown
  /\ Others

Withdraw ==
  /\ wanted' = 0
  /\ shown' = 0
  /\ Others

Elsewhere ==
  /\ Others
  /\ UNCHANGED <<wanted, shown>>

ReadNext == Ask \/ Answer \/ Fail \/ Withdraw \/ Elsewhere

ReadSpec == ReadInit /\ [][ReadNext]_readVars
=============================================================================
