--------------------------- MODULE MCGroupChange ---------------------------
EXTENDS GroupChange, TLC
CONSTANTS c1, c2, alice, bob
Symmetry == Permutations({c1, c2})

\* The logs carry no states, so that SyncGroup fetches the group itself.
MCInit == ChangeInit /\ ~snapshots
MCSpec == MCInit /\ [][ChangeNext]_groupChangeVars

\* What the steps and the properties still read of a call: the change it asks
\* for until it is accepted, then whether it was permitted; the state in hand
\* while it is to be used.  At the last revision nothing more is accepted, and
\* a change only matters for how it is refused.  Of the history, the newest revision and those that
\* are still to be checked.
Over(s) == pc[s] \in {"done", "failed"}

Asked(s) ==
    IF applied[s] # None
    THEN <<kind[s], applied[s], notice[s], Permits(hist[applied[s] - 1], kind[s], change[s])>>
    ELSE IF Over(s) THEN <<>>
    ELSE IF rev = MaxRev THEN <<kind[s], change[s].version, Already(s)>>
    ELSE <<kind[s], change[s]>>

InUse(s) ==
    IF Over(s) THEN <<>>
    ELSE <<then[s], IF pc[s] = "patch" THEN None ELSE got[s],
           IF pc[s] = "logs" THEN <<cursor[s], pages[s]>> ELSE <<>> >>

ToCheck ==
    {r \in 0..rev : \/ r = rev
                    \/ \E s \in Calls : /\ pc[s] \in {"fetched", "check", "present"}
                                        /\ applied[s] = None
                                        /\ got[s] = r}

View == <<exists, rev, [r \in ToCheck |-> hist[r]], floor, snapshots, advertised, faults,
          cacheVars, [s \in Calls |-> <<pc[s], Asked(s), InUse(s)>>]>>
=============================================================================
