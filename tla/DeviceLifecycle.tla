-------------------------- MODULE DeviceLifecycle --------------------------
(***************************************************************************)
(* A device over its life: it is linked, perhaps again, and opened as a    *)
(* client that syncs the account's lists.  The two meet on disk: Open      *)
(* needs the account Link saved, takes its entropy pool, and loads what    *)
(* the transfer archive brought.                                           *)
(***************************************************************************)
EXTENDS StorageSync, LinkDevice

lifeVars == <<storageVars, linkVars>>

LifeInit ==
    /\ StorageInit
    /\ savedPool = 0
    /\ imported = {}
    /\ LinkInit

\* The items a frame of the archive may bring.  Bound: with a contact's oldest
\* profile key.
ArchiveItems == {i \in Relevant(Items) : i.pool = 1 /\ (i.type = "contact" => i.key = 1)}

\* Link runs while no client is open.  The account is saved with the pool of
\* the provisioning message, which an older primary leaves empty; each imported
\* frame is an entry.
Linking ==
    /\ phase = "closed" /\ restarts = 0
    /\ remote.version = 0
    /\ LinkNext
    /\ IF account' = account THEN UNCHANGED savedPool
       ELSE savedPool' \in {0, remote.pool}
    /\ IF contacts' = contacts THEN UNCHANGED imported
       ELSE \E i \in ArchiveItems : imported' = imported \cup {i}
    /\ UNCHANGED <<remote, inbound, phase, pool, listVars, profileVars, callVars,
                   faults, restarts>>

\* The client runs, in a process of its own.  Open finds an account or returns
\* ErrNotLinked.  Bound: the client is opened after a Link nothing disturbed,
\* and the account is not linked again after that.
Running ==
    /\ StorageNext
    /\ link = "linked" /\ attempt = 1 /\ linkFaults = 0
    /\ count' = 0 /\ andSync' = FALSE
    /\ addrCh' = FALSE /\ envCh' = "none" /\ errCh' = FALSE /\ wsUp' = FALSE
    /\ waited' = 0 /\ archive' = "none" /\ frame' = 0
    /\ UNCHANGED <<attempt, link, linkFaults, serverVars, linkDisk, contacts,
                   identities>>

LifeNext == Linking \/ Running

LifeSpec == LifeInit /\ [][LifeNext]_lifeVars

\* Goroutines of the client and a running Link go on.
LifeFairSpec ==
    /\ LifeSpec
    /\ WF_lifeVars(LinkStep /\ Linking)
    /\ \A c \in Calls : WF_lifeVars(SyncStep(c) /\ Running)

LifeTypeOK == StorageTypeOK /\ LinkTypeOK
============================================================================
