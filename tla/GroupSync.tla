----------------------------- MODULE GroupSync -----------------------------
(***************************************************************************)
(* pkg/signal/group.go, group_logs.go, group_revision.go: one Groups v2    *)
(* chat as the storage service keeps it, the client's caches of it, and    *)
(* the concurrent calls that refresh them: FetchGroup, SyncGroup and the   *)
(* goroutine maybeAutoSyncGroupUpdate starts for an inbound update.        *)
(*                                                                         *)
(* A snapshot of the group is the revision it was taken at: hist[r] is the *)
(* state at revision r, rev the newest.  A request and the application of  *)
(* its answer are two steps; other calls run between them.                 *)
(***************************************************************************)
EXTENDS Integers

CONSTANTS Calls,      \* goroutines
          ACIs, Self, \* accounts; the local one
          Timers,     \* disappearing-message timers a group may have, 0 for off
          MaxRev,     \* bound: revisions of the group
          MaxFaults,  \* bound: failed requests
          MaxPages,   \* SyncGroup's limit of log pages
          PageSize,   \* the service's limit of changes per page
          Endorses    \* whether the service issues send endorsements

ASSUME GroupAssumption ==
    /\ Self \in ACIs
    /\ 0 \in Timers /\ Timers \subseteq Nat
    /\ MaxRev \in Nat
    /\ MaxFaults \in Nat
    /\ MaxPages \in Nat \ {0}
    /\ PageSize \in Nat \ {0}
    /\ Endorses \in BOOLEAN

VARIABLES
    rev, hist,      \* the service: newest revision, state at each
    floor,          \* the service: oldest revision its logs still hold
    snapshots,      \* the service puts a groupState into its log pages
    advertised,     \* revisions of group updates still to be dispatched
    faults,
    groupRevision,  \* Client.groupRevision, 0 when absent
    expireTimer,    \* Client.expireTimers
    endorsed,       \* members Client.groupEndorsements covers
    pc, kind,       \* program counter of each call, the operation it runs
    then,           \* where its FetchGroup returns to
    from,           \* SyncGroup's fromRevision
    cursor, pages,  \* SyncGroup's revision and pageNum
    got,            \* the snapshot in hand (latestWire), None for nil
    began           \* history: rev when the call began

serviceVars == <<rev, hist, floor, snapshots>>
cacheVars == <<groupRevision, expireTimer, endorsed>>
pageVars == <<from, cursor, pages>>
callVars == <<pc, kind, then, pageVars, got, began>>
groupVars == <<serviceVars, advertised, faults, cacheVars, callVars>>

None == -1
Revs == 0..MaxRev
Snapshots == Revs \cup {None}

Roles == {"none", "requesting", "pending", "default", "admin"}
Links == {"off", "any", "approval"}
GroupStates == [role : [ACIs -> Roles], timer : Timers, link : Links]

\* The decoded members: neither the invited nor those who asked to join.
Members(g) == {a \in ACIs : g.role[a] \in {"default", "admin"}}

\* Group.IsAdmin, Group.Admins
IsAdmin(g, a) == g.role[a] = "admin"

Now == hist[rev]

SyncKinds == {"fetch", "sync", "auto"}
SyncLabels == {"idle", "fetch", "fetched", "logs", "nested", "synced", "store",
               "done", "failed"}

\* The types of the variables, with what holds of every snapshot in hand.
GroupTypeOK ==
    /\ rev \in Revs
    /\ hist \in [Revs -> GroupStates]
    /\ floor \in Revs
    /\ snapshots \in BOOLEAN
    /\ advertised \in SUBSET Revs
    /\ faults \in 0..MaxFaults
    /\ groupRevision \in Revs
    /\ expireTimer \in Timers
    /\ endorsed \in SUBSET ACIs
    /\ from \in [Calls -> Revs]
    /\ cursor \in [Calls -> Revs]
    /\ pages \in [Calls -> 0..MaxPages]
    /\ got \in [Calls -> Snapshots]
    /\ began \in [Calls -> Revs]

SyncTypeOK ==
    /\ GroupTypeOK
    /\ pc \in [Calls -> SyncLabels]
    /\ kind \in [Calls -> SyncKinds]
    /\ then \in [Calls -> {"done", "store"}]

\* A group at revision 0 with these roles; nothing is cached.
GroupInit(roles) ==
    /\ rev = 0
    /\ hist = [n \in Revs |-> [role |-> roles, timer |-> 0, link |-> "off"]]
    /\ floor = 0
    /\ snapshots \in BOOLEAN
    /\ advertised = {}
    /\ faults = 0
    /\ groupRevision = 0
    /\ expireTimer = 0
    /\ endorsed = {}
    /\ pc = [s \in Calls |-> "idle"]
    /\ kind = [s \in Calls |-> "fetch"]
    /\ then = [s \in Calls |-> "done"]
    /\ from = [s \in Calls |-> 0]
    /\ cursor = [s \in Calls |-> 0]
    /\ pages = [s \in Calls |-> 0]
    /\ got = [s \in Calls |-> None]
    /\ began = [s \in Calls |-> 0]

Goto(s, label) == pc' = [pc EXCEPT ![s] = label]

-----------------------------------------------------------------------------
(* The storage service (external). *)

\* A change is accepted.  The members are told of it by a message of its
\* author, which the client will dispatch.
Accept(g) ==
    /\ rev < MaxRev
    /\ rev' = rev + 1
    /\ hist' = [hist EXCEPT ![rev + 1] = g]

\* Another member changes the group; a new title leaves g as it was.
OthersChange(g) ==
    /\ Accept(g)
    /\ advertised' = IF Self \in Members(Now) \cup Members(g)
                     THEN advertised \cup {rev + 1} ELSE advertised
    /\ UNCHANGED <<floor, snapshots, faults, cacheVars, callVars>>

\* The service drops its oldest log entry.
Prune ==
    /\ floor < rev
    /\ floor' = floor + 1
    /\ UNCHANGED <<rev, hist, snapshots, advertised, faults,
                   cacheVars, callVars>>

-----------------------------------------------------------------------------
(* The client's caches. *)

\* Mutant: the cache takes whatever a call brings.
StoreUnconditionally(r) == groupRevision' = r

storeGroupRevision(r) ==
    groupRevision' = IF r > groupRevision THEN r ELSE groupRevision

deleteGroupRevision == groupRevision' = 0

\* storeGroupSendEndorsements, if the answer has any; its failure is only
\* logged.  The last answer applied wins.
storeGroupSendEndorsements(r) ==
    endorsed' \in {endorsed} \cup IF Endorses THEN {Members(hist[r])} ELSE {}

-----------------------------------------------------------------------------
(* FetchGroup *)

\* A new call, which starts at label and returns from FetchGroup to ret.
Begin(s, k, label, ret) ==
    /\ pc[s] = "idle"
    /\ Goto(s, label)
    /\ kind' = [kind EXCEPT ![s] = k]
    /\ then' = [then EXCEPT ![s] = ret]

\* A request of call s fails without a 403: the network, a server error, the
\* credentials.
Fault(s) ==
    /\ pc[s] \in {"fetch", "nested", "logs"}
    /\ faults < MaxFaults
    /\ faults' = faults + 1
    /\ Goto(s, "failed")
    /\ UNCHANGED <<serviceVars, advertised, cacheVars, kind, then,
                   pageVars, got, began>>

\* GET /v2/groups, answered to members only; anyone else gets a 403, which
\* ends the call unless the request is the one SyncGroup makes (SyncRefused).
FetchGroupState(s) ==
    /\ pc[s] \in {"fetch", "nested"}
    /\ \/ /\ Self \in Members(Now)
          /\ got' = [got EXCEPT ![s] = rev]
          /\ Goto(s, "fetched")
       \/ /\ Self \notin Members(Now)
          /\ pc[s] = "fetch"
          /\ Goto(s, "failed")
          /\ UNCHANGED got
    /\ UNCHANGED <<serviceVars, advertised, faults, cacheVars, kind, then,
                   pageVars, began>>

\* The caches FetchGroup fills.  A timer that was switched off stays cached.
FetchGroup(s) ==
    /\ pc[s] = "fetched"
    /\ storeGroupSendEndorsements(got[s])
    /\ storeGroupRevision(got[s])
    /\ expireTimer' = IF hist[got[s]].timer > 0 THEN hist[got[s]].timer
                      ELSE expireTimer
    /\ Goto(s, then[s])
    /\ UNCHANGED <<serviceVars, advertised, faults, kind, then,
                   pageVars, got, began>>

BeganNow(s) == began' = [began EXCEPT ![s] = rev]

StartFetch(s) ==
    /\ Begin(s, "fetch", "fetch", "done")
    /\ BeganNow(s)
    /\ UNCHANGED <<serviceVars, advertised, faults, cacheVars, pageVars, got>>

-----------------------------------------------------------------------------
(* SyncGroup *)

\* The bot's GroupUpdate.Sync of the update that advertised r.
SyncFrom(r) == IF r > 0 THEN r - 1 ELSE r

StartSync(s, r) ==
    /\ Begin(s, "sync", "logs", "done")
    /\ BeganNow(s)
    /\ r <= rev
    /\ from' = [from EXCEPT ![s] = SyncFrom(r)]
    /\ cursor' = [cursor EXCEPT ![s] = SyncFrom(r)]
    /\ UNCHANGED <<serviceVars, advertised, faults, cacheVars, pages, got>>

\* GET /v2/groups/logs/{from} is refused: not a member, or pruned.
Forbidden(s) == Self \notin Members(Now) \/ cursor[s] < floor

\* The last revision of the page, whose entry carries the state.
PageEnd(s) == IF cursor[s] + PageSize - 1 < rev THEN cursor[s] + PageSize - 1 ELSE rev

\* Mutant: the end of the range is taken to be exclusive.
NextRevisionOvershoots(s) == PageEnd(s) + 2

\* NextGroupLogRevision
NextRevision(s) == PageEnd(s) + 1

\* Mutant: the loop over the pages ends one page early.
MorePagesShort(s) == PageEnd(s) < rev /\ pages[s] + 2 < MaxPages

MorePages(s) == PageEnd(s) < rev /\ pages[s] + 1 < MaxPages

\* One page of the logs.  When none had a state, SyncGroup itself calls
\* FetchGroup: "nested".
FetchGroupLogs(s) ==
    /\ pc[s] = "logs"
    /\ ~Forbidden(s)
    /\ LET latest == IF snapshots THEN PageEnd(s) ELSE got[s]
       IN  /\ got' = [got EXCEPT ![s] = latest]
           /\ IF MorePages(s)
              THEN /\ cursor' = [cursor EXCEPT ![s] = NextRevision(s)]
                   /\ pages' = [pages EXCEPT ![s] = @ + 1]
                   /\ UNCHANGED pc
              ELSE /\ Goto(s, IF latest = None THEN "nested" ELSE "synced")
                   /\ UNCHANGED <<cursor, pages>>
    /\ UNCHANGED <<serviceVars, advertised, faults, cacheVars, kind, then,
                   from, began>>

\* A 403 of SyncGroup: the logs refuse it, or its own FetchGroup.
Refused(s) ==
    \/ pc[s] = "logs" /\ Forbidden(s)
    \/ pc[s] = "nested" /\ Self \notin Members(Now)

\* Mutant: an auto-sync that is refused does not fall back to FetchGroup.
SyncRefusedFails(s) ==
    /\ Refused(s)
    /\ Goto(s, "failed")
    /\ UNCHANGED <<serviceVars, advertised, faults, cacheVars, kind, then,
                   pageVars, got, began>>

\* SyncGroup fails; the auto-sync takes any 403 for a revision that was pruned,
\* forgets it and fetches.
SyncRefused(s) ==
    /\ Refused(s)
    /\ IF kind[s] = "auto"
       THEN /\ deleteGroupRevision
            /\ Goto(s, "fetch")
       ELSE /\ Goto(s, "failed")
            /\ UNCHANGED groupRevision
    /\ UNCHANGED <<serviceVars, advertised, faults, expireTimer, endorsed,
                   kind, then, pageVars, got, began>>

\* The latest snapshot of the pages.
SyncGroup(s) ==
    /\ pc[s] = "synced"
    /\ storeGroupRevision(got[s])
    /\ storeGroupSendEndorsements(got[s])
    /\ Goto(s, then[s])
    /\ UNCHANGED <<serviceVars, advertised, faults, expireTimer,
                   kind, then, pageVars, got, began>>

-----------------------------------------------------------------------------
(* maybeAutoSyncGroupUpdate *)

AutoSyncFrom(r) ==
    IF groupRevision = 0 /\ r > 0 THEN r - 1 ELSE groupRevision

\* The dispatcher meets an update of revision r and starts a goroutine.
maybeAutoSyncGroupUpdate(s, r) ==
    /\ r \in advertised
    /\ advertised' = advertised \ {r}
    /\ Begin(s, "auto", IF AutoSyncFrom(r) = 0 THEN "fetch" ELSE "logs", "store")
    /\ BeganNow(s)
    /\ from' = [from EXCEPT ![s] = AutoSyncFrom(r)]
    /\ cursor' = [cursor EXCEPT ![s] = AutoSyncFrom(r)]
    /\ UNCHANGED <<serviceVars, faults, cacheVars, pages, got>>

\* The goroutine's own storeGroupRevision.
AutoSyncStore(s) ==
    /\ pc[s] = "store"
    /\ storeGroupRevision(got[s])
    /\ Goto(s, "done")
    /\ UNCHANGED <<serviceVars, advertised, faults, expireTimer,
                   endorsed, kind, then, pageVars, got, began>>

\* The caller of s calls again.
Return(s) ==
    /\ pc[s] \in {"done", "failed"}
    /\ Goto(s, "idle")
    /\ kind' = [kind EXCEPT ![s] = "fetch"]
    /\ then' = [then EXCEPT ![s] = "done"]
    /\ got' = [got EXCEPT ![s] = None]
    /\ from' = [from EXCEPT ![s] = 0]
    /\ cursor' = [cursor EXCEPT ![s] = 0]
    /\ pages' = [pages EXCEPT ![s] = 0]
    /\ began' = [began EXCEPT ![s] = 0]
    /\ UNCHANGED <<serviceVars, advertised, faults, cacheVars>>

-----------------------------------------------------------------------------
(* The sub-steps every call may take, and a client that only syncs. *)

FetchSteps(s) == FetchGroupState(s) \/ FetchGroup(s)

SyncSteps(s) ==
    \/ FetchSteps(s)
    \/ FetchGroupLogs(s)
    \/ SyncRefused(s)
    \/ SyncGroup(s)
    \/ AutoSyncStore(s)
    \/ Return(s)

\* Others let the local account in or out, or set the timer.
SyncChanges ==
    {[role |-> [Now.role EXCEPT ![Self] = r], timer |-> t, link |-> Now.link] :
        r \in {"none", "default"}, t \in Timers}

SyncNext ==
    \/ \E g \in SyncChanges : OthersChange(g)
    \/ Prune
    \/ \E s \in Calls : StartFetch(s)
    \/ \E s \in Calls, r \in Revs : StartSync(s, r)
    \/ \E s \in Calls, r \in Revs : maybeAutoSyncGroupUpdate(s, r)
    \/ \E s \in Calls : SyncSteps(s)
    \/ \E s \in Calls : Fault(s)

SyncSpec == GroupInit([a \in ACIs |-> "default"]) /\ [][SyncNext]_groupVars

\* Requests are answered or fail, goroutines run, and the dispatcher reads
\* every update and starts a goroutine for it.
SyncFairSpec ==
    /\ SyncSpec
    /\ \A s \in Calls : WF_groupVars(SyncSteps(s) \/ Fault(s))
    /\ SF_groupVars(\E s \in Calls, r \in Revs : maybeAutoSyncGroupUpdate(s, r))

-----------------------------------------------------------------------------
(* Properties *)

\* The cached revision and every snapshot in hand is one the service had:
\* paging, the advertised revision and the max of storeGroupRevision never
\* put the cache ahead of the group (a cache ahead would make the next
\* auto-sync ask for logs that do not exist).
CacheNotAhead ==
    /\ groupRevision <= rev
    /\ \A s \in Calls : got[s] <= rev /\ from[s] <= rev /\ cursor[s] <= rev

\* How many revisions SyncGroup's pages can hold.
Window == MaxPages * PageSize

\* A call that succeeds returns a state no older than the group was when the
\* call began, over any number of pages and with the group changing between
\* them; but SyncGroup stops silently after MaxPages pages.
SyncNotStale ==
    \A s \in Calls :
        pc[s] = "done" /\ kind[s] \in SyncKinds =>
            \/ got[s] >= began[s]
            \/ kind[s] # "fetch" /\ got[s] >= from[s] + Window - 1

\* The cached revision only grows, whichever of the concurrent calls is
\* slow, except that an auto-sync whose SyncGroup meets a 403, of the logs or
\* of its own FetchGroup, forgets it.
ForgetsOnlyOnRefusal ==
    [][groupRevision' < groupRevision =>
         /\ groupRevision' = 0
         /\ \E s \in Calls : kind[s] = "auto" /\ Refused(s)]_groupVars

\* FetchGroup "populates the client's internal timer cache": messages carry
\* the timer of the group it has just fetched.
TimerFollowsGroup ==
    \A s \in Calls :
        pc[s] = "done" /\ kind[s] = "fetch" /\ got[s] = rev => expireTimer = Now.timer

\* An advertised update ends up in the cache, unless a request failed or the
\* local account is out of the group.
CatchesUp ==
    \A r \in 1..MaxRev :
        (r \in advertised /\ (groupRevision = 0 \/ r < groupRevision + Window))
            ~> (groupRevision >= r \/ faults > 0 \/ Self \notin Members(Now))
=============================================================================
