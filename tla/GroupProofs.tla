---------------------------- MODULE GroupProofs ----------------------------
(***************************************************************************)
(* Proofs about GroupSync, for any number of calls, revisions and pages,   *)
(* and about GroupChange, which extends it.                                *)
(*                                                                         *)
(* The cache is not inductively behind the group by itself: it is filled   *)
(* from what calls have in hand, which comes from pages that start at a    *)
(* cursor, which starts from an advertised revision or from the cache.     *)
(* SyncInv bounds all of them together.                                    *)
(***************************************************************************)
EXTENDS GroupChange, TLAPS

\* A call that is about to fill the caches has a snapshot in hand.
InHand ==
    \A s \in Calls : pc[s] \in {"fetched", "synced", "store"} => got[s] # None

\* Updates are sent for revisions that exist.
AdvertisedExists == \A r \in advertised : r <= rev

SyncInv == SyncTypeOK /\ CacheNotAhead /\ InHand /\ AdvertisedExists

USE GroupAssumption DEF Revs, Snapshots, None

LEMMA InitSync == GroupInit([a \in ACIs |-> "default"]) => SyncInv
<1> SUFFICES ASSUME GroupInit([a \in ACIs |-> "default"]) PROVE SyncInv
  OBVIOUS
<1>1. hist \in [Revs -> GroupStates]
  BY DEF GroupInit, GroupStates, Roles, Links
<1> QED
  BY <1>1 DEF GroupInit, SyncInv, SyncTypeOK, GroupTypeOK, CacheNotAhead, InHand,
     AdvertisedExists, SyncLabels, SyncKinds

\* The pages of the logs: a page begins at the cursor and ends in the group.
LEMMA PageBounds ==
    ASSUME SyncInv, NEW s \in Calls
    PROVE  /\ PageEnd(s) \in Revs /\ PageEnd(s) <= rev
           /\ MorePages(s) => NextRevision(s) \in Revs /\ NextRevision(s) <= rev
  BY DEF SyncInv, SyncTypeOK, GroupTypeOK, CacheNotAhead, PageEnd, MorePages, NextRevision

LEMMA StateNow == ASSUME SyncInv PROVE Now \in GroupStates
  BY DEF SyncInv, SyncTypeOK, GroupTypeOK, Now

\* The service moves on; the calls and the caches stay behind.
LEMMA OthersKeeps ==
    ASSUME SyncInv, NEW g \in SyncChanges, OthersChange(g)
    PROVE  SyncInv'
<1>1. g \in GroupStates
  <2>1. Now.role \in [ACIs -> Roles] /\ Now.link \in Links
    BY StateNow DEF GroupStates
  <2>2. PICK r \in {"none", "default"}, t \in Timers :
          g = [role |-> [Now.role EXCEPT ![Self] = r], timer |-> t, link |-> Now.link]
    BY DEF SyncChanges
  <2>3. [Now.role EXCEPT ![Self] = r] \in [ACIs -> Roles]
    BY <2>1 DEF Roles
  <2> QED
    BY <2>1, <2>2, <2>3 DEF GroupStates
<1>2. rev' = rev + 1 /\ rev' \in Revs /\ hist' \in [Revs -> GroupStates]
  BY <1>1 DEF OthersChange, Accept, SyncInv, SyncTypeOK, GroupTypeOK
<1>3. advertised' \in SUBSET Revs /\ AdvertisedExists'
  BY <1>2 DEF OthersChange, SyncInv, SyncTypeOK, GroupTypeOK, AdvertisedExists
<1>4. UNCHANGED <<floor, snapshots, faults, groupRevision, expireTimer, endorsed, pc, kind,
                  then, from, cursor, pages, got, began>>
  BY DEF OthersChange, cacheVars, callVars, pageVars
<1>5. SyncTypeOK'
  BY <1>2, <1>3, <1>4 DEF SyncInv, SyncTypeOK, GroupTypeOK
<1>6. CacheNotAhead'
  <2>1. rev \in Int /\ groupRevision \in Int
        /\ \A s \in Calls : got[s] \in Int /\ from[s] \in Int /\ cursor[s] \in Int
    BY DEF SyncInv, SyncTypeOK, GroupTypeOK
  <2>2. groupRevision <= rev
        /\ \A s \in Calls : got[s] <= rev /\ from[s] <= rev /\ cursor[s] <= rev
    BY DEF SyncInv, CacheNotAhead
  <2>3. groupRevision <= rev + 1
        /\ \A s \in Calls : got[s] <= rev + 1 /\ from[s] <= rev + 1 /\ cursor[s] <= rev + 1
    BY <2>1, <2>2
  <2> QED
    BY <1>2, <1>4, <2>3 DEF CacheNotAhead
<1>7. InHand'
  BY <1>4 DEF InHand, SyncInv
<1> QED
  BY <1>3, <1>5, <1>6, <1>7 DEF SyncInv

LEMMA PruneKeeps == ASSUME SyncInv, Prune PROVE SyncInv'
  BY DEF Prune, SyncInv, SyncTypeOK, GroupTypeOK, CacheNotAhead, InHand,
     AdvertisedExists, cacheVars, callVars, pageVars

LEMMA FetchKeeps ==
    ASSUME SyncInv, NEW s \in Calls, StartFetch(s) \/ FetchSteps(s) \/ Fault(s)
    PROVE  SyncInv'
<1>1. CASE StartFetch(s)
  BY <1>1 DEF StartFetch, Begin, BeganNow, Goto, SyncInv, SyncTypeOK, GroupTypeOK,
     CacheNotAhead, InHand, AdvertisedExists, serviceVars, cacheVars, pageVars,
     SyncLabels, SyncKinds
<1>2. CASE FetchGroupState(s)
  <2>1. got' \in [Calls -> Snapshots] /\ \A c \in Calls : got'[c] <= rev
    <3>1. CASE got' = got
      BY <3>1 DEF SyncInv, SyncTypeOK, GroupTypeOK, CacheNotAhead
    <3>2. CASE got' = [got EXCEPT ![s] = rev]
      <4>1. rev \in Snapshots /\ rev <= rev
        BY DEF SyncInv, SyncTypeOK, GroupTypeOK
      <4> QED
        BY <3>2, <4>1 DEF SyncInv, SyncTypeOK, GroupTypeOK, CacheNotAhead
    <3> QED
      BY <1>2, <3>1, <3>2 DEF FetchGroupState
  <2>2. pc' \in [Calls -> SyncLabels]
    BY <1>2 DEF FetchGroupState, Goto, SyncInv, SyncTypeOK, SyncLabels
  <2>3. InHand'
    <3>1. CASE Self \in Members(Now)
      <4>1. got' = [got EXCEPT ![s] = rev] /\ pc' = [pc EXCEPT ![s] = "fetched"]
        BY <1>2, <3>1 DEF FetchGroupState, Goto
      <4>2. rev # None /\ got \in [Calls -> Snapshots] /\ pc \in [Calls -> SyncLabels]
        BY DEF SyncInv, SyncTypeOK, GroupTypeOK
      <4>3. ASSUME NEW c \in Calls, pc'[c] \in {"fetched", "synced", "store"}
            PROVE  got'[c] # None
        <5>1. CASE c = s
          BY <5>1, <4>1, <4>2
        <5>2. CASE c # s
          BY <5>2, <4>1, <4>2, <4>3 DEF InHand, SyncInv
        <5> QED
          BY <5>1, <5>2
      <4> QED
        BY <4>3 DEF InHand
    <3>2. CASE Self \notin Members(Now)
      BY <1>2, <3>2 DEF FetchGroupState, Goto, InHand, SyncInv, SyncTypeOK
    <3> QED
      BY <3>1, <3>2
  <2> QED
    BY <1>2, <2>1, <2>2, <2>3 DEF FetchGroupState, SyncInv, SyncTypeOK, GroupTypeOK,
       CacheNotAhead, AdvertisedExists, serviceVars, cacheVars, pageVars
<1>3. CASE FetchGroup(s)
  <2>1. got[s] \in Revs /\ got[s] <= rev /\ hist[got[s]] \in GroupStates
    BY <1>3 DEF FetchGroup, SyncInv, SyncTypeOK, GroupTypeOK, CacheNotAhead, InHand
  <2>2. /\ endorsed' \in SUBSET ACIs
        /\ groupRevision' \in Revs /\ groupRevision' <= rev
        /\ expireTimer' \in Timers
    BY <1>3, <2>1 DEF FetchGroup, storeGroupSendEndorsements, storeGroupRevision, Members,
       SyncInv, SyncTypeOK, GroupTypeOK, CacheNotAhead, GroupStates
  <2> QED
    BY <1>3, <2>1, <2>2 DEF FetchGroup, Goto, SyncInv, SyncTypeOK, GroupTypeOK,
       CacheNotAhead, InHand, AdvertisedExists, serviceVars, pageVars, SyncLabels
<1>4. CASE Fault(s)
  BY <1>4 DEF Fault, Goto, SyncInv, SyncTypeOK, GroupTypeOK, CacheNotAhead, InHand,
     AdvertisedExists, serviceVars, cacheVars, pageVars, SyncLabels
<1> QED
  BY <1>1, <1>2, <1>3, <1>4 DEF FetchSteps

LEMMA StartSyncKeeps ==
    ASSUME SyncInv, NEW s \in Calls, NEW r \in Revs, StartSync(s, r)
    PROVE  SyncInv'
<1>1. SyncFrom(r) \in Revs /\ SyncFrom(r) <= rev
  BY DEF SyncFrom, StartSync, SyncInv, SyncTypeOK, GroupTypeOK
<1> QED
  BY <1>1 DEF StartSync, Begin, BeganNow, Goto, SyncInv, SyncTypeOK, GroupTypeOK,
     CacheNotAhead, InHand, AdvertisedExists, serviceVars, cacheVars, SyncLabels, SyncKinds

LEMMA AutoSyncKeeps ==
    ASSUME SyncInv, NEW s \in Calls, NEW r \in Revs, maybeAutoSyncGroupUpdate(s, r)
    PROVE  SyncInv'
<1>1. AutoSyncFrom(r) \in Revs /\ AutoSyncFrom(r) <= rev
  BY DEF AutoSyncFrom, maybeAutoSyncGroupUpdate, SyncInv, SyncTypeOK, GroupTypeOK,
     CacheNotAhead, AdvertisedExists
<1>2. from' \in [Calls -> Revs] /\ cursor' \in [Calls -> Revs]
      /\ \A c \in Calls : from'[c] <= rev /\ cursor'[c] <= rev
  BY <1>1 DEF maybeAutoSyncGroupUpdate, SyncInv, SyncTypeOK, GroupTypeOK, CacheNotAhead
<1>3. pc' \in [Calls -> SyncLabels] /\ kind' \in [Calls -> SyncKinds]
      /\ then' \in [Calls -> {"done", "store"}]
      /\ \A c \in Calls : pc'[c] \in {"fetched", "synced", "store"} => pc[c] = pc'[c]
  BY DEF maybeAutoSyncGroupUpdate, Begin, Goto, SyncInv, SyncTypeOK, SyncLabels, SyncKinds
<1>4. began' \in [Calls -> Revs] /\ advertised' \in SUBSET Revs /\ AdvertisedExists'
  BY DEF maybeAutoSyncGroupUpdate, BeganNow, SyncInv, SyncTypeOK, GroupTypeOK,
     AdvertisedExists, serviceVars
<1> QED
  BY <1>2, <1>3, <1>4 DEF maybeAutoSyncGroupUpdate, SyncInv, SyncTypeOK, GroupTypeOK,
     CacheNotAhead, InHand, serviceVars, cacheVars

LEMMA LogsKeeps ==
    ASSUME SyncInv, NEW s \in Calls, FetchGroupLogs(s)
    PROVE  SyncInv'
<1> DEFINE latest == IF snapshots THEN PageEnd(s) ELSE got[s]
<1>1. latest \in Snapshots /\ latest <= rev
  BY PageBounds DEF SyncInv, SyncTypeOK, GroupTypeOK, CacheNotAhead
<1>2. got' = [got EXCEPT ![s] = latest]
  BY DEF FetchGroupLogs
<1>3. got' \in [Calls -> Snapshots] /\ \A c \in Calls : got'[c] <= rev
  BY <1>1, <1>2 DEF SyncInv, SyncTypeOK, GroupTypeOK, CacheNotAhead
<1>4. CASE MorePages(s)
  <2>1. /\ cursor' = [cursor EXCEPT ![s] = NextRevision(s)]
        /\ pages' = [pages EXCEPT ![s] = @ + 1]
        /\ pc' = pc
    BY <1>4 DEF FetchGroupLogs
  <2>2. cursor' \in [Calls -> Revs] /\ \A c \in Calls : cursor'[c] <= rev
    BY <1>4, <2>1, PageBounds DEF SyncInv, SyncTypeOK, GroupTypeOK, CacheNotAhead
  <2>3. pages' \in [Calls -> 0..MaxPages]
    BY <1>4, <2>1 DEF MorePages, SyncInv, SyncTypeOK, GroupTypeOK
  <2>4. InHand'
    BY <2>1, <1>2 DEF InHand, SyncInv, FetchGroupLogs
  <2> QED
    BY <1>3, <2>1, <2>2, <2>3, <2>4 DEF FetchGroupLogs, SyncInv, SyncTypeOK, GroupTypeOK,
       CacheNotAhead, AdvertisedExists, serviceVars, cacheVars
<1>5. CASE ~MorePages(s)
  <2>1. /\ pc' = [pc EXCEPT ![s] = IF latest = None THEN "nested" ELSE "synced"]
        /\ cursor' = cursor /\ pages' = pages
    BY <1>5 DEF FetchGroupLogs, Goto
  <2>2. pc' \in [Calls -> SyncLabels]
    BY <2>1 DEF SyncInv, SyncTypeOK, SyncLabels
  <2>3. InHand'
    BY <2>1, <1>2 DEF InHand, SyncInv, SyncTypeOK, GroupTypeOK
  <2> QED
    BY <1>3, <2>1, <2>2, <2>3 DEF FetchGroupLogs, SyncInv, SyncTypeOK, GroupTypeOK,
       CacheNotAhead, AdvertisedExists, serviceVars, cacheVars
<1> QED
  BY <1>4, <1>5

LEMMA StoreKeeps ==
    ASSUME SyncInv, NEW s \in Calls,
           SyncRefused(s) \/ SyncGroup(s) \/ AutoSyncStore(s) \/ Return(s)
    PROVE  SyncInv'
<1>1. CASE SyncRefused(s)
  <2>1. groupRevision' \in Revs /\ groupRevision' <= rev
    BY <1>1 DEF SyncRefused, deleteGroupRevision, SyncInv, SyncTypeOK, GroupTypeOK,
       CacheNotAhead
  <2>2. pc' = [pc EXCEPT ![s] = "fetch"] \/ pc' = [pc EXCEPT ![s] = "failed"]
    BY <1>1 DEF SyncRefused, Goto
  <2>3. pc' \in [Calls -> SyncLabels]
        /\ \A c \in Calls : pc'[c] \in {"fetched", "synced", "store"} => pc[c] = pc'[c]
    BY <2>2 DEF SyncInv, SyncTypeOK, SyncLabels
  <2> QED
    BY <1>1, <2>1, <2>3 DEF SyncRefused, SyncInv, SyncTypeOK, GroupTypeOK,
       CacheNotAhead, InHand, AdvertisedExists, serviceVars, pageVars
<1>2. CASE SyncGroup(s)
  <2>1. got[s] \in Revs /\ got[s] <= rev
    BY <1>2 DEF SyncGroup, SyncInv, SyncTypeOK, GroupTypeOK, CacheNotAhead, InHand
  <2>2. endorsed' \in SUBSET ACIs /\ groupRevision' \in Revs /\ groupRevision' <= rev
    BY <1>2, <2>1 DEF SyncGroup, storeGroupSendEndorsements, storeGroupRevision, Members,
       SyncInv, SyncTypeOK, GroupTypeOK, CacheNotAhead
  <2> QED
    BY <1>2, <2>1, <2>2 DEF SyncGroup, Goto, SyncInv, SyncTypeOK, GroupTypeOK,
       CacheNotAhead, InHand, AdvertisedExists, serviceVars, pageVars, SyncLabels
<1>3. CASE AutoSyncStore(s)
  <2>1. got[s] \in Revs /\ got[s] <= rev
    BY <1>3 DEF AutoSyncStore, SyncInv, SyncTypeOK, GroupTypeOK, CacheNotAhead, InHand
  <2> QED
    BY <1>3, <2>1 DEF AutoSyncStore, storeGroupRevision, Goto, SyncInv, SyncTypeOK,
       GroupTypeOK, CacheNotAhead, InHand, AdvertisedExists, serviceVars, pageVars, SyncLabels
<1>4. CASE Return(s)
  BY <1>4 DEF Return, Goto, SyncInv, SyncTypeOK, GroupTypeOK, CacheNotAhead, InHand,
     AdvertisedExists, serviceVars, cacheVars, SyncLabels, SyncKinds
<1> QED
  BY <1>1, <1>2, <1>3, <1>4

LEMMA NextKeepsSync == SyncInv /\ [SyncNext]_groupVars => SyncInv'
<1> SUFFICES ASSUME SyncInv, [SyncNext]_groupVars PROVE SyncInv'
  OBVIOUS
<1>1. CASE SyncNext
  BY <1>1, OthersKeeps, PruneKeeps, FetchKeeps, StartSyncKeeps, AutoSyncKeeps, LogsKeeps,
     StoreKeeps DEF SyncNext, SyncSteps
<1>2. CASE UNCHANGED groupVars
  BY <1>2 DEF groupVars, serviceVars, cacheVars, callVars, pageVars, SyncInv, SyncTypeOK,
     GroupTypeOK, CacheNotAhead, InHand, AdvertisedExists
<1> QED
  BY <1>1, <1>2

\* The variables keep their types, with any number of concurrent calls.
THEOREM SyncTypeCorrect == SyncSpec => []SyncTypeOK
<1>1. SyncInv => SyncTypeOK
  BY DEF SyncInv
<1> QED
  BY <1>1, InitSync, NextKeepsSync, PTL DEF SyncSpec

\* Whatever calls overlap and however long the logs are, neither the cached
\* revision nor anything a call has in hand is ahead of the group.
THEOREM CacheNeverAhead == SyncSpec => []CacheNotAhead
<1>1. SyncInv => CacheNotAhead
  BY DEF SyncInv
<1> QED
  BY <1>1, InitSync, NextKeepsSync, PTL DEF SyncSpec

\* Only the deletion of an auto-sync that met a 403 lowers the cached revision;
\* storeGroupRevision never does, in whatever order calls finish.
THEOREM CacheForgetsOnlyOnRefusal == SyncSpec => ForgetsOnlyOnRefusal
<1>1. ASSUME SyncInv, [SyncNext]_groupVars, groupRevision' < groupRevision
      PROVE  /\ groupRevision' = 0
             /\ \E s \in Calls : kind[s] = "auto" /\ Refused(s)
  <2> groupRevision \in Nat
    BY <1>1 DEF SyncInv, SyncTypeOK, GroupTypeOK
  <2>1. groupRevision' # groupRevision
    BY <1>1
  <2>2. ASSUME NEW s \in Calls, got[s] \in Nat, storeGroupRevision(got[s]) PROVE FALSE
    BY <2>2, <1>1 DEF storeGroupRevision
  <2>3. ASSUME NEW s \in Calls, FetchGroup(s) \/ SyncGroup(s) \/ AutoSyncStore(s)
        PROVE  FALSE
    <3>1. got[s] \in Nat /\ storeGroupRevision(got[s])
      BY <1>1, <2>3 DEF FetchGroup, SyncGroup, AutoSyncStore, SyncInv, SyncTypeOK,
         GroupTypeOK, InHand
    <3> QED
      BY <3>1, <2>2
  <2>4. PICK s \in Calls : SyncRefused(s)
    <3>1. SyncNext
      BY <1>1, <2>1 DEF groupVars, cacheVars
    <3>2. ~\E g \in SyncChanges : OthersChange(g)
      BY <2>1 DEF OthersChange, cacheVars
    <3>3. ~Prune
      BY <2>1 DEF Prune, cacheVars
    <3>4. \A s \in Calls : ~StartFetch(s) /\ ~Fault(s) /\ ~FetchGroupState(s)
                           /\ ~FetchGroupLogs(s) /\ ~Return(s)
      BY <2>1 DEF StartFetch, Fault, FetchGroupState, FetchGroupLogs, Return, cacheVars
    <3>5. \A s \in Calls, r \in Revs : ~StartSync(s, r) /\ ~maybeAutoSyncGroupUpdate(s, r)
      BY <2>1 DEF StartSync, maybeAutoSyncGroupUpdate, cacheVars
    <3> QED
      BY <3>1, <3>2, <3>3, <3>4, <3>5, <2>3 DEF SyncNext, SyncSteps, FetchSteps
  <2> QED
    BY <2>1, <2>4 DEF SyncRefused, deleteGroupRevision
<1>2. SyncInv /\ [SyncNext]_groupVars
        => [groupRevision' < groupRevision =>
              /\ groupRevision' = 0
              /\ \E s \in Calls : kind[s] = "auto" /\ Refused(s)]_groupVars
  BY <1>1
<1> QED
  BY <1>2, InitSync, NextKeepsSync, PTL DEF SyncSpec, ForgetsOnlyOnRefusal

-----------------------------------------------------------------------------
(* What a successful call returns is not stale.  The pages are consecutive:  *)
(* the cursor stands where the pages read so far end, so that the loop stops *)
(* at the newest revision or after a whole window.                           *)

Fresh(s) ==
    \/ got[s] >= began[s]
    \/ kind[s] # "fetch" /\ got[s] >= from[s] + Window - 1

StaleAt(s) ==
    /\ began[s] <= rev
    /\ pc[s] = "idle" => pages[s] = 0 /\ got[s] = None
    /\ pc[s] = "logs" => /\ kind[s] # "fetch"
                         /\ pages[s] < MaxPages
                         /\ cursor[s] = from[s] + pages[s] * PageSize
                         /\ snapshots \/ got[s] = None
    /\ pc[s] = "fetched" => got[s] >= began[s]
    /\ pc[s] \in {"synced", "store", "done"} => Fresh(s)

StaleInv == \A s \in Calls : StaleAt(s)

\* What StaleAt says of a call is its own.
SameCall(t) ==
    /\ pc'[t] = pc[t] /\ kind'[t] = kind[t] /\ got'[t] = got[t] /\ began'[t] = began[t]
    /\ from'[t] = from[t] /\ cursor'[t] = cursor[t] /\ pages'[t] = pages[t]

LEMMA OtherCallsKeep ==
    ASSUME StaleInv, NEW s \in Calls, UNCHANGED <<rev, snapshots>>,
           \A t \in Calls \ {s} : SameCall(t), StaleAt(s)'
    PROVE  StaleInv'
  BY DEF StaleInv, StaleAt, SameCall, Fresh

LEMMA InitStale == GroupInit([a \in ACIs |-> "default"]) => StaleInv
<1> SUFFICES ASSUME GroupInit([a \in ACIs |-> "default"]), NEW s \in Calls PROVE StaleAt(s)
  BY DEF StaleInv
<1>1. began[s] = 0 /\ rev = 0 /\ pc[s] = "idle" /\ pages[s] = 0 /\ got[s] = None
  BY DEF GroupInit
<1> QED BY <1>1 DEF StaleAt

\* The numbers the calls compute with.
LEMMA CallNumbers ==
    ASSUME SyncInv, NEW s \in Calls
    PROVE  /\ rev \in Nat /\ got[s] \in Int /\ began[s] \in Nat
           /\ from[s] \in Nat /\ cursor[s] \in Nat /\ pages[s] \in Nat /\ Window \in Nat
  BY DEF SyncInv, SyncTypeOK, GroupTypeOK, Window

\* Page p + 1 begins a page further on, and the last one ends the window.
LEMMA PageArithmetic ==
    ASSUME NEW f \in Nat, NEW p \in Nat
    PROVE  /\ f + p * PageSize + PageSize - 1 + 1 = f + (p + 1) * PageSize
           /\ p + 1 = MaxPages => f + p * PageSize + PageSize - 1 = f + Window - 1
<1>1. PageSize \in Nat /\ p * PageSize \in Nat /\ (p + 1) * PageSize = p * PageSize + PageSize
  BY GroupAssumption
<1>2. p + 1 = MaxPages => Window = p * PageSize + PageSize
  BY <1>1 DEF Window
<1> DEFINE q == p * PageSize
<1>3. q \in Nat
  BY <1>1
<1>4. f + q + PageSize - 1 + 1 = f + (q + PageSize)
  <2> HIDE DEF q
  <2> QED BY <1>1, <1>3
<1>5. f + q + PageSize - 1 = f + (q + PageSize) - 1
  <2> HIDE DEF q
  <2> QED BY <1>1, <1>3
<1> QED BY <1>1, <1>2, <1>4, <1>5

LEMMA ServiceStale ==
    ASSUME SyncInv, StaleInv, Prune \/ \E g \in SyncChanges : OthersChange(g)
    PROVE  StaleInv'
<1>1. UNCHANGED <<pc, kind, got, began, from, cursor, pages, snapshots>>
  BY DEF Prune, OthersChange, callVars, pageVars
<1>2. rev' = rev \/ rev' = rev + 1
  BY DEF Prune, OthersChange, Accept
<1>3. \A s \in Calls : began[s] <= rev'
  BY <1>2, CallNumbers DEF StaleInv, StaleAt
<1> QED
  BY <1>1, <1>3 DEF StaleInv, StaleAt, Fresh

LEMMA BeginStale ==
    ASSUME SyncInv, StaleInv, NEW s \in Calls,
           StartFetch(s) \/ (\E r \in Revs : StartSync(s, r))
             \/ (\E r \in Revs : maybeAutoSyncGroupUpdate(s, r)) \/ Return(s)
    PROVE  StaleInv'
<1>t. /\ pc \in [Calls -> SyncLabels] /\ kind \in [Calls -> SyncKinds]
      /\ from \in [Calls -> Revs] /\ cursor \in [Calls -> Revs]
      /\ pages \in [Calls -> 0..MaxPages] /\ got \in [Calls -> Snapshots]
      /\ began \in [Calls -> Revs] /\ rev \in Revs
  BY DEF SyncInv, SyncTypeOK, GroupTypeOK
<1>1. UNCHANGED <<rev, snapshots>>
  BY DEF StartFetch, StartSync, maybeAutoSyncGroupUpdate, Return, serviceVars
<1>2. \A t \in Calls \ {s} : SameCall(t)
  <2>1. CASE StartFetch(s)
    BY <2>1, <1>t DEF StartFetch, Begin, BeganNow, Goto, SameCall, pageVars
  <2>2. CASE \E r \in Revs : StartSync(s, r)
    BY <2>2, <1>t DEF StartSync, Begin, BeganNow, Goto, SameCall
  <2>3. CASE \E r \in Revs : maybeAutoSyncGroupUpdate(s, r)
    BY <2>3, <1>t DEF maybeAutoSyncGroupUpdate, Begin, BeganNow, Goto, SameCall
  <2>4. CASE Return(s)
    BY <2>4, <1>t DEF Return, Goto, SameCall
  <2> QED
    BY <2>1, <2>2, <2>3, <2>4
<1>3. StaleAt(s)'
  <2>1. CASE StartFetch(s)
    BY <2>1, <1>t, <1>1 DEF StartFetch, Begin, BeganNow, Goto, StaleAt
  <2>2. CASE \E r \in Revs : StartSync(s, r)
    <3>1. PICK r \in Revs : StartSync(s, r)
      BY <2>2
    <3>2. pages[s] = 0 /\ got[s] = None
      BY <3>1 DEF StartSync, Begin, StaleInv, StaleAt
    <3>3. /\ pc'[s] = "logs" /\ kind'[s] = "sync" /\ began'[s] = rev
          /\ from'[s] = SyncFrom(r) /\ cursor'[s] = SyncFrom(r)
          /\ pages'[s] = 0 /\ got'[s] = None
      BY <3>1, <3>2, <1>t DEF StartSync, Begin, BeganNow, Goto
    <3>4. SyncFrom(r) \in Nat
      BY DEF SyncFrom
    <3> QED
      BY <3>3, <3>4, <1>1, <1>t DEF StaleAt
  <2>3. CASE \E r \in Revs : maybeAutoSyncGroupUpdate(s, r)
    <3>1. PICK r \in Revs : maybeAutoSyncGroupUpdate(s, r)
      BY <2>3
    <3>2. pages[s] = 0 /\ got[s] = None
      BY <3>1 DEF maybeAutoSyncGroupUpdate, Begin, StaleInv, StaleAt
    <3>3. /\ pc'[s] \in {"fetch", "logs"} /\ kind'[s] = "auto" /\ began'[s] = rev
          /\ from'[s] = AutoSyncFrom(r) /\ cursor'[s] = AutoSyncFrom(r)
          /\ pages'[s] = 0 /\ got'[s] = None
      BY <3>1, <3>2, <1>t DEF maybeAutoSyncGroupUpdate, Begin, BeganNow, Goto
    <3>4. AutoSyncFrom(r) \in Nat
      BY DEF AutoSyncFrom, SyncInv, SyncTypeOK, GroupTypeOK
    <3> QED
      BY <3>3, <3>4, <1>1, <1>t DEF StaleAt
  <2>4. CASE Return(s)
    BY <2>4, <1>t, <1>1 DEF Return, Goto, StaleAt
  <2> QED
    BY <2>1, <2>2, <2>3, <2>4
<1> QED
  BY <1>1, <1>2, <1>3, OtherCallsKeep

LEMMA LogsStale == ASSUME SyncInv, StaleInv, NEW s \in Calls, FetchGroupLogs(s) PROVE StaleInv'
<1> DEFINE latest == IF snapshots THEN PageEnd(s) ELSE got[s]
<1>t. /\ pc \in [Calls -> SyncLabels] /\ cursor \in [Calls -> Revs]
      /\ pages \in [Calls -> 0..MaxPages] /\ got \in [Calls -> Snapshots]
  BY DEF SyncInv, SyncTypeOK, GroupTypeOK
<1>1. UNCHANGED <<rev, snapshots, kind, from, began>>
  BY DEF FetchGroupLogs, serviceVars
<1>2. got' = [got EXCEPT ![s] = latest] /\ pc[s] = "logs"
  BY DEF FetchGroupLogs
<1>3. /\ kind[s] # "fetch" /\ pages[s] < MaxPages
      /\ cursor[s] = from[s] + pages[s] * PageSize
      /\ snapshots \/ got[s] = None
      /\ began[s] <= rev
  BY <1>2 DEF StaleInv, StaleAt
<1>n. /\ rev \in Nat /\ from[s] \in Nat /\ pages[s] \in Nat /\ began[s] \in Nat
      /\ Window \in Nat /\ cursor[s] \in Nat /\ PageSize \in Nat
      /\ pages[s] * PageSize \in Nat
  BY CallNumbers
<1>4. CASE MorePages(s)
  <2>1. /\ cursor' = [cursor EXCEPT ![s] = NextRevision(s)]
        /\ pages' = [pages EXCEPT ![s] = @ + 1]
        /\ pc' = pc
    BY <1>4 DEF FetchGroupLogs
  <2>2. PageEnd(s) = cursor[s] + PageSize - 1 /\ pages[s] + 1 < MaxPages
    BY <1>4, <1>n DEF MorePages, PageEnd
  <2>3. NextRevision(s) = from[s] + (pages[s] + 1) * PageSize
    BY <2>2, <1>3, <1>n, PageArithmetic DEF NextRevision
  <2>4. StaleAt(s)'
    BY <1>1, <1>2, <1>3, <1>t, <2>1, <2>2, <2>3 DEF StaleAt
  <2>5. \A t \in Calls \ {s} : SameCall(t)
    BY <1>1, <1>2, <1>t, <2>1 DEF SameCall
  <2> QED
    BY <1>1, <2>4, <2>5, OtherCallsKeep
<1>5. CASE ~MorePages(s)
  <2>1. /\ pc' = [pc EXCEPT ![s] = IF latest = None THEN "nested" ELSE "synced"]
        /\ cursor' = cursor /\ pages' = pages
    BY <1>5 DEF FetchGroupLogs, Goto
  <2>2. PageEnd(s) >= rev \/ PageEnd(s) >= from[s] + Window - 1
    <3>1. CASE ~(PageEnd(s) < rev)
      BY <3>1, <1>n DEF PageEnd
    <3>2. CASE PageEnd(s) < rev /\ pages[s] + 1 >= MaxPages
      <4>1. PageEnd(s) = cursor[s] + PageSize - 1 /\ pages[s] + 1 = MaxPages
        BY <3>2, <1>3, <1>n DEF PageEnd
      <4> QED
        BY <4>1, <1>3, <1>n, PageArithmetic
    <3> QED
      BY <3>1, <3>2, <1>5, <1>n DEF MorePages
  <2>3. PageEnd(s) \in Int
    BY <1>n DEF PageEnd
  <2>4. latest # None => PageEnd(s) = latest
    BY <1>3
  <2>5. latest # None => latest >= began[s] \/ latest >= from[s] + Window - 1
    BY <2>2, <2>3, <2>4, <1>3, <1>n
  <2>6. StaleAt(s)'
    BY <1>1, <1>2, <1>3, <1>t, <2>1, <2>5 DEF StaleAt, Fresh, Window
  <2>7. \A t \in Calls \ {s} : SameCall(t)
    BY <1>1, <1>2, <1>t, <2>1 DEF SameCall
  <2> QED
    BY <1>1, <2>6, <2>7, OtherCallsKeep
<1> QED
  BY <1>4, <1>5

LEMMA FinishStale ==
    ASSUME SyncInv, StaleInv, NEW s \in Calls,
           FetchSteps(s) \/ SyncRefused(s) \/ SyncGroup(s) \/ AutoSyncStore(s) \/ Fault(s)
    PROVE  StaleInv'
<1>t. /\ pc \in [Calls -> SyncLabels] /\ got \in [Calls -> Snapshots]
      /\ then \in [Calls -> {"done", "store"}] /\ rev \in Nat
  BY DEF SyncInv, SyncTypeOK, GroupTypeOK
<1>1. UNCHANGED <<rev, snapshots, kind, from, began, cursor, pages>>
  BY DEF FetchSteps, FetchGroupState, FetchGroup, SyncRefused, SyncGroup, AutoSyncStore,
     Fault, serviceVars, pageVars
<1>2. CASE FetchGroupState(s)
  <2>1. \/ got' = [got EXCEPT ![s] = rev] /\ pc' = [pc EXCEPT ![s] = "fetched"]
        \/ got' = got /\ pc' = [pc EXCEPT ![s] = "failed"]
    BY <1>2 DEF FetchGroupState, Goto
  <2>2. \A t \in Calls \ {s} : SameCall(t)
    BY <1>1, <1>t, <2>1 DEF SameCall
  <2>3. began[s] <= rev
    BY DEF StaleInv, StaleAt
  <2>4. StaleAt(s)'
    BY <1>1, <1>t, <2>1, <2>3, CallNumbers DEF StaleAt
  <2> QED
    BY <1>1, <2>2, <2>4, OtherCallsKeep
<1>3. CASE FetchGroup(s) \/ SyncGroup(s) \/ AutoSyncStore(s)
  <2>1. /\ got' = got
        /\ \E label \in {"done", "store"} : pc' = [pc EXCEPT ![s] = label]
        /\ pc[s] \in {"fetched", "synced", "store"}
    BY <1>3, <1>t DEF FetchGroup, SyncGroup, AutoSyncStore, Goto
  <2>2. \A t \in Calls \ {s} : SameCall(t)
    BY <1>1, <1>t, <2>1 DEF SameCall
  <2>3. began[s] <= rev /\ Fresh(s)
    BY <2>1 DEF StaleInv, StaleAt, Fresh
  <2>4. StaleAt(s)'
    BY <1>1, <1>t, <2>1, <2>3 DEF StaleAt, Fresh
  <2> QED
    BY <1>1, <2>2, <2>4, OtherCallsKeep
<1>4. CASE SyncRefused(s) \/ Fault(s)
  <2>1. /\ got' = got
        /\ \E label \in {"fetch", "failed"} : pc' = [pc EXCEPT ![s] = label]
    BY <1>4 DEF SyncRefused, Fault, Goto
  <2>2. \A t \in Calls \ {s} : SameCall(t)
    BY <1>1, <1>t, <2>1 DEF SameCall
  <2>3. began[s] <= rev
    BY DEF StaleInv, StaleAt
  <2>4. StaleAt(s)'
    BY <1>1, <1>t, <2>1, <2>3 DEF StaleAt
  <2> QED
    BY <1>1, <2>2, <2>4, OtherCallsKeep
<1> QED
  BY <1>2, <1>3, <1>4 DEF FetchSteps

LEMMA NextKeepsStale == SyncInv /\ StaleInv /\ [SyncNext]_groupVars => StaleInv'
<1> SUFFICES ASSUME SyncInv, StaleInv, [SyncNext]_groupVars PROVE StaleInv'
  OBVIOUS
<1>1. CASE SyncNext
  BY <1>1, ServiceStale, BeginStale, LogsStale, FinishStale DEF SyncNext, SyncSteps
<1>2. CASE UNCHANGED groupVars
  BY <1>2 DEF groupVars, serviceVars, callVars, pageVars, StaleInv, StaleAt, Fresh
<1> QED
  BY <1>1, <1>2

\* A call that succeeds has a state no older than the group was when it began,
\* or one a whole window of log pages past where it started, for any page size
\* and limit and however the group changes between the pages.
THEOREM CallsNotStale == SyncSpec => []SyncNotStale
<1>1. StaleInv => SyncNotStale
  BY DEF StaleInv, StaleAt, Fresh, SyncNotStale
<1> QED
  BY <1>1, InitSync, NextKeepsSync, InitStale, NextKeepsStale, PTL DEF SyncSpec

-----------------------------------------------------------------------------
(* GroupChange: what the local account does to the group is decided on a    *)
(* state it fetched, and the version in the change ties it to that state.   *)
(* The invariant says, for each call, that the change it carries follows    *)
(* and is permitted by the snapshot it has in hand; when the service takes  *)
(* it, that snapshot is the newest revision, and revisions never change     *)
(* once the group exists.                                                   *)

\* The snapshot in hand is one the service had, and is there when it is used.
HandOK(s) ==
    /\ got[s] <= rev
    /\ pc[s] \in {"fetched", "synced", "store", "check", "notify", "created"} => got[s] # None
    /\ pc[s] = "check" \/ then[s] = "check" => kind[s] # "join"
    /\ pc[s] = "preview" => kind[s] = "join"
    /\ pc[s] = "present" => kind[s] \in {"add", "join", "create"}
    /\ pc[s] = "present" /\ kind[s] = "join" => got[s] # None /\ hist[got[s]].link # "off"

\* A change that has been built follows the snapshot it was built from.
BuiltOK(s) ==
    pc[s] = "patch" \/ (pc[s] = "present" /\ kind[s] = "add") =>
        /\ got[s] # None
        /\ change[s].version = got[s] + 1
        /\ Permits(hist[got[s]], kind[s], change[s])
        /\ kind[s] = "leave" => change[s].who = Self /\ change[s].role = "none"

\* A change that was accepted, and what its call does after it.
AppliedOK(s) ==
    /\ applied[s] # None =>
         /\ 1 <= applied[s] /\ applied[s] <= rev
         /\ Permits(hist[applied[s] - 1], kind[s], change[s])
         /\ pc[s] \in {"fetch", "fetched", "forget", "notify", "done", "failed"}
         /\ then[s] \in {"done", "notify"}
         /\ pc[s] \in {"fetched", "notify"} => got[s] >= applied[s]
    /\ notice[s] # None =>
         pc[s] = "done" /\ (applied[s] # None => notice[s] >= applied[s])

CallOK(s) == HandOK(s) /\ BuiltOK(s) /\ AppliedOK(s)

\* Before the group exists calls only create it, and nobody advertises it.
UncreatedAt(s) ==
    /\ applied[s] = None /\ got[s] = None
    /\ pc[s] \in {"idle", "present", "put", "failed"}
    /\ pc[s] = "present" => kind[s] = "create"

Uncreated == ~exists => rev = 0 /\ advertised = {} /\ \A s \in Calls : UncreatedAt(s)

ChangeInv == ChangeTypeOK /\ Uncreated /\ \A s \in Calls : CallOK(s)

\* What CallOK says of a call is its own, apart from the group.
SameChange(t) ==
    /\ pc'[t] = pc[t] /\ kind'[t] = kind[t] /\ then'[t] = then[t] /\ got'[t] = got[t]
    /\ change'[t] = change[t] /\ applied'[t] = applied[t] /\ notice'[t] = notice[t]

\* Revisions are only added.
GroupGrows ==
    /\ rev <= rev'
    /\ \A r \in 0..rev : hist'[r] = hist[r]

LEMMA SameChangeKeeps ==
    ASSUME ChangeTypeOK, ChangeTypeOK', GroupGrows, NEW t \in Calls, CallOK(t), SameChange(t)
    PROVE  CallOK(t)'
<1>1. /\ rev \in Nat /\ rev' \in Nat
      /\ got[t] \in Int /\ got[t] >= -1 /\ applied[t] \in Int
      /\ rev <= rev'
  BY DEF ChangeTypeOK, GroupTypeOK, GroupGrows
<1>2. got[t] # None => got[t] \in 0..rev /\ hist'[got[t]] = hist[got[t]]
  BY <1>1 DEF GroupGrows, CallOK, HandOK
<1>3. HandOK(t)'
  BY <1>1, <1>2 DEF HandOK, CallOK, SameChange
<1>4. BuiltOK(t)'
  BY <1>2 DEF BuiltOK, CallOK, SameChange
<1>5. applied[t] # None => hist'[applied[t] - 1] = hist[applied[t] - 1]
  <2> SUFFICES ASSUME applied[t] # None PROVE hist'[applied[t] - 1] = hist[applied[t] - 1]
    OBVIOUS
  <2>1. 1 <= applied[t] /\ applied[t] <= rev
    BY DEF CallOK, AppliedOK
  <2>2. applied[t] - 1 \in 0..rev
    BY <1>1, <2>1
  <2> QED BY <2>2 DEF GroupGrows
<1>6. applied[t] <= rev => applied[t] <= rev'
  BY <1>1
<1>7. AppliedOK(t)'
  BY <1>5, <1>6 DEF AppliedOK, CallOK, SameChange
<1> QED BY <1>3, <1>4, <1>7 DEF CallOK

\* A step of one call: the others keep what CallOK says of them.
LEMMA OneCallMoves ==
    ASSUME ChangeInv, ChangeTypeOK', GroupGrows, NEW s \in Calls, exists' = exists,
           \A t \in Calls \ {s} : SameChange(t),
           CallOK(s)', exists \/ (rev' = rev /\ advertised' = advertised /\ UncreatedAt(s)')
    PROVE  ChangeInv'
<1>1. \A t \in Calls : CallOK(t)'
  BY SameChangeKeeps DEF ChangeInv
<1>2. Uncreated'
  BY DEF ChangeInv, Uncreated, UncreatedAt, SameChange
<1> QED BY <1>1, <1>2 DEF ChangeInv

\* A step that leaves the service alone.
LEMMA GroupStays ==
    ASSUME ChangeTypeOK, UNCHANGED <<rev, hist>>
    PROVE  GroupGrows
  BY DEF GroupGrows, ChangeTypeOK, GroupTypeOK

LEMMA StoredRevision ==
    ASSUME ChangeTypeOK, NEW r \in Revs, storeGroupRevision(r)
    PROVE  groupRevision' \in Revs /\ groupRevision' >= groupRevision /\ groupRevision' >= r
  BY DEF storeGroupRevision, ChangeTypeOK, GroupTypeOK

LEMMA NoChangeType == NoChange \in Changes
  BY DEF NoChange, Changes, Roles, Links

LEMMA InitChange == ChangeInit => ChangeInv
<1> SUFFICES ASSUME ChangeInit PROVE ChangeInv
  OBVIOUS
<1>1. PICK r \in {"none", "admin"} :
        GroupInit([a \in ACIs |-> IF a = Self THEN r ELSE "default"])
  BY DEF ChangeInit
<1>2. hist \in [Revs -> GroupStates]
  BY <1>1 DEF GroupInit, GroupStates, Roles, Links
<1>3. ChangeTypeOK
  <2>1. GroupTypeOK
    <3> DEFINE roles == [a \in ACIs |-> IF a = Self THEN r ELSE "default"]
    <3>1. GroupInit(roles)
      BY <1>1
    <3> HIDE DEF roles
    <3>2. /\ rev = 0 /\ floor = 0 /\ snapshots \in BOOLEAN /\ advertised = {} /\ faults = 0
          /\ groupRevision = 0 /\ expireTimer = 0 /\ endorsed = {}
          /\ from = [s \in Calls |-> 0] /\ cursor = [s \in Calls |-> 0]
          /\ pages = [s \in Calls |-> 0] /\ began = [s \in Calls |-> 0]
          /\ got = [s \in Calls |-> None]
      BY <3>1 DEF GroupInit
    <3> QED BY <1>2, <3>2 DEF GroupTypeOK
  <2>2. /\ pc = [s \in Calls |-> "idle"] /\ kind = [s \in Calls |-> "fetch"]
        /\ then = [s \in Calls |-> "done"]
    BY <1>1 DEF GroupInit
  <2>3. /\ exists \in BOOLEAN
        /\ change = [s \in Calls |-> NoChange]
        /\ applied = [s \in Calls |-> None] /\ notice = [s \in Calls |-> None]
    BY DEF ChangeInit
  <2> QED BY <2>1, <2>2, <2>3, NoChangeType DEF ChangeTypeOK, SyncLabels, SyncKinds
<1>4. /\ rev = 0 /\ advertised = {}
      /\ \A s \in Calls : /\ pc[s] = "idle" /\ got[s] = None /\ then[s] = "done"
                          /\ applied[s] = None /\ notice[s] = None
  BY <1>1 DEF ChangeInit, GroupInit
<1>5. ASSUME NEW s \in Calls PROVE CallOK(s) /\ UncreatedAt(s)
  BY <1>4 DEF CallOK, HandOK, BuiltOK, AppliedOK, UncreatedAt
<1> QED BY <1>3, <1>4, <1>5 DEF ChangeInv, Uncreated

\* The call exists only in a group that does, once it is past its first steps.
LEMMA PastCreation ==
    ASSUME ChangeInv, NEW s \in Calls, pc[s] \notin {"idle", "present", "put", "failed"}
    PROVE  exists
  BY DEF ChangeInv, Uncreated, UncreatedAt

LEMMA AskKeeps ==
    ASSUME ChangeInv, NEW s \in Calls, NEW k \in ChangeKinds, NEW c \in Changes,
           NEW label \in {"fetch", "preview", "present"}, NEW ret \in {"check", "done"},
           label = "present" => k = "create", label = "preview" => k = "join",
           ret = "check" => k # "join",
           exists \/ label = "present", Ask(s, k, c, label, ret)
    PROVE  ChangeInv'
<1>1. /\ pc[s] = "idle"
      /\ pc' = [pc EXCEPT ![s] = label] /\ kind' = [kind EXCEPT ![s] = k]
      /\ then' = [then EXCEPT ![s] = ret] /\ change' = [change EXCEPT ![s] = c]
      /\ UNCHANGED <<rev, hist, floor, snapshots, advertised, faults, groupRevision, expireTimer,
                     endorsed, from, cursor, pages, got, began, exists, applied, notice>>
  BY DEF Ask, Begin, Goto, serviceVars, cacheVars, pageVars
<1>2. ChangeTypeOK'
  BY <1>1 DEF ChangeInv, ChangeTypeOK, GroupTypeOK, SyncLabels, ChangeLabels
<1>3. \A t \in Calls \ {s} : SameChange(t)
  BY <1>1 DEF SameChange, ChangeInv, ChangeTypeOK
<1>4. /\ pc'[s] = label /\ kind'[s] = k /\ then'[s] = ret /\ got'[s] = got[s]
      /\ applied'[s] = applied[s] /\ notice'[s] = notice[s]
  BY <1>1 DEF ChangeInv, ChangeTypeOK
<1>5. applied[s] = None /\ notice[s] = None /\ got[s] <= rev
  BY <1>1 DEF ChangeInv, CallOK, AppliedOK, HandOK
<1>6. CallOK(s)'
  BY <1>1, <1>4, <1>5 DEF CallOK, HandOK, BuiltOK, AppliedOK
<1>7. exists \/ UncreatedAt(s)'
  BY <1>4, <1>1 DEF UncreatedAt, ChangeInv, Uncreated
<1>8. GroupGrows
  BY <1>1, GroupStays DEF ChangeInv
<1> QED BY <1>1, <1>2, <1>3, <1>6, <1>7, <1>8, OneCallMoves

LEMMA StartKeeps ==
    ASSUME ChangeInv, NEW s \in Calls,
           (~exists /\ CreateGroup(s)) \/ (exists /\ StartChange(s))
    PROVE  ChangeInv'
<1> USE NoChangeType DEF ChangeKinds, AdminKinds
<1>1. CASE CreateGroup(s)
  BY <1>1, AskKeeps DEF CreateGroup
<1>2. CASE exists /\ \E a \in ACIs, role \in {"default", "admin"} : SetMemberRole(s, a, role)
  <2>1. PICK a \in ACIs, role \in {"default", "admin"} : SetMemberRole(s, a, role)
    BY <1>2
  <2>2. [NoChange EXCEPT !.who = a, !.role = role] \in Changes
    BY DEF Changes, Roles
  <2> QED BY <1>2, <2>1, <2>2, AskKeeps DEF SetMemberRole
<1>3. CASE exists /\ \E a \in ACIs : RemoveMember(s, a)
  <2>1. PICK a \in ACIs : RemoveMember(s, a)
    BY <1>3
  <2>2. [NoChange EXCEPT !.who = a] \in Changes
    BY DEF Changes
  <2> QED BY <1>3, <2>1, <2>2, AskKeeps DEF RemoveMember
<1>4. CASE exists /\ \E a \in ACIs : AddMember(s, a)
  <2>1. PICK a \in ACIs : AddMember(s, a)
    BY <1>4
  <2>2. [NoChange EXCEPT !.who = a, !.role = "default"] \in Changes
    BY DEF Changes, Roles
  <2> QED BY <1>4, <2>1, <2>2, AskKeeps DEF AddMember
<1>5. CASE exists /\ \E access \in {"any", "approval"} : EnableGroupInviteLink(s, access)
  <2>1. PICK access \in {"any", "approval"} : EnableGroupInviteLink(s, access)
    BY <1>5
  <2>2. [NoChange EXCEPT !.link = access] \in Changes
    BY DEF Changes, Links
  <2> QED BY <1>5, <2>1, <2>2, AskKeeps DEF EnableGroupInviteLink
<1>6. CASE exists /\ (modifyGroupAttribute(s) \/ LeaveGroup(s) \/ JoinGroupViaInviteLink(s))
  BY <1>6, AskKeeps DEF modifyGroupAttribute, LeaveGroup, JoinGroupViaInviteLink
<1> QED BY <1>1, <1>2, <1>3, <1>4, <1>5, <1>6 DEF StartChange

\* Every builder ties its change to the revision it is given, and a join asks
\* for what the link allows.
LEMMA BuildFacts ==
    ASSUME ChangeTypeOK, NEW s \in Calls, got[s] \in Revs
    PROVE  /\ Build(s) \in Changes
           /\ Build(s).version = got[s] + 1
           /\ kind[s] = "leave" => Build(s).who = Self /\ Build(s).role = "none"
           /\ kind[s] = "join" /\ hist[got[s]].link # "off" =>
                (Build(s).role = "default" <=> hist[got[s]].link = "any")
<1> DEFINE c == change[s]
           r == got[s]
           v == VersionAfter(r)
<1>1. c \in Changes /\ hist[r] \in GroupStates
  BY DEF ChangeTypeOK, GroupTypeOK
<1>2. v \in 0..(MaxRev + 1) /\ v = r + 1
  BY DEF VersionAfter
<1>3. c.who \in ACIs /\ c.role \in Roles \cup {"keep"} /\ c.link \in Links \cup {"keep"}
  BY <1>1 DEF Changes
<1>4. hist[r].link \in Links
  BY <1>1 DEF GroupStates
<1>5. NoChange = [who |-> Self, role |-> "keep", link |-> "keep", version |-> 0]
  BY DEF NoChange
<1>6. CASE kind[s] = "role"
  <2>1. Build(s) = [who |-> c.who, role |-> c.role, link |-> "keep", version |-> v]
    BY <1>6, <1>5 DEF Build, BuildModifyRoleActions
  <2> HIDE DEF v, c, r
  <2> QED BY <1>6, <1>2, <1>3, <2>1 DEF Changes, r
<1>7. CASE kind[s] = "remove"
  <2>1. Build(s) = [who |-> c.who, role |-> "none", link |-> "keep", version |-> v]
    BY <1>7, <1>5 DEF Build, BuildRemoveMemberActions
  <2> HIDE DEF v, c, r
  <2> QED BY <1>7, <1>2, <1>3, <2>1 DEF Changes, r, Roles
<1>8. CASE kind[s] = "add"
  <2>1. Build(s) = [who |-> c.who, role |-> c.role, link |-> "keep", version |-> v]
    BY <1>8, <1>5 DEF Build, BuildAddMemberActions
  <2> HIDE DEF v, c, r
  <2> QED BY <1>8, <1>2, <1>3, <2>1 DEF Changes, r
<1>9. CASE kind[s] = "link"
  <2>1. Build(s) = [who |-> Self, role |-> "keep", link |-> c.link, version |-> v]
    BY <1>9, <1>5 DEF Build, BuildEnableInviteLinkActions
  <2> HIDE DEF v, c, r
  <2> QED BY <1>9, <1>2, <1>3, <2>1 DEF Changes, r
<1>10. CASE kind[s] = "leave"
  <2>1. Build(s) = [who |-> Self, role |-> "none", link |-> "keep", version |-> v]
    BY <1>10, <1>5 DEF Build, BuildLeaveActions
  <2> HIDE DEF v, c, r
  <2> QED BY <1>10, <1>2, <2>1 DEF Changes, r, Roles
<1>11. CASE kind[s] = "attr"
  <2>1. Build(s) = [who |-> Self, role |-> "keep", link |-> "keep", version |-> v]
    BY <1>11, <1>5 DEF Build, BuildModifyTitleActions
  <2> HIDE DEF v, c, r
  <2> QED BY <1>11, <1>2, <2>1 DEF Changes, r
<1>12. CASE kind[s] = "join" /\ hist[r].link = "approval"
  <2>1. Build(s) = [who |-> Self, role |-> "requesting", link |-> "keep", version |-> v]
    BY <1>12, <1>5 DEF Build, BuildJoinRequestActions
  <2> HIDE DEF v, c
  <2> QED BY <1>12, <1>2, <2>1 DEF Changes, Roles
<1>13. CASE /\ kind[s] \notin {"role", "remove", "add", "link", "leave", "attr"}
            /\ ~(kind[s] = "join" /\ hist[r].link = "approval")
  <2>1. Build(s) = [who |-> Self, role |-> "default", link |-> "keep", version |-> v]
    BY <1>13, <1>5 DEF Build, BuildJoinViaInviteLinkActions
  <2> HIDE DEF v, c
  <2> QED BY <1>13, <1>2, <1>4, <2>1 DEF Changes, Roles, Links
<1> QED BY <1>6, <1>7, <1>8, <1>9, <1>10, <1>11, <1>12, <1>13

\* The change is built on the state in hand, which permits it.
LEMMA CheckKeeps == ASSUME ChangeInv, NEW s \in Calls, Check(s) PROVE ChangeInv'
<1>1. /\ pc[s] = "check"
      /\ UNCHANGED <<rev, hist, floor, snapshots, advertised, faults, groupRevision, expireTimer,
                     endorsed, kind, then, from, cursor, pages, got, began, exists, applied, notice>>
  BY DEF Check, serviceVars, cacheVars, pageVars
<1>2. got[s] \in Revs /\ applied[s] = None /\ notice[s] = None /\ got[s] <= rev /\ kind[s] # "join"
  BY <1>1 DEF ChangeInv, ChangeTypeOK, GroupTypeOK, CallOK, HandOK, AppliedOK
<1>3. exists /\ GroupGrows
  BY <1>1, PastCreation, GroupStays DEF ChangeInv
<1>4. CASE MayBuild(s)
  <2>1. change' = [change EXCEPT ![s] = Build(s)]
        /\ pc' = [pc EXCEPT ![s] = IF kind[s] = "add" THEN "present" ELSE "patch"]
    BY <1>4 DEF Check, Goto
  <2>2. ChangeTypeOK'
    BY <1>1, <1>2, <2>1, BuildFacts DEF ChangeInv, ChangeTypeOK, GroupTypeOK, ChangeLabels
  <2>3. \A t \in Calls \ {s} : SameChange(t)
    BY <1>1, <2>1 DEF SameChange, ChangeInv, ChangeTypeOK
  <2>4. change'[s] = Build(s) /\ pc'[s] = (IF kind[s] = "add" THEN "present" ELSE "patch")
    BY <2>1 DEF ChangeInv, ChangeTypeOK
  <2>5. BuiltOK(s)'
    <3>1. Permits(hist[got[s]], kind[s], Build(s))
      BY <1>2, <1>4 DEF Permits, MayBuild
    <3>2. Build(s).version = got[s] + 1
          /\ (kind[s] = "leave" => Build(s).who = Self /\ Build(s).role = "none")
      BY <1>2, BuildFacts DEF ChangeInv
    <3> QED BY <1>1, <1>2, <2>4, <3>1, <3>2 DEF BuiltOK
  <2>6. HandOK(s)' /\ AppliedOK(s)'
    BY <1>1, <1>2, <2>4 DEF HandOK, AppliedOK
  <2> QED BY <1>1, <1>3, <2>2, <2>3, <2>5, <2>6, OneCallMoves DEF CallOK
<1>5. CASE ~MayBuild(s)
  <2>1. change' = change /\ pc' = [pc EXCEPT ![s] = "failed"]
    BY <1>5 DEF Check, Goto
  <2>2. ChangeTypeOK'
    BY <1>1, <2>1 DEF ChangeInv, ChangeTypeOK, GroupTypeOK, SyncLabels
  <2>3. (\A t \in Calls \ {s} : SameChange(t)) /\ pc'[s] = "failed"
    BY <1>1, <2>1 DEF SameChange, ChangeInv, ChangeTypeOK
  <2>4. CallOK(s)'
    BY <1>1, <1>2, <2>3 DEF CallOK, HandOK, BuiltOK, AppliedOK
  <2> QED BY <1>1, <1>3, <2>2, <2>3, <2>4, OneCallMoves
<1> QED BY <1>4, <1>5

LEMMA PreviewKeeps ==
    ASSUME ChangeInv, NEW s \in Calls, PreviewGroupJoin(s)
    PROVE  ChangeInv'
<1>1. /\ pc[s] = "preview"
      /\ UNCHANGED <<rev, hist, floor, snapshots, advertised, faults, groupRevision, expireTimer,
                     endorsed, kind, then, from, cursor, pages, began, exists, change, applied,
                     notice>>
  BY DEF PreviewGroupJoin, serviceVars, cacheVars, pageVars, changeVars
<1>2. applied[s] = None /\ notice[s] = None /\ got[s] <= rev /\ rev \in Revs /\ got[s] \in Snapshots
  BY <1>1 DEF ChangeInv, ChangeTypeOK, GroupTypeOK, CallOK, HandOK, AppliedOK
<1>3. exists /\ GroupGrows
  BY <1>1, PastCreation, GroupStays DEF ChangeInv
<1>4. kind[s] = "join" /\ then[s] # "check"
  BY <1>1 DEF ChangeInv, CallOK, HandOK
<1>5. CASE exists /\ Now.link # "off"
  <2>1. got' = [got EXCEPT ![s] = rev] /\ pc' = [pc EXCEPT ![s] = "present"]
    BY <1>5 DEF PreviewGroupJoin, Goto
  <2>2. ChangeTypeOK'
    BY <1>1, <1>2, <2>1 DEF ChangeInv, ChangeTypeOK, GroupTypeOK, ChangeLabels
  <2>3. (\A t \in Calls \ {s} : SameChange(t)) /\ pc'[s] = "present" /\ got'[s] = rev
    BY <1>1, <2>1 DEF SameChange, ChangeInv, ChangeTypeOK, GroupTypeOK
  <2>4. HandOK(s)'
    BY <1>1, <1>2, <1>4, <1>5, <2>3 DEF HandOK, Now
  <2>5. BuiltOK(s)' /\ AppliedOK(s)'
    BY <1>1, <1>2, <1>4, <2>3 DEF BuiltOK, AppliedOK
  <2> QED BY <1>1, <1>3, <2>2, <2>3, <2>4, <2>5, OneCallMoves DEF CallOK
<1>6. CASE ~(exists /\ Now.link # "off")
  <2>1. got' = got /\ pc' = [pc EXCEPT ![s] = "failed"]
    BY <1>6 DEF PreviewGroupJoin, Goto
  <2>2. ChangeTypeOK'
    BY <1>1, <2>1 DEF ChangeInv, ChangeTypeOK, GroupTypeOK, SyncLabels
  <2>3. (\A t \in Calls \ {s} : SameChange(t)) /\ pc'[s] = "failed"
    BY <1>1, <2>1 DEF SameChange, ChangeInv, ChangeTypeOK
  <2>4. CallOK(s)'
    BY <1>1, <1>2, <1>4, <2>1, <2>3 DEF CallOK, HandOK, BuiltOK, AppliedOK
  <2> QED BY <1>1, <1>3, <2>2, <2>3, <2>4, OneCallMoves
<1> QED BY <1>5, <1>6

LEMMA PresentKeeps ==
    ASSUME ChangeInv, NEW s \in Calls, memberPresentationForAdd(s)
    PROVE  ChangeInv'
<1>1. /\ pc[s] = "present"
      /\ pc' = [pc EXCEPT ![s] = IF kind[s] = "create" THEN "put" ELSE "patch"]
      /\ change' = IF kind[s] = "join" THEN [change EXCEPT ![s] = Build(s)] ELSE change
      /\ UNCHANGED <<rev, hist, floor, snapshots, advertised, faults, groupRevision, expireTimer,
                     endorsed, kind, then, from, cursor, pages, got, began, exists, applied, notice>>
  BY DEF memberPresentationForAdd, Goto, serviceVars, cacheVars, pageVars
<1>2. /\ applied[s] = None /\ notice[s] = None /\ got[s] <= rev /\ got[s] \in Snapshots
      /\ kind[s] \in {"add", "join", "create"}
      /\ kind[s] = "join" => got[s] \in Revs /\ hist[got[s]].link # "off"
      /\ then[s] = "check" => kind[s] # "join"
  BY <1>1 DEF ChangeInv, ChangeTypeOK, GroupTypeOK, CallOK, HandOK, AppliedOK
<1>3. ChangeTypeOK'
  BY <1>1, <1>2, BuildFacts DEF ChangeInv, ChangeTypeOK, GroupTypeOK, ChangeLabels
<1>4. \A t \in Calls \ {s} : SameChange(t)
  BY <1>1 DEF SameChange, ChangeInv, ChangeTypeOK
<1>5. /\ pc'[s] = (IF kind[s] = "create" THEN "put" ELSE "patch")
      /\ change'[s] = (IF kind[s] = "join" THEN Build(s) ELSE change[s])
  BY <1>1 DEF ChangeInv, ChangeTypeOK
<1>6. BuiltOK(s)'
  <2>1. CASE kind[s] = "add"
    BY <1>1, <1>5, <2>1 DEF ChangeInv, CallOK, BuiltOK
  <2>2. CASE kind[s] = "join"
    <3>1. Permits(hist[got[s]], kind[s], Build(s)) /\ Build(s).version = got[s] + 1
      BY <1>2, <2>2, BuildFacts DEF Permits, AdminKinds, ChangeInv
    <3> QED BY <1>1, <1>2, <1>5, <2>2, <3>1 DEF BuiltOK
  <2>3. CASE kind[s] = "create"
    BY <1>5, <2>3 DEF BuiltOK
  <2> QED BY <1>2, <2>1, <2>2, <2>3
<1>7. HandOK(s)' /\ AppliedOK(s)'
  BY <1>1, <1>2, <1>5 DEF HandOK, AppliedOK
<1>8. exists \/ UncreatedAt(s)'
  BY <1>1, <1>5 DEF UncreatedAt, ChangeInv, Uncreated
<1>9. GroupGrows
  BY <1>1, GroupStays DEF ChangeInv
<1> QED BY <1>1, <1>3, <1>4, <1>6, <1>7, <1>8, <1>9, OneCallMoves DEF CallOK

LEMMA PatchedRole ==
    ASSUME NEW g \in GroupStates, NEW c \in Changes
    PROVE  Patched(g, c).role = [g.role EXCEPT ![c.who] = IF c.role = "keep" THEN @ ELSE c.role]
  BY DEF Patched, GroupStates

LEMMA PatchedState ==
    ASSUME NEW g \in GroupStates, NEW c \in Changes
    PROVE  Patched(g, c) \in GroupStates
<1>1. /\ g.role \in [ACIs -> Roles] /\ g.link \in Links
      /\ c.who \in ACIs /\ c.role \in Roles \cup {"keep"} /\ c.link \in Links \cup {"keep"}
  BY DEF GroupStates, Changes
<1>2. [g.role EXCEPT ![c.who] = IF c.role = "keep" THEN @ ELSE c.role] \in [ACIs -> Roles]
  BY <1>1
<1> QED BY <1>1, <1>2 DEF Patched, GroupStates

\* The snapshot a change follows is the newest revision when it is accepted,
\* and stays the one before it.
LEMMA AcceptedKeeps ==
    ASSUME ChangeInv, NEW s \in Calls, PatchAccepted(s)
    PROVE  ChangeInv'
<1> DEFINE g == Patched(Now, change[s])
<1>1. /\ pc[s] = "patch" /\ change[s].version = rev + 1 /\ Sender(s)
      /\ rev < MaxRev /\ rev' = rev + 1 /\ hist' = [hist EXCEPT ![rev + 1] = g]
      /\ applied' = [applied EXCEPT ![s] = rev + 1]
      /\ then' = [then EXCEPT ![s] = IF kind[s] = "join" THEN "done" ELSE "notify"]
      /\ pc' = [pc EXCEPT ![s] = AfterPatch(s)] \/ pc' = [pc EXCEPT ![s] = "failed"]
      /\ UNCHANGED <<floor, snapshots, advertised, groupRevision, expireTimer,
                     endorsed, kind, from, cursor, pages, got, began, exists, change, notice>>
  BY DEF PatchAccepted, Accept, Following, Goto, cacheVars, pageVars
<1>2. faults' \in 0..MaxFaults
  BY DEF PatchAccepted, ChangeInv, ChangeTypeOK, GroupTypeOK
<1>3. /\ rev \in Revs /\ got[s] \in Snapshots /\ Now \in GroupStates /\ change[s] \in Changes
      /\ groupRevision \in Revs /\ hist \in [Revs -> GroupStates]
  BY DEF ChangeInv, ChangeTypeOK, GroupTypeOK, Now
<1>4. /\ got[s] # None /\ change[s].version = got[s] + 1
      /\ Permits(hist[got[s]], kind[s], change[s])
      /\ kind[s] = "leave" => change[s].who = Self /\ change[s].role = "none"
      /\ notice[s] = None
  BY <1>1 DEF ChangeInv, CallOK, BuiltOK, AppliedOK
<1>5. got[s] = rev
  BY <1>1, <1>3, <1>4
<1>6. /\ g.role = [Now.role EXCEPT ![change[s].who] =
                     IF change[s].role = "keep" THEN @ ELSE change[s].role]
      /\ g \in GroupStates
  BY <1>3, PatchedRole, PatchedState
<1> HIDE DEF g
<1>7. rev + 1 \in Revs /\ hist' \in [Revs -> GroupStates] /\ hist'[rev + 1] = g
      /\ \A r \in 0..rev : hist'[r] = hist[r]
  BY <1>1, <1>3, <1>6
<1>8. ChangeTypeOK'
  <2>1. pc' \in [Calls -> SyncLabels \cup ChangeLabels]
    BY <1>1 DEF AfterPatch, ChangeInv, ChangeTypeOK, SyncLabels, ChangeLabels
  <2>2. then' \in [Calls -> {"done", "store", "check", "notify"}] /\ applied' \in [Calls -> Snapshots]
    BY <1>1, <1>7 DEF ChangeInv, ChangeTypeOK
  <2>3. GroupTypeOK'
    BY <1>1, <1>2, <1>7 DEF ChangeInv, ChangeTypeOK, GroupTypeOK
  <2> QED BY <1>1, <2>1, <2>2, <2>3 DEF ChangeInv, ChangeTypeOK
<1>9. \A t \in Calls \ {s} : SameChange(t)
  BY <1>1 DEF SameChange, ChangeInv, ChangeTypeOK
<1>10. GroupGrows /\ exists
  BY <1>1, <1>3, <1>7, PastCreation DEF GroupGrows
<1>11. /\ applied'[s] = rev + 1 /\ then'[s] \in {"done", "notify"}
       /\ pc'[s] \in {"fetch", "forget", "failed"}
  BY <1>1 DEF AfterPatch, ChangeInv, ChangeTypeOK
<1>12. AppliedOK(s)'
  <2>1. Permits(hist'[(rev + 1) - 1], kind[s], change[s])
    <3>1. (rev + 1) - 1 = rev /\ rev \in 0..rev
      BY <1>3
    <3>2. hist'[(rev + 1) - 1] = hist[rev]
      BY <3>1, <1>7
    <3> QED BY <3>2, <1>4, <1>5
  <2>2. 1 <= rev + 1 /\ rev + 1 <= rev'
    BY <1>1, <1>3
  <2> QED BY <1>1, <1>4, <1>11, <2>1, <2>2 DEF AppliedOK
<1>13. HandOK(s)' /\ BuiltOK(s)'
  BY <1>1, <1>3, <1>5, <1>11 DEF HandOK, BuiltOK
<1> QED BY <1>1, <1>8, <1>9, <1>10, <1>12, <1>13, OneCallMoves DEF CallOK

\* A call that only moves on: its change is refused, a request fails.
LEMMA MovesOnKeeps ==
    ASSUME ChangeInv, NEW s \in Calls, PatchRefused(s) \/ ChangeFault(s)
    PROVE  ChangeInv'
<1>1. /\ pc[s] \in {"preview", "present", "patch", "put"}
      /\ pc' = [pc EXCEPT ![s] = "fetch"] \/ pc' = [pc EXCEPT ![s] = "failed"]
      /\ pc' = [pc EXCEPT ![s] = "fetch"] => pc[s] = "patch"
      /\ UNCHANGED <<rev, hist, floor, snapshots, advertised, groupRevision, expireTimer,
                     endorsed, kind, then, from, cursor, pages, got, began, exists, change,
                     applied, notice>>
  <2>1. CASE PatchRefused(s)
    BY <2>1 DEF PatchRefused, Goto, serviceVars, cacheVars, pageVars, changeVars
  <2>2. CASE ChangeFault(s)
    <3>1. pc' = [pc EXCEPT ![s] = "failed"] /\ pc'[s] = "failed"
      BY <2>2 DEF ChangeFault, Goto, ChangeInv, ChangeTypeOK
    <3>2. pc' # [pc EXCEPT ![s] = "fetch"]
      BY <3>1 DEF ChangeInv, ChangeTypeOK
    <3> QED
      BY <2>2, <3>1, <3>2 DEF ChangeFault, serviceVars, cacheVars, pageVars, changeVars
  <2> QED BY <2>1, <2>2
<1>2. faults' \in 0..MaxFaults
  BY DEF PatchRefused, ChangeFault, ChangeInv, ChangeTypeOK, GroupTypeOK
<1>3. applied[s] = None /\ notice[s] = None /\ got[s] <= rev
      /\ (then[s] = "check" => kind[s] # "join")
  BY <1>1 DEF ChangeInv, CallOK, HandOK, AppliedOK
<1>4. ChangeTypeOK'
  BY <1>1, <1>2 DEF ChangeInv, ChangeTypeOK, GroupTypeOK, SyncLabels
<1>5. (\A t \in Calls \ {s} : SameChange(t)) /\ pc'[s] \in {"fetch", "failed"}
      /\ (pc'[s] = "fetch" => pc[s] = "patch")
  BY <1>1 DEF SameChange, ChangeInv, ChangeTypeOK
<1>6. CallOK(s)'
  BY <1>1, <1>3, <1>5 DEF CallOK, HandOK, BuiltOK, AppliedOK
<1>7. exists \/ UncreatedAt(s)'
  BY <1>1, <1>5 DEF UncreatedAt, ChangeInv, Uncreated
<1>8. GroupGrows
  BY <1>1, GroupStays DEF ChangeInv
<1> QED BY <1>1, <1>4, <1>5, <1>6, <1>7, <1>8, OneCallMoves

LEMMA ForgetKeeps == ASSUME ChangeInv, NEW s \in Calls, Forget(s) PROVE ChangeInv'
<1>1. /\ pc[s] = "forget" /\ groupRevision' = 0 /\ endorsed' = {}
      /\ pc' = [pc EXCEPT ![s] = "done"]
      /\ UNCHANGED <<rev, hist, floor, snapshots, advertised, faults, expireTimer,
                     kind, then, from, cursor, pages, got, began, exists, change,
                     applied, notice>>
  BY DEF Forget, deleteGroupRevision, Goto, serviceVars, pageVars, changeVars
<1>2. ChangeTypeOK'
  BY <1>1 DEF ChangeInv, ChangeTypeOK, GroupTypeOK, SyncLabels
<1>3. (\A t \in Calls \ {s} : SameChange(t)) /\ pc'[s] = "done"
  BY <1>1 DEF SameChange, ChangeInv, ChangeTypeOK
<1>4. notice[s] = None
  BY <1>1 DEF ChangeInv, CallOK, AppliedOK
<1>5. GroupGrows
  BY <1>1, GroupStays DEF ChangeInv
<1>6. HandOK(s)' /\ BuiltOK(s)'
  BY <1>1, <1>3 DEF ChangeInv, CallOK, HandOK, BuiltOK
<1>7. AppliedOK(s)'
  BY <1>1, <1>3, <1>4 DEF ChangeInv, CallOK, AppliedOK
<1> QED BY <1>1, <1>2, <1>3, <1>5, <1>6, <1>7, PastCreation, OneCallMoves DEF CallOK

LEMMA NotifyKeeps ==
    ASSUME ChangeInv, NEW s \in Calls, sendGroupChangeNotification(s)
    PROVE  ChangeInv'
<1>1. /\ pc[s] = "notify" /\ pc' = [pc EXCEPT ![s] = "done"]
      /\ notice' = [notice EXCEPT ![s] = got[s]] \/ notice' = notice
      /\ UNCHANGED <<rev, hist, floor, snapshots, advertised, faults, groupRevision, expireTimer,
                     endorsed, kind, then, from, cursor, pages, got, began, exists, change,
                     applied>>
  BY DEF sendGroupChangeNotification, buildGroupUpdateContent, Goto, serviceVars, cacheVars,
     pageVars
<1>2. ChangeTypeOK'
  BY <1>1 DEF ChangeInv, ChangeTypeOK, GroupTypeOK, SyncLabels
<1>3. (\A t \in Calls \ {s} : SameChange(t)) /\ pc'[s] = "done" /\ notice'[s] \in {got[s], notice[s]}
  BY <1>1 DEF SameChange, ChangeInv, ChangeTypeOK
<1>4. notice[s] = None /\ (applied[s] # None => got[s] >= applied[s])
  BY <1>1 DEF ChangeInv, CallOK, AppliedOK
<1>5. HandOK(s)' /\ BuiltOK(s)'
  BY <1>1, <1>3 DEF ChangeInv, CallOK, HandOK, BuiltOK
<1>6. AppliedOK(s)'
  BY <1>1, <1>3, <1>4 DEF ChangeInv, CallOK, AppliedOK
<1>7. GroupGrows
  BY <1>1, GroupStays DEF ChangeInv
<1> QED BY <1>1, <1>2, <1>3, <1>5, <1>6, <1>7, PastCreation, OneCallMoves DEF CallOK

\* The group begins: nobody has anything of it in hand yet.
LEMMA PutKeeps == ASSUME ChangeInv, NEW s \in Calls, PutGroup(s) PROVE ChangeInv'
<1>1. /\ pc[s] = "put"
      /\ UNCHANGED <<rev, floor, snapshots, advertised, groupRevision, expireTimer, endorsed,
                     kind, then, from, cursor, pages, began, change, applied, notice>>
  BY DEF PutGroup, cacheVars, pageVars
<1>2. applied[s] = None /\ notice[s] = None /\ got[s] <= rev
      /\ (then[s] = "check" => kind[s] # "join")
  BY <1>1 DEF ChangeInv, CallOK, HandOK, AppliedOK
<1>3. CASE exists
  <2>1. pc' = [pc EXCEPT ![s] = "failed"] /\ UNCHANGED <<hist, exists, got, faults>>
    BY <1>3 DEF PutGroup, Goto
  <2>2. ChangeTypeOK'
    BY <1>1, <2>1 DEF ChangeInv, ChangeTypeOK, GroupTypeOK, SyncLabels
  <2>3. (\A t \in Calls \ {s} : SameChange(t)) /\ pc'[s] = "failed"
    BY <1>1, <2>1 DEF SameChange, ChangeInv, ChangeTypeOK
  <2>4. CallOK(s)'
    BY <1>1, <1>2, <2>1, <2>3 DEF CallOK, HandOK, BuiltOK, AppliedOK
  <2>5. GroupGrows
    BY <1>1, <2>1, GroupStays DEF ChangeInv
  <2> QED BY <1>3, <2>1, <2>2, <2>3, <2>4, <2>5, OneCallMoves
<1>4. CASE ~exists
  <2>1. rev = 0 /\ \A t \in Calls : UncreatedAt(t)
    BY <1>4 DEF ChangeInv, Uncreated
  <2>2. PICK known \in SUBSET ACIs, timer \in Timers :
          hist' = [hist EXCEPT ![0] = BuildNewGroupMessage(known, timer)]
    BY <1>4 DEF PutGroup
  <2>3. BuildNewGroupMessage(known, timer) \in GroupStates
    BY DEF BuildNewGroupMessage, buildCreateGroupMembers, GroupStates, Roles, Links
  <2>4. hist' \in [Revs -> GroupStates]
    BY <2>2, <2>3 DEF ChangeInv, ChangeTypeOK, GroupTypeOK
  <2>5. /\ exists' = TRUE
        /\ \/ pc' = [pc EXCEPT ![s] = "created"] /\ got' = [got EXCEPT ![s] = 0]
           \/ pc' = [pc EXCEPT ![s] = "failed"] /\ got' = got
        /\ faults' \in 0..MaxFaults
    BY <1>4 DEF PutGroup, Goto, ChangeInv, ChangeTypeOK, GroupTypeOK
  <2>6. ChangeTypeOK'
    <3>1. pc' \in [Calls -> SyncLabels \cup ChangeLabels]
      BY <2>5 DEF ChangeInv, ChangeTypeOK, SyncLabels, ChangeLabels
    <3>2. got' \in [Calls -> Snapshots]
      <4>1. 0 \in Snapshots /\ got \in [Calls -> Snapshots]
        BY DEF ChangeInv, ChangeTypeOK, GroupTypeOK
      <4> QED BY <2>5, <4>1
    <3>3. GroupTypeOK'
      BY <1>1, <2>4, <2>5, <3>2 DEF ChangeInv, ChangeTypeOK, GroupTypeOK
    <3> QED BY <1>1, <2>5, <3>1, <3>3 DEF ChangeInv, ChangeTypeOK
  <2>7. ASSUME NEW t \in Calls PROVE CallOK(t)'
    <3>1. /\ applied[t] = None /\ notice[t] = None /\ got[t] = None
          /\ pc[t] \in {"idle", "present", "put", "failed"} /\ (pc[t] = "present" => kind[t] = "create")
          /\ (then[t] = "check" => kind[t] # "join")
      BY <2>1 DEF UncreatedAt, ChangeInv, CallOK, HandOK, AppliedOK
    <3>2. /\ got'[t] \in {0, None} /\ (pc'[t] = "created" => got'[t] = 0)
          /\ pc'[t] \in {"idle", "present", "put", "failed", "created"}
          /\ (pc'[t] = "present" => kind[t] = "create")
      BY <2>5, <3>1 DEF ChangeInv, ChangeTypeOK, GroupTypeOK
    <3> QED
      BY <1>1, <2>1, <3>1, <3>2 DEF CallOK, HandOK, BuiltOK, AppliedOK
  <2> QED BY <2>5, <2>6, <2>7 DEF ChangeInv, Uncreated
<1> QED BY <1>3, <1>4

LEMMA CreatedKeeps == ASSUME ChangeInv, NEW s \in Calls, Created(s) PROVE ChangeInv'
<1>1. /\ pc[s] = "created" /\ storeGroupRevision(got[s]) /\ storeGroupSendEndorsements(got[s])
      /\ pc' = [pc EXCEPT ![s] = "notify"]
      /\ UNCHANGED <<rev, hist, floor, snapshots, advertised, faults, expireTimer,
                     kind, then, from, cursor, pages, got, began, exists, change,
                     applied, notice>>
  BY DEF Created, Goto, serviceVars, pageVars, changeVars
<1>2. got[s] \in Revs /\ got[s] <= rev /\ applied[s] = None /\ notice[s] = None
      /\ (then[s] = "check" => kind[s] # "join")
  BY <1>1 DEF ChangeInv, ChangeTypeOK, GroupTypeOK, CallOK, HandOK, AppliedOK
<1>3. groupRevision' \in Revs /\ groupRevision' >= groupRevision
  BY <1>1, <1>2, StoredRevision DEF ChangeInv
<1>4. endorsed' \in SUBSET ACIs
  BY <1>1 DEF storeGroupSendEndorsements, Members, ChangeInv, ChangeTypeOK, GroupTypeOK
<1>5. ChangeTypeOK'
  BY <1>1, <1>3, <1>4 DEF ChangeInv, ChangeTypeOK, GroupTypeOK, ChangeLabels
<1>6. (\A t \in Calls \ {s} : SameChange(t)) /\ pc'[s] = "notify"
  BY <1>1 DEF SameChange, ChangeInv, ChangeTypeOK
<1>7. CallOK(s)'
  BY <1>1, <1>2, <1>6 DEF CallOK, HandOK, BuiltOK, AppliedOK
<1>8. GroupGrows
  BY <1>1, GroupStays DEF ChangeInv
<1> QED BY <1>1, <1>5, <1>6, <1>7, <1>8, PastCreation, OneCallMoves

LEMMA ReturnKeeps == ASSUME ChangeInv, NEW s \in Calls, ChangeReturn(s) PROVE ChangeInv'
<1>1. /\ pc[s] \in {"done", "failed"} /\ pc' = [pc EXCEPT ![s] = "idle"]
      /\ kind' = [kind EXCEPT ![s] = "fetch"] /\ then' = [then EXCEPT ![s] = "done"]
      /\ got' = [got EXCEPT ![s] = None] /\ from' = [from EXCEPT ![s] = 0]
      /\ cursor' = [cursor EXCEPT ![s] = 0] /\ pages' = [pages EXCEPT ![s] = 0]
      /\ began' = [began EXCEPT ![s] = 0] /\ change' = [change EXCEPT ![s] = NoChange]
      /\ applied' = [applied EXCEPT ![s] = None] /\ notice' = [notice EXCEPT ![s] = None]
      /\ UNCHANGED <<rev, hist, floor, snapshots, advertised, faults, groupRevision, expireTimer,
                     endorsed, exists>>
  BY DEF ChangeReturn, Return, Goto, serviceVars, cacheVars
<1>2. ChangeTypeOK'
  <2>1. GroupTypeOK'
    BY <1>1 DEF ChangeInv, ChangeTypeOK, GroupTypeOK
  <2> QED BY <1>1, <2>1, NoChangeType DEF ChangeInv, ChangeTypeOK, SyncLabels, SyncKinds
<1>3. \A t \in Calls \ {s} : SameChange(t)
  BY <1>1 DEF SameChange, ChangeInv, ChangeTypeOK, GroupTypeOK
<1>4. /\ pc'[s] = "idle" /\ then'[s] = "done" /\ got'[s] = None
      /\ applied'[s] = None /\ notice'[s] = None
  BY <1>1 DEF ChangeInv, ChangeTypeOK, GroupTypeOK
<1>5. CallOK(s)' /\ UncreatedAt(s)'
  BY <1>1, <1>4 DEF CallOK, HandOK, BuiltOK, AppliedOK, UncreatedAt, ChangeInv, ChangeTypeOK,
     GroupTypeOK
<1>6. GroupGrows
  BY <1>1, GroupStays DEF ChangeInv
<1> QED BY <1>1, <1>2, <1>3, <1>5, <1>6, OneCallMoves

\* FetchGroup as every call runs it.  The state it brings after a change was
\* accepted includes that change.
LEMMA FetchedKeeps ==
    ASSUME ChangeInv, NEW s \in Calls, FetchSteps(s), UNCHANGED changeVars
    PROVE  ChangeInv'
<1>0. UNCHANGED <<exists, change, applied, notice>>
  BY DEF changeVars
<1>1. CASE FetchGroupState(s)
  <2>1. /\ pc[s] \in {"fetch", "nested"}
        /\ \/ got' = [got EXCEPT ![s] = rev] /\ pc' = [pc EXCEPT ![s] = "fetched"]
           \/ got' = got /\ pc' = [pc EXCEPT ![s] = "failed"]
        /\ UNCHANGED <<rev, hist, floor, snapshots, advertised, faults, groupRevision, expireTimer,
                       endorsed, kind, then, from, cursor, pages, began>>
    BY <1>1 DEF FetchGroupState, Goto, serviceVars, cacheVars, pageVars
  <2>2. rev \in Revs /\ got[s] \in Snapshots /\ got[s] <= rev
        /\ (then[s] = "check" => kind[s] # "join")
    BY DEF ChangeInv, ChangeTypeOK, GroupTypeOK, CallOK, HandOK
  <2>3. ChangeTypeOK'
    <3>1. pc' \in [Calls -> SyncLabels \cup ChangeLabels] /\ got' \in [Calls -> Snapshots]
      BY <2>1, <2>2 DEF ChangeInv, ChangeTypeOK, GroupTypeOK, SyncLabels
    <3> QED BY <1>0, <2>1, <3>1 DEF ChangeInv, ChangeTypeOK, GroupTypeOK
  <2>4. \A t \in Calls \ {s} : SameChange(t)
    BY <1>0, <2>1 DEF SameChange, ChangeInv, ChangeTypeOK, GroupTypeOK
  <2>5. \/ got'[s] = rev /\ pc'[s] = "fetched"
        \/ got'[s] = got[s] /\ pc'[s] = "failed"
    BY <2>1 DEF ChangeInv, ChangeTypeOK, GroupTypeOK
  <2>6. HandOK(s)' /\ BuiltOK(s)'
    BY <1>0, <2>1, <2>2, <2>5 DEF HandOK, BuiltOK
  <2>7. AppliedOK(s)'
    BY <1>0, <2>1, <2>2, <2>5 DEF ChangeInv, CallOK, AppliedOK
  <2>8. GroupGrows
    BY <2>1, GroupStays DEF ChangeInv
  <2> QED BY <1>0, <2>1, <2>3, <2>4, <2>6, <2>7, <2>8, PastCreation, OneCallMoves DEF CallOK
<1>2. CASE FetchGroup(s)
  <2>1. /\ pc[s] = "fetched" /\ storeGroupRevision(got[s]) /\ storeGroupSendEndorsements(got[s])
        /\ expireTimer' \in {hist[got[s]].timer, expireTimer}
        /\ pc' = [pc EXCEPT ![s] = then[s]]
        /\ UNCHANGED <<rev, hist, floor, snapshots, advertised, faults,
                       kind, then, from, cursor, pages, got, began>>
    BY <1>2 DEF FetchGroup, Goto, serviceVars, pageVars
  <2>2. got[s] \in Revs /\ got[s] <= rev /\ hist[got[s]] \in GroupStates
        /\ then[s] \in {"done", "store", "check", "notify"}
        /\ (then[s] = "check" => kind[s] # "join")
    BY <2>1 DEF ChangeInv, ChangeTypeOK, GroupTypeOK, CallOK, HandOK
  <2>3. groupRevision' \in Revs /\ groupRevision' >= groupRevision /\ groupRevision' >= got[s]
    BY <2>1, <2>2, StoredRevision DEF ChangeInv
  <2>4. endorsed' \in SUBSET ACIs /\ expireTimer' \in Timers
    BY <2>1, <2>2 DEF storeGroupSendEndorsements, Members, GroupStates, ChangeInv, ChangeTypeOK,
       GroupTypeOK
  <2>5. ChangeTypeOK'
    <3>1. pc' \in [Calls -> SyncLabels \cup ChangeLabels]
      BY <2>1, <2>2 DEF ChangeInv, ChangeTypeOK, SyncLabels, ChangeLabels
    <3> QED BY <1>0, <2>1, <2>3, <2>4, <3>1 DEF ChangeInv, ChangeTypeOK, GroupTypeOK
  <2>6. (\A t \in Calls \ {s} : SameChange(t)) /\ pc'[s] = then[s]
    BY <1>0, <2>1 DEF SameChange, ChangeInv, ChangeTypeOK, GroupTypeOK
  <2>7. HandOK(s)' /\ BuiltOK(s)'
    BY <1>0, <2>1, <2>2, <2>6 DEF HandOK, BuiltOK
  <2>8. AppliedOK(s)'
    <3>1. applied[s] # None => got[s] >= applied[s] /\ then[s] \in {"done", "notify"}
      BY <2>1 DEF ChangeInv, CallOK, AppliedOK
    <3> QED BY <1>0, <2>1, <2>2, <2>6, <3>1 DEF ChangeInv, CallOK, AppliedOK
  <2>9. GroupGrows
    BY <2>1, GroupStays DEF ChangeInv
  <2> QED BY <1>0, <2>1, <2>5, <2>6, <2>7, <2>8, <2>9, PastCreation, OneCallMoves DEF CallOK
<1> QED BY <1>1, <1>2 DEF FetchSteps

LEMMA FaultKeeps ==
    ASSUME ChangeInv, NEW s \in Calls, Fault(s), UNCHANGED changeVars
    PROVE  ChangeInv'
<1>1. /\ pc[s] \in {"fetch", "nested", "logs"} /\ faults' \in 0..MaxFaults
      /\ pc' = [pc EXCEPT ![s] = "failed"]
      /\ UNCHANGED <<rev, hist, floor, snapshots, advertised, groupRevision, expireTimer, endorsed,
                     kind, then, from, cursor, pages, got, began, exists, change, applied, notice>>
  BY DEF Fault, Goto, serviceVars, cacheVars, pageVars, changeVars, ChangeInv, ChangeTypeOK,
     GroupTypeOK
<1>2. ChangeTypeOK'
  BY <1>1 DEF ChangeInv, ChangeTypeOK, GroupTypeOK, SyncLabels
<1>3. (\A t \in Calls \ {s} : SameChange(t)) /\ pc'[s] = "failed"
  BY <1>1 DEF SameChange, ChangeInv, ChangeTypeOK
<1>4. HandOK(s)' /\ BuiltOK(s)'
  BY <1>1, <1>3 DEF ChangeInv, CallOK, HandOK, BuiltOK
<1>5. AppliedOK(s)'
  BY <1>1, <1>3 DEF ChangeInv, CallOK, AppliedOK
<1>6. GroupGrows
  BY <1>1, GroupStays DEF ChangeInv
<1> QED BY <1>1, <1>2, <1>3, <1>4, <1>5, <1>6, PastCreation, OneCallMoves DEF CallOK

\* An update that is dispatched starts a call that changes nothing itself.
LEMMA AutoStartKeeps ==
    ASSUME ChangeInv, NEW s \in Calls, NEW r \in Revs, maybeAutoSyncGroupUpdate(s, r),
           UNCHANGED changeVars
    PROVE  ChangeInv'
<1>1. /\ pc[s] = "idle" /\ r \in advertised /\ advertised' = advertised \ {r}
      /\ pc' = [pc EXCEPT ![s] = IF AutoSyncFrom(r) = 0 THEN "fetch" ELSE "logs"]
      /\ kind' = [kind EXCEPT ![s] = "auto"] /\ then' = [then EXCEPT ![s] = "store"]
      /\ began' = [began EXCEPT ![s] = rev]
      /\ from' = [from EXCEPT ![s] = AutoSyncFrom(r)]
      /\ cursor' = [cursor EXCEPT ![s] = AutoSyncFrom(r)]
      /\ UNCHANGED <<rev, hist, floor, snapshots, faults, groupRevision, expireTimer, endorsed,
                     pages, got, exists, change, applied, notice>>
  BY DEF maybeAutoSyncGroupUpdate, Begin, BeganNow, Goto, serviceVars, cacheVars, changeVars
<1>2. AutoSyncFrom(r) \in Revs
  BY DEF AutoSyncFrom, ChangeInv, ChangeTypeOK, GroupTypeOK
<1>3. ChangeTypeOK'
  <2>1. GroupTypeOK'
    BY <1>1, <1>2 DEF ChangeInv, ChangeTypeOK, GroupTypeOK
  <2> QED BY <1>1, <2>1 DEF ChangeInv, ChangeTypeOK, SyncLabels, SyncKinds
<1>4. \A t \in Calls \ {s} : SameChange(t)
  BY <1>1 DEF SameChange, ChangeInv, ChangeTypeOK
<1>5. pc'[s] \in {"fetch", "logs"} /\ then'[s] = "store"
  BY <1>1 DEF ChangeInv, ChangeTypeOK
<1>6. applied[s] = None /\ notice[s] = None /\ got[s] <= rev
  BY <1>1 DEF ChangeInv, CallOK, AppliedOK, HandOK
<1>7. CallOK(s)'
  BY <1>1, <1>5, <1>6 DEF CallOK, HandOK, BuiltOK, AppliedOK
<1>8. exists /\ GroupGrows
  BY <1>1, GroupStays DEF ChangeInv, Uncreated
<1> QED BY <1>1, <1>3, <1>4, <1>7, <1>8, OneCallMoves

LEMMA AutoLogsKeeps ==
    ASSUME ChangeInv, NEW s \in Calls, FetchGroupLogs(s), UNCHANGED changeVars
    PROVE  ChangeInv'
<1> DEFINE latest == IF snapshots THEN PageEnd(s) ELSE got[s]
<1>1. /\ pc[s] = "logs" /\ got' = [got EXCEPT ![s] = latest]
      /\ UNCHANGED <<rev, hist, floor, snapshots, advertised, faults, groupRevision, expireTimer,
                     endorsed, kind, then, from, began, exists, change, applied, notice>>
  BY DEF FetchGroupLogs, serviceVars, cacheVars, changeVars
<1>2. /\ rev \in Revs /\ cursor[s] \in Nat /\ pages[s] \in Nat
      /\ got[s] \in Snapshots /\ got[s] <= rev
  BY DEF ChangeInv, ChangeTypeOK, GroupTypeOK, CallOK, HandOK
<1>3. PageEnd(s) \in Revs /\ PageEnd(s) <= rev
      /\ (MorePages(s) => NextRevision(s) \in Revs /\ pages[s] + 1 \in 0..MaxPages)
  BY <1>2 DEF PageEnd, MorePages, NextRevision
<1>4. latest \in Snapshots /\ latest <= rev
  BY <1>2, <1>3
<1>5. \/ /\ pc' = pc /\ MorePages(s)
         /\ cursor' = [cursor EXCEPT ![s] = NextRevision(s)]
         /\ pages' = [pages EXCEPT ![s] = pages[s] + 1]
      \/ /\ pc' = [pc EXCEPT ![s] = IF latest = None THEN "nested" ELSE "synced"]
         /\ cursor' = cursor /\ pages' = pages
  BY DEF FetchGroupLogs, Goto
<1> HIDE DEF latest
<1>6. ChangeTypeOK'
  <2>1. cursor' \in [Calls -> Revs] /\ pages' \in [Calls -> 0..MaxPages]
        /\ got' \in [Calls -> Snapshots]
    BY <1>1, <1>3, <1>4, <1>5 DEF ChangeInv, ChangeTypeOK, GroupTypeOK
  <2>2. pc' \in [Calls -> SyncLabels \cup ChangeLabels]
    BY <1>5 DEF ChangeInv, ChangeTypeOK, SyncLabels
  <2>3. GroupTypeOK'
    BY <1>1, <2>1 DEF ChangeInv, ChangeTypeOK, GroupTypeOK
  <2> QED BY <1>1, <2>2, <2>3 DEF ChangeInv, ChangeTypeOK
<1>7. \A t \in Calls \ {s} : SameChange(t)
  BY <1>1, <1>5 DEF SameChange, ChangeInv, ChangeTypeOK, GroupTypeOK
<1>8. /\ got'[s] = latest
      /\ pc'[s] \in {"logs", "nested"} \/ (pc'[s] = "synced" /\ latest # None)
  BY <1>1, <1>5 DEF ChangeInv, ChangeTypeOK, GroupTypeOK
<1>9. applied[s] = None /\ notice[s] = None /\ (then[s] = "check" => kind[s] # "join")
  BY <1>1 DEF ChangeInv, CallOK, AppliedOK, HandOK
<1>10. CallOK(s)'
  BY <1>1, <1>4, <1>8, <1>9 DEF CallOK, HandOK, BuiltOK, AppliedOK
<1>11. exists /\ GroupGrows
  BY <1>1, PastCreation, GroupStays DEF ChangeInv
<1> QED BY <1>1, <1>6, <1>7, <1>10, <1>11, OneCallMoves

\* The auto-sync's own stores and its deletion touch the caches only.
LEMMA AutoStoreKeeps ==
    ASSUME ChangeInv, NEW s \in Calls, SyncRefused(s) \/ SyncGroup(s) \/ AutoSyncStore(s),
           UNCHANGED changeVars
    PROVE  ChangeInv'
<1>1. /\ pc[s] \in {"logs", "nested", "synced", "store"}
      /\ \E label \in {"fetch", "failed", "done", then[s]} :
           pc' = [pc EXCEPT ![s] = label] /\ (label = then[s] => label # "fetch")
             /\ (label \notin {"fetch", "failed", "done"} => pc[s] = "synced")
      /\ UNCHANGED <<rev, hist, floor, snapshots, advertised, faults, expireTimer,
                     kind, then, from, cursor, pages, got, began, exists, change, applied, notice>>
  <2>1. then[s] \in {"done", "store", "check", "notify"}
    BY DEF ChangeInv, ChangeTypeOK
  <2>2. CASE SyncRefused(s)
    BY <2>1, <2>2 DEF SyncRefused, Refused, Goto, serviceVars, pageVars, changeVars
  <2>3. CASE SyncGroup(s)
    BY <2>1, <2>3 DEF SyncGroup, Goto, serviceVars, pageVars, changeVars
  <2>4. CASE AutoSyncStore(s)
    BY <2>1, <2>4 DEF AutoSyncStore, Goto, serviceVars, pageVars, changeVars
  <2> QED BY <2>2, <2>3, <2>4
<1>2. groupRevision' \in Revs /\ endorsed' \in SUBSET ACIs
  <2>1. groupRevision \in Revs /\ endorsed \in SUBSET ACIs
    BY DEF ChangeInv, ChangeTypeOK, GroupTypeOK
  <2>2. CASE SyncRefused(s)
    BY <2>1, <2>2 DEF SyncRefused, deleteGroupRevision
  <2>3. CASE SyncGroup(s) \/ AutoSyncStore(s)
    <3>1. got[s] \in Revs /\ storeGroupRevision(got[s])
      BY <2>3 DEF SyncGroup, AutoSyncStore, ChangeInv, ChangeTypeOK, GroupTypeOK, CallOK, HandOK
    <3>2. endorsed' \in SUBSET ACIs
      BY <2>1, <2>3 DEF SyncGroup, AutoSyncStore, storeGroupSendEndorsements, Members
    <3> QED BY <3>1, <3>2, StoredRevision DEF ChangeInv
  <2> QED BY <2>2, <2>3
<1>3. PICK label \in {"fetch", "failed", "done", then[s]} :
        /\ pc' = [pc EXCEPT ![s] = label]
        /\ label \notin {"fetch", "failed", "done"} => label = then[s] /\ pc[s] = "synced"
  BY <1>1
<1>4. then[s] \in {"done", "store", "check", "notify"}
  BY DEF ChangeInv, ChangeTypeOK
<1>5. ChangeTypeOK'
  <2>1. pc' \in [Calls -> SyncLabels \cup ChangeLabels]
    BY <1>3, <1>4 DEF ChangeInv, ChangeTypeOK, SyncLabels, ChangeLabels
  <2> QED BY <1>1, <1>2, <2>1 DEF ChangeInv, ChangeTypeOK, GroupTypeOK
<1>6. (\A t \in Calls \ {s} : SameChange(t)) /\ pc'[s] = label
  BY <1>1, <1>3 DEF SameChange, ChangeInv, ChangeTypeOK
<1>7. /\ applied[s] = None /\ notice[s] = None /\ got[s] <= rev
      /\ (then[s] = "check" => kind[s] # "join") /\ (pc[s] = "synced" => got[s] # None)
  BY <1>1 DEF ChangeInv, CallOK, HandOK, AppliedOK
<1>8. CallOK(s)'
  BY <1>1, <1>3, <1>4, <1>6, <1>7 DEF CallOK, HandOK, BuiltOK, AppliedOK
<1>9. exists /\ GroupGrows
  BY <1>1, PastCreation, GroupStays DEF ChangeInv
<1> QED BY <1>1, <1>5, <1>6, <1>8, <1>9, OneCallMoves

LEMMA PruneKeepsChange == ASSUME ChangeInv, Prune, UNCHANGED changeVars PROVE ChangeInv'
<1>1. /\ floor' \in Revs
      /\ UNCHANGED <<rev, hist, snapshots, advertised, faults, groupRevision, expireTimer,
                     endorsed, pc, kind, then, from, cursor, pages, got, began, exists, change,
                     applied, notice>>
  BY DEF Prune, cacheVars, callVars, pageVars, changeVars, ChangeInv, ChangeTypeOK, GroupTypeOK
<1>2. ChangeTypeOK'
  BY <1>1 DEF ChangeInv, ChangeTypeOK, GroupTypeOK
<1>3. \A t \in Calls : CallOK(t)'
  BY <1>1, <1>2, GroupStays, SameChangeKeeps DEF ChangeInv, SameChange
<1>4. Uncreated'
  BY <1>1 DEF ChangeInv, Uncreated, UncreatedAt
<1> QED BY <1>2, <1>3, <1>4 DEF ChangeInv

LEMMA OthersChangeKeeps ==
    ASSUME ChangeInv, exists, NEW g \in OthersChanges, OthersChange(g), UNCHANGED changeVars
    PROVE  ChangeInv'
<1>1. g \in GroupStates
  <2>1. Now \in GroupStates
    BY DEF ChangeInv, ChangeTypeOK, GroupTypeOK, Now
  <2>2. CASE g \in {[Now EXCEPT !.role[Self] = r] : r \in {"none", "default", "admin"}}
    <3>1. PICK r \in {"none", "default", "admin"} : g = [Now EXCEPT !.role[Self] = r]
      BY <2>2
    <3>2. [Now.role EXCEPT ![Self] = r] \in [ACIs -> Roles]
      BY <2>1 DEF GroupStates, Roles
    <3> QED BY <2>1, <3>1, <3>2 DEF GroupStates
  <2>3. CASE g \in {[Now EXCEPT !.link = l] : l \in {"any", "approval"}}
    BY <2>1, <2>3 DEF GroupStates, Links
  <2> QED BY <2>2, <2>3 DEF OthersChanges
<1>2. /\ rev < MaxRev /\ rev' = rev + 1 /\ hist' = [hist EXCEPT ![rev + 1] = g]
      /\ advertised' = advertised \cup {rev + 1} \/ advertised' = advertised
      /\ UNCHANGED <<floor, snapshots, faults, groupRevision, expireTimer, endorsed, pc, kind,
                     then, from, cursor, pages, got, began, exists, change, applied, notice>>
  BY DEF OthersChange, Accept, cacheVars, callVars, pageVars, changeVars
<1>3. rev \in Revs /\ groupRevision \in Nat
  BY DEF ChangeInv, ChangeTypeOK, GroupTypeOK
<1>4. rev + 1 \in Revs /\ hist' \in [Revs -> GroupStates] /\ advertised' \in SUBSET Revs
      /\ \A r \in 0..rev : hist'[r] = hist[r]
  <2>1. rev + 1 \in Revs /\ \A r \in 0..rev : r # rev + 1
    BY <1>2, <1>3
  <2>2. hist \in [Revs -> GroupStates] /\ advertised \in SUBSET Revs
    BY DEF ChangeInv, ChangeTypeOK, GroupTypeOK
  <2>3. hist' \in [Revs -> GroupStates] /\ advertised' \in SUBSET Revs
    BY <1>1, <1>2, <2>1, <2>2
  <2>4. \A r \in 0..rev : hist'[r] = hist[r]
    BY <1>2, <1>3, <2>1, <2>2
  <2> QED BY <2>1, <2>3, <2>4
<1>5. ChangeTypeOK'
  <2>1. GroupTypeOK'
    BY <1>2, <1>4 DEF ChangeInv, ChangeTypeOK, GroupTypeOK
  <2> QED BY <1>2, <2>1 DEF ChangeInv, ChangeTypeOK
<1>6. GroupGrows
  BY <1>2, <1>3, <1>4 DEF GroupGrows
<1>7. \A t \in Calls : SameChange(t)
  BY <1>2 DEF SameChange
<1>8. \A t \in Calls : CallOK(t)'
  BY <1>5, <1>6, <1>7, SameChangeKeeps DEF ChangeInv
<1> QED BY <1>2, <1>5, <1>8 DEF ChangeInv, Uncreated

LEMMA ChangeStutters == ASSUME ChangeInv, UNCHANGED groupChangeVars PROVE ChangeInv'
<1>1. UNCHANGED <<rev, hist, floor, snapshots, advertised, faults, groupRevision, expireTimer,
                  endorsed, pc, kind, then, from, cursor, pages, got, began, exists, change,
                  applied, notice>>
  BY DEF groupChangeVars, groupVars, serviceVars, cacheVars, callVars, pageVars, changeVars
<1>2. ChangeTypeOK'
  BY <1>1 DEF ChangeInv, ChangeTypeOK, GroupTypeOK
<1>3. GroupGrows
  BY <1>1, GroupStays DEF ChangeInv
<1>4. \A t \in Calls : CallOK(t)'
  BY <1>1, <1>2, <1>3, SameChangeKeeps DEF ChangeInv, SameChange
<1>5. Uncreated'
  BY <1>1 DEF ChangeInv, Uncreated, UncreatedAt
<1> QED BY <1>2, <1>4, <1>5 DEF ChangeInv

LEMMA NextKeepsChange == ChangeInv /\ [ChangeNext]_groupChangeVars => ChangeInv'
<1> SUFFICES ASSUME ChangeInv, [ChangeNext]_groupChangeVars PROVE ChangeInv'
  OBVIOUS
<1>1. CASE exists /\ (\E g \in OthersChanges : OthersChange(g)) /\ UNCHANGED changeVars
  BY <1>1, OthersChangeKeeps
<1>2. CASE \E s \in Calls : (~exists /\ CreateGroup(s)) \/ (exists /\ StartChange(s))
  BY <1>2, StartKeeps
<1>3. CASE \E s \in Calls : ChangeSteps(s)
  BY <1>3, CheckKeeps, PreviewKeeps, PresentKeeps, AcceptedKeeps, MovesOnKeeps, ForgetKeeps,
     NotifyKeeps, PutKeeps, CreatedKeeps, ReturnKeeps DEF ChangeSteps
<1>4. CASE \E s \in Calls : (FetchSteps(s) \/ Fault(s)) /\ UNCHANGED changeVars
  BY <1>4, FetchedKeeps, FaultKeeps
<1>5. CASE \E s \in Calls : ChangeFault(s)
  BY <1>5, MovesOnKeeps
<1>6. CASE \E s \in Calls : AutoSteps(s) /\ UNCHANGED changeVars
  BY <1>6, AutoStartKeeps, AutoLogsKeeps, AutoStoreKeeps DEF AutoSteps
<1>7. CASE Prune /\ UNCHANGED changeVars
  BY <1>7, PruneKeepsChange
<1>8. CASE UNCHANGED groupChangeVars
  BY <1>8, ChangeStutters
<1> QED BY <1>1, <1>2, <1>3, <1>4, <1>5, <1>6, <1>7, <1>8 DEF ChangeNext

\* The variables of a client that changes the group keep their types.
THEOREM ChangeTypeCorrect == ChangeSpec => []ChangeTypeOK
<1>1. ChangeInv => ChangeTypeOK
  BY DEF ChangeInv
<1> QED BY <1>1, InitChange, NextKeepsChange, PTL DEF ChangeSpec

\* Every change the service accepted was permitted by the revision right
\* before it, though it was decided on a state fetched any time earlier.
THEOREM ChangesAuthorised == ChangeSpec => []PatchAuthorised
<1>1. ChangeInv => PatchAuthorised
  BY DEF ChangeInv, CallOK, AppliedOK, PatchAuthorised
<1> QED BY <1>1, InitChange, NextKeepsChange, PTL DEF ChangeSpec

\* A notification never names a revision from before the change it is about.
THEOREM NoticesCoverChanges == ChangeSpec => []NoticeCoversChange
<1>1. ChangeInv => NoticeCoversChange
  BY DEF ChangeInv, CallOK, AppliedOK, NoticeCoversChange
<1> QED BY <1>1, InitChange, NextKeepsChange, PTL DEF ChangeSpec

\* The steps a cached change survives, for the two halves of ChangeIsCached.
LEMMA OnlyFetchGroupLeaves ==
    ASSUME ChangeInv, ChangeNext, NEW s \in Calls, pc[s] = "fetched", pc'[s] # "fetched"
    PROVE  FetchGroup(s)
<1> DEFINE Elsewhere(t) == pc[t] # "fetched" /\ \A u \in Calls \ {t} : pc'[u] = pc[u]
<1>0. pc \in [Calls -> SyncLabels \cup ChangeLabels]
  BY DEF ChangeInv, ChangeTypeOK
<1>1. ASSUME NEW t \in Calls, Elsewhere(t) PROVE FALSE
  BY <1>1
<1> HIDE DEF Elsewhere
<1>2. ~\E g \in OthersChanges : OthersChange(g)
  BY DEF OthersChange, callVars
<1>3. ~Prune
  BY DEF Prune, callVars
<1>4. \A t \in Calls : CreateGroup(t) \/ StartChange(t) => pc[t] = "idle"
  BY DEF CreateGroup, StartChange, SetMemberRole, RemoveMember, AddMember, modifyGroupAttribute,
     EnableGroupInviteLink, LeaveGroup, JoinGroupViaInviteLink, Ask, Begin
<1>5. \A t \in Calls : CreateGroup(t) \/ StartChange(t) =>
         \E label \in {"fetch", "preview", "present"} : pc' = [pc EXCEPT ![t] = label]
  BY DEF CreateGroup, StartChange, SetMemberRole, RemoveMember, AddMember, modifyGroupAttribute,
     EnableGroupInviteLink, LeaveGroup, JoinGroupViaInviteLink, Ask, Begin, Goto
<1>6. \A t \in Calls : CreateGroup(t) \/ StartChange(t) => Elsewhere(t)
  BY <1>0, <1>4, <1>5 DEF Elsewhere
<1>7. \A t \in Calls : Check(t) \/ PreviewGroupJoin(t) \/ memberPresentationForAdd(t)
         \/ PatchRefused(t) \/ Forget(t) \/ sendGroupChangeNotification(t) \/ Created(t)
         \/ ChangeReturn(t) \/ ChangeFault(t) => Elsewhere(t)
  BY <1>0 DEF Check, PreviewGroupJoin, memberPresentationForAdd, PatchRefused, Forget,
     sendGroupChangeNotification, Created, ChangeReturn, Return, ChangeFault, Goto, Elsewhere
<1>8. \A t \in Calls : PatchAccepted(t) \/ PutGroup(t) => Elsewhere(t)
  BY <1>0 DEF PatchAccepted, PutGroup, Goto, Elsewhere
<1>9. \A t \in Calls : FetchGroupState(t) \/ Fault(t) \/ AutoSteps(t) => Elsewhere(t)
  BY <1>0 DEF FetchGroupState, Fault, AutoSteps, maybeAutoSyncGroupUpdate, Begin, FetchGroupLogs,
     SyncRefused, Refused, SyncGroup, AutoSyncStore, Goto, Elsewhere
<1>10. PICK t \in Calls : FetchGroup(t)
  BY <1>1, <1>2, <1>3, <1>6, <1>7, <1>8, <1>9 DEF ChangeNext, ChangeSteps, FetchSteps
<1>11. t = s
  BY <1>0, <1>10 DEF FetchGroup, Goto
<1> QED BY <1>10, <1>11

LEMMA OnlyClearsLower ==
    ASSUME ChangeInv, ChangeNext, groupRevision' < groupRevision
    PROVE  groupRevision' = 0 /\ \E t \in Calls : Clears(t)
<1>0. groupRevision \in Nat /\ groupRevision' # groupRevision
  BY DEF ChangeInv, ChangeTypeOK, GroupTypeOK
<1>1. ASSUME NEW t \in Calls,
             FetchGroup(t) \/ SyncGroup(t) \/ AutoSyncStore(t) \/ Created(t)
      PROVE  FALSE
  <2>1. got[t] \in Revs /\ storeGroupRevision(got[t])
    BY <1>1 DEF FetchGroup, SyncGroup, AutoSyncStore, Created, ChangeInv, ChangeTypeOK,
       GroupTypeOK, CallOK, HandOK
  <2>2. groupRevision' >= groupRevision /\ groupRevision' \in Nat
    BY <2>1, StoredRevision DEF ChangeInv
  <2> QED BY <1>0, <2>2
<1>2. ~(\E g \in OthersChanges : OthersChange(g)) /\ ~Prune
  BY <1>0 DEF OthersChange, Prune, cacheVars
<1>3. \A t \in Calls : ~CreateGroup(t) /\ ~StartChange(t)
  BY <1>0 DEF CreateGroup, StartChange, SetMemberRole, RemoveMember, AddMember,
     modifyGroupAttribute, EnableGroupInviteLink, LeaveGroup, JoinGroupViaInviteLink, Ask, cacheVars
<1>4. \A t \in Calls : /\ ~Check(t) /\ ~PreviewGroupJoin(t) /\ ~memberPresentationForAdd(t)
                       /\ ~PatchAccepted(t) /\ ~PatchRefused(t) /\ ~PutGroup(t)
                       /\ ~sendGroupChangeNotification(t) /\ ~ChangeReturn(t) /\ ~ChangeFault(t)
  BY <1>0 DEF Check, PreviewGroupJoin, memberPresentationForAdd, PatchAccepted, PatchRefused,
     PutGroup, sendGroupChangeNotification, ChangeReturn, Return, ChangeFault, cacheVars
<1>5. \A t \in Calls : /\ ~FetchGroupState(t) /\ ~Fault(t) /\ ~FetchGroupLogs(t)
                       /\ \A r \in Revs : ~maybeAutoSyncGroupUpdate(t, r)
  BY <1>0 DEF FetchGroupState, Fault, FetchGroupLogs, maybeAutoSyncGroupUpdate, cacheVars
<1>6. PICK t \in Calls : Forget(t) \/ SyncRefused(t)
  BY <1>1, <1>2, <1>3, <1>4, <1>5 DEF ChangeNext, ChangeSteps, FetchSteps, AutoSteps
<1> QED
  BY <1>0, <1>6 DEF Forget, SyncRefused, deleteGroupRevision, Clears

\* The fetch after an accepted change puts it into the cache, and whatever
\* calls overlap only a LeaveGroup or an auto-sync that met a 403 removes it.
THEOREM ChangesCached == ChangeSpec => ChangeIsCached
<1>1. ASSUME ChangeInv, ChangeNext, NEW s \in Calls, applied[s] # None,
             pc[s] = "fetched", pc'[s] # "fetched"
      PROVE  groupRevision' >= applied[s]
  <2>1. storeGroupRevision(got[s])
    BY <1>1, OnlyFetchGroupLeaves DEF FetchGroup
  <2>2. got[s] \in Revs /\ applied[s] \in Int /\ got[s] >= applied[s]
    BY <1>1 DEF ChangeInv, ChangeTypeOK, GroupTypeOK, CallOK, HandOK, AppliedOK
  <2>3. groupRevision' \in Revs /\ groupRevision' >= got[s]
    BY <1>1, <2>1, <2>2, StoredRevision DEF ChangeInv
  <2> QED BY <2>2, <2>3
<1>2. ASSUME ChangeInv, ChangeNext, NEW s \in Calls, applied[s] # None,
             groupRevision >= applied[s], groupRevision' < applied[s]
      PROVE  groupRevision' = 0 /\ \E t \in Calls : Clears(t)
  <2>1. ChangeInv'
    BY <1>2, NextKeepsChange
  <2>2. groupRevision \in Int /\ groupRevision' \in Int /\ applied[s] \in Int
    BY <1>2, <2>1 DEF ChangeInv, ChangeTypeOK, GroupTypeOK
  <2>3. groupRevision' < groupRevision
    BY <1>2, <2>2
  <2> QED BY <1>2, <2>3, OnlyClearsLower
<1>3. ChangeInv /\ [ChangeNext]_groupChangeVars =>
        [\A s \in Calls :
           applied[s] # None =>
             /\ pc[s] = "fetched" /\ pc'[s] # "fetched" => groupRevision' >= applied[s]
             /\ groupRevision >= applied[s] /\ groupRevision' < applied[s] =>
                  groupRevision' = 0 /\ \E t \in Calls : Clears(t)]_groupChangeVars
  BY <1>1, <1>2
<1> QED BY <1>3, InitChange, NextKeepsChange, PTL DEF ChangeSpec, ChangeIsCached
=============================================================================
