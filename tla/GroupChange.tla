---------------------------- MODULE GroupChange ----------------------------
(***************************************************************************)
(* pkg/signal/group_modify.go, group_create.go, group_invite.go over       *)
(* internal/group: the local account creates, changes, joins and leaves    *)
(* the group of GroupSync while others change it and the auto-sync follows *)
(* their updates.  A change is built from the state its call fetched and   *)
(* carries the revision after it; the service takes it only as the         *)
(* successor of its newest revision.                                       *)
(***************************************************************************)
EXTENDS GroupSync

VARIABLES
    exists,   \* the group has been created
    change,   \* the GroupChange.Actions each call builds
    applied,  \* history: the revision its change became, None if none
    notice    \* the revision of the notification it sent, None if none

changeVars == <<exists, change, applied, notice>>
groupChangeVars == <<groupVars, changeVars>>

AdminKinds == {"role", "remove", "add", "link"}
ChangeKinds == AdminKinds \cup {"attr", "leave", "join", "create"}
ChangeLabels == {"check", "preview", "present", "patch", "put", "created",
                 "forget", "notify"}

Changes == [who : ACIs, role : Roles \cup {"keep"}, link : Links \cup {"keep"},
            version : 0..(MaxRev + 1)]
NoChange == [who |-> Self, role |-> "keep", link |-> "keep", version |-> 0]

\* The types of the variables.
ChangeTypeOK ==
    /\ GroupTypeOK
    /\ pc \in [Calls -> SyncLabels \cup ChangeLabels]
    /\ kind \in [Calls -> SyncKinds \cup ChangeKinds]
    /\ then \in [Calls -> {"done", "store", "check", "notify"}]
    /\ exists \in BOOLEAN
    /\ change \in [Calls -> Changes]
    /\ applied \in [Calls -> Snapshots]
    /\ notice \in [Calls -> Snapshots]

\* Either no group yet, or one others made, with or without the local account.
ChangeInit ==
    /\ \E r \in {"none", "admin"} :
         GroupInit([a \in ACIs |-> IF a = Self THEN r ELSE "default"])
    /\ exists \in BOOLEAN
    /\ change = [s \in Calls |-> NoChange]
    /\ applied = [s \in Calls |-> None]
    /\ notice = [s \in Calls |-> None]

-----------------------------------------------------------------------------
(* internal/group: the actions of a change, given the revision it follows. *)

\* Mutant: the version follows the newest revision known, not the state the
\* change was decided on.
VersionOfCache(r) == groupRevision + 1

\* version := currentRevision + 1, in every builder.
VersionAfter(r) == r + 1

BuildLeaveActions(r) ==
    [NoChange EXCEPT !.role = "none", !.version = VersionAfter(r)]

BuildModifyRoleActions(a, role, r) ==
    [NoChange EXCEPT !.who = a, !.role = role, !.version = VersionAfter(r)]

BuildRemoveMemberActions(a, r) ==
    [NoChange EXCEPT !.who = a, !.role = "none", !.version = VersionAfter(r)]

BuildAddMemberActions(a, role, r) ==
    [NoChange EXCEPT !.who = a, !.role = role, !.version = VersionAfter(r)]

BuildModifyTitleActions(r) == [NoChange EXCEPT !.version = VersionAfter(r)]

BuildEnableInviteLinkActions(access, r) ==
    [NoChange EXCEPT !.link = access, !.version = VersionAfter(r)]

BuildJoinViaInviteLinkActions(r) ==
    [NoChange EXCEPT !.role = "default", !.version = VersionAfter(r)]

BuildJoinRequestActions(r) ==
    [NoChange EXCEPT !.role = "requesting", !.version = VersionAfter(r)]

\* The state a change makes of g (external).
Patched(g, c) ==
    [g EXCEPT !.role[c.who] = IF c.role = "keep" THEN @ ELSE c.role,
              !.link = IF c.link = "keep" THEN @ ELSE c.link]

-----------------------------------------------------------------------------
(* The calls.  What the caller asks for waits in change[s]. *)

Ask(s, k, c, label, ret) ==
    /\ rev < MaxRev
    /\ Begin(s, k, label, ret)
    /\ change' = [change EXCEPT ![s] = c]
    /\ UNCHANGED <<serviceVars, advertised, faults, cacheVars, pageVars, got,
                   began, exists, applied, notice>>

SetMemberRole(s, a, role) ==
    Ask(s, "role", [NoChange EXCEPT !.who = a, !.role = role], "fetch", "check")

RemoveMember(s, a) ==
    /\ a # Self
    /\ Ask(s, "remove", [NoChange EXCEPT !.who = a], "fetch", "check")

AddMember(s, a) ==
    Ask(s, "add", [NoChange EXCEPT !.who = a, !.role = "default"], "fetch", "check")

modifyGroupAttribute(s) == Ask(s, "attr", NoChange, "fetch", "check")

EnableGroupInviteLink(s, access) ==
    Ask(s, "link", [NoChange EXCEPT !.link = access], "fetch", "check")

LeaveGroup(s) == Ask(s, "leave", NoChange, "fetch", "check")

JoinGroupViaInviteLink(s) == Ask(s, "join", NoChange, "preview", "done")

\* The change a call builds from what it asked for and what it fetched.
Build(s) ==
    LET c == change[s]
        r == got[s]
    IN  CASE kind[s] = "role" -> BuildModifyRoleActions(c.who, c.role, r)
          [] kind[s] = "remove" -> BuildRemoveMemberActions(c.who, r)
          [] kind[s] = "add" -> BuildAddMemberActions(c.who, c.role, r)
          [] kind[s] = "link" -> BuildEnableInviteLinkActions(c.link, r)
          [] kind[s] = "leave" -> BuildLeaveActions(r)
          [] kind[s] = "attr" -> BuildModifyTitleActions(r)
          [] kind[s] = "join" /\ hist[r].link = "approval" -> BuildJoinRequestActions(r)
          [] OTHER -> BuildJoinViaInviteLinkActions(r)

\* The local administrator check, on the fetched state.
MayBuild(s) == kind[s] \in AdminKinds => IsAdmin(hist[got[s]], Self)

Check(s) ==
    /\ pc[s] = "check"
    /\ IF MayBuild(s)
       THEN /\ change' = [change EXCEPT ![s] = Build(s)]
            /\ Goto(s, IF kind[s] = "add" THEN "present" ELSE "patch")
       ELSE /\ Goto(s, "failed")
            /\ UNCHANGED change
    /\ UNCHANGED <<serviceVars, advertised, faults, cacheVars, kind, then,
                   pageVars, got, began, exists, applied, notice>>

\* GET /v2/groups/join/{password}: anyone who holds the link.
PreviewGroupJoin(s) ==
    /\ pc[s] = "preview"
    /\ IF exists /\ Now.link # "off"
       THEN /\ got' = [got EXCEPT ![s] = rev]
            /\ Goto(s, "present")
       ELSE /\ Goto(s, "failed")
            /\ UNCHANGED got
    /\ UNCHANGED <<serviceVars, advertised, faults, cacheVars, kind, then,
                   pageVars, began, changeVars>>

\* memberPresentationForAdd: the credential request; a join builds its change
\* after it.
memberPresentationForAdd(s) ==
    /\ pc[s] = "present"
    /\ change' = IF kind[s] = "join" THEN [change EXCEPT ![s] = Build(s)] ELSE change
    /\ Goto(s, IF kind[s] = "create" THEN "put" ELSE "patch")
    /\ UNCHANGED <<serviceVars, advertised, faults, cacheVars, kind, then,
                   pageVars, got, began, exists, applied, notice>>

-----------------------------------------------------------------------------
(* patchGroup, patchGroupWithInvite *)

\* What the service checks of a change: the revision it follows, that a
\* member or the holder of the link sent it, and that an added member is not
\* one (external).
Following(s) == change[s].version = rev + 1
Already(s) == change[s].role \in {"default", "requesting"} /\ kind[s] \in {"join", "add"}
              /\ change[s].who \in Members(Now)
Sender(s) == IF kind[s] = "join" THEN Now.link # "off" ELSE Self \in Members(Now)

AfterPatch(s) == IF kind[s] = "leave" THEN "forget" ELSE "fetch"

\* The change is accepted.  Its answer may be lost on the way back.
PatchAccepted(s) ==
    /\ pc[s] = "patch"
    /\ Following(s) /\ Sender(s) /\ ~Already(s)
    /\ Accept(Patched(Now, change[s]))
    /\ applied' = [applied EXCEPT ![s] = rev + 1]
    /\ then' = [then EXCEPT ![s] = IF kind[s] = "join" THEN "done" ELSE "notify"]
    /\ \/ /\ Goto(s, AfterPatch(s))
          /\ UNCHANGED faults
       \/ /\ faults < MaxFaults
          /\ faults' = faults + 1
          /\ Goto(s, "failed")
    /\ UNCHANGED <<floor, snapshots, advertised, cacheVars, kind, pageVars,
                   got, began, exists, change, notice>>

\* It is refused: a conflict, no permission, or a member added again, which
\* a join takes for success.
PatchRefused(s) ==
    /\ pc[s] = "patch"
    /\ ~(Following(s) /\ Sender(s)) \/ Already(s)
    /\ Goto(s, IF kind[s] = "join" /\ Already(s) THEN "fetch" ELSE "failed")
    /\ UNCHANGED <<serviceVars, advertised, faults, cacheVars, kind, then,
                   pageVars, got, began, changeVars>>

\* LeaveGroup clears the caches of the group.
Forget(s) ==
    /\ pc[s] = "forget"
    /\ deleteGroupRevision
    /\ endorsed' = {}
    /\ Goto(s, "done")
    /\ UNCHANGED <<serviceVars, advertised, faults, expireTimer, kind, then,
                   pageVars, got, began, changeVars>>

\* Mutant: the notification is built from the state before the change.
NoticeOfBase(s) == change[s].version - 1

\* The revision a notification carries: that of the state fetched again.
buildGroupUpdateContent(s) == got[s]

\* sendGroupChangeNotification; its failure is only logged.
sendGroupChangeNotification(s) ==
    /\ pc[s] = "notify"
    /\ \/ notice' = [notice EXCEPT ![s] = buildGroupUpdateContent(s)]
       \/ UNCHANGED notice
    /\ Goto(s, "done")
    /\ UNCHANGED <<serviceVars, advertised, faults, cacheVars, kind, then,
                   pageVars, got, began, exists, change, applied>>

-----------------------------------------------------------------------------
(* CreateGroup *)

CreateGroup(s) == Ask(s, "create", NoChange, "present", "done")

\* The members whose profile key is known are added, the others invited.
buildCreateGroupMembers(known) ==
    [a \in ACIs |-> IF a = Self THEN "admin"
                    ELSE IF a \in known THEN "default" ELSE "pending"]

\* BuildNewGroupMessage
BuildNewGroupMessage(known, timer) ==
    [role |-> buildCreateGroupMembers(known), timer |-> timer, link |-> "off"]

\* PUT /v2/groups, at revision 0; the answer may be lost.
PutGroup(s) ==
    /\ pc[s] = "put"
    /\ IF exists
       THEN Goto(s, "failed") /\ UNCHANGED <<hist, exists, got, faults>>
       ELSE /\ exists' = TRUE
            /\ \E known \in SUBSET ACIs, timer \in Timers :
                 hist' = [hist EXCEPT ![0] = BuildNewGroupMessage(known, timer)]
            /\ \/ /\ Goto(s, "created")
                  /\ got' = [got EXCEPT ![s] = 0]
                  /\ UNCHANGED faults
               \/ /\ faults < MaxFaults
                  /\ faults' = faults + 1
                  /\ Goto(s, "failed")
                  /\ UNCHANGED got
    /\ UNCHANGED <<rev, floor, snapshots, advertised, cacheVars, kind, then,
                   pageVars, began, change, applied, notice>>

\* The caches CreateGroup fills: not the timer.
Created(s) ==
    /\ pc[s] = "created"
    /\ storeGroupSendEndorsements(got[s])
    /\ storeGroupRevision(got[s])
    /\ Goto(s, "notify")
    /\ UNCHANGED <<serviceVars, advertised, faults, expireTimer, kind, then,
                   pageVars, got, began, changeVars>>

-----------------------------------------------------------------------------
ChangeFault(s) ==
    /\ pc[s] \in {"preview", "present", "patch", "put"}
    /\ faults < MaxFaults
    /\ faults' = faults + 1
    /\ Goto(s, "failed")
    /\ UNCHANGED <<serviceVars, advertised, cacheVars, kind, then, pageVars,
                   got, began, changeVars>>

ChangeReturn(s) ==
    /\ Return(s)
    /\ change' = [change EXCEPT ![s] = NoChange]
    /\ applied' = [applied EXCEPT ![s] = None]
    /\ notice' = [notice EXCEPT ![s] = None]
    /\ UNCHANGED exists

StartChange(s) ==
    \/ \E a \in ACIs, role \in {"default", "admin"} : SetMemberRole(s, a, role)
    \/ \E a \in ACIs : RemoveMember(s, a)
    \/ \E a \in ACIs : AddMember(s, a)
    \/ modifyGroupAttribute(s)
    \/ \E access \in {"any", "approval"} : EnableGroupInviteLink(s, access)
    \/ LeaveGroup(s)
    \/ JoinGroupViaInviteLink(s)

ChangeSteps(s) ==
    \/ Check(s)
    \/ PreviewGroupJoin(s)
    \/ memberPresentationForAdd(s)
    \/ PatchAccepted(s)
    \/ PatchRefused(s)
    \/ Forget(s)
    \/ sendGroupChangeNotification(s)
    \/ PutGroup(s)
    \/ Created(s)
    \/ ChangeReturn(s)

\* Others change the local account's role, or the link.
OthersChanges ==
    {[Now EXCEPT !.role[Self] = r] : r \in {"none", "default", "admin"}}
        \cup {[Now EXCEPT !.link = l] : l \in {"any", "approval"}}

\* The goroutines of the auto-sync.
AutoSteps(s) ==
    \/ \E r \in Revs : maybeAutoSyncGroupUpdate(s, r)
    \/ FetchGroupLogs(s)
    \/ SyncRefused(s)
    \/ SyncGroup(s)
    \/ AutoSyncStore(s)

ChangeNext ==
    \/ /\ exists
       /\ \E g \in OthersChanges : OthersChange(g)
       /\ UNCHANGED changeVars
    \/ \E s \in Calls : ~exists /\ CreateGroup(s)
    \/ \E s \in Calls : exists /\ StartChange(s)
    \/ \E s \in Calls : ChangeSteps(s)
    \/ Prune /\ UNCHANGED changeVars
    \/ \E s \in Calls : FetchSteps(s) /\ UNCHANGED changeVars
    \/ \E s \in Calls : AutoSteps(s) /\ UNCHANGED changeVars
    \/ \E s \in Calls : Fault(s) /\ UNCHANGED changeVars
    \/ \E s \in Calls : ChangeFault(s)

ChangeSpec == ChangeInit /\ [][ChangeNext]_groupChangeVars

-----------------------------------------------------------------------------
(* Properties *)

\* Whether a member of g may make change c by an operation of kind k.
Permits(g, k, c) ==
    /\ k \in AdminKinds => IsAdmin(g, Self)
    /\ k = "join" => (c.role = "default" <=> g.link = "any")

\* A change that became revision r was permitted by the state at r - 1, not
\* only by the one its call looked at: the checks are made on a state fetched
\* earlier, while others demote the local account or change the link, and
\* only the version in the change closes the window.
PatchAuthorised ==
    \A s \in Calls :
        applied[s] # None => Permits(hist[applied[s] - 1], kind[s], change[s])

\* The notification of a change names a revision that includes it, so that a
\* peer that syncs to it sees the change.
NoticeCoversChange ==
    \A s \in Calls :
        notice[s] # None /\ applied[s] # None => notice[s] >= applied[s]

\* The other half: the revision is that of the change itself, as the event a
\* peer gets presents it.
NoticeMatchesChange ==
    \A s \in Calls :
        notice[s] # None /\ applied[s] # None => notice[s] = applied[s]

\* Call t is about to clear the cached revision: a LeaveGroup whose change was
\* accepted, or an auto-sync that met a 403.
Clears(t) == pc[t] = "forget" \/ (kind[t] = "auto" /\ Refused(t))

\* The fetch after an accepted change puts it into the cache, and no slower
\* call, with an older state in hand, takes it out again: only a deletion does.
ChangeIsCached ==
    [][\A s \in Calls :
         applied[s] # None =>
           /\ pc[s] = "fetched" /\ pc'[s] # "fetched" => groupRevision' >= applied[s]
           /\ groupRevision >= applied[s] /\ groupRevision' < applied[s] =>
                groupRevision' = 0 /\ \E t \in Calls : Clears(t)]_groupChangeVars

\* The other half: the cache knows the change as long as the account is in the
\* group.  A LeaveGroup that is slow clears the cache after the account is back
\* in, and an auto-sync whose logs were pruned clears it at any time.
ChangeStaysCached ==
    \A s \in Calls :
        pc[s] = "done" /\ applied[s] # None /\ kind[s] # "leave" =>
            groupRevision >= applied[s] \/ Self \notin Members(hist[rev])
=============================================================================
