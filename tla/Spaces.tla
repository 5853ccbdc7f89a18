------------------------------- MODULE Spaces -------------------------------
(***************************************************************************)
(* One space (src/services/social_space.js, migration 0525): its metadata, *)
(* its members and the objects attached to it.  A caller looks at the      *)
(* space, and later changes it in a transaction that locks the row first;  *)
(* what the change is based on may be old by then.  The metadata is told   *)
(* apart by the updates it contains, each named by the version it made;    *)
(* members' roles and objects' relation kinds are not told apart.  Nothing *)
(* in the code archives a space.                                           *)
(***************************************************************************)
EXTENDS Naturals, Sequences

CONSTANTS
    Members,           \* entities that may own or join the space
    Objects,           \* world objects that may be attached
    Visitors,          \* database sessions of the callers
    MaxSpaceVersion    \* bound

ASSUME SpaceConstants == MaxSpaceVersion \in Nat \ {0}

VARIABLES
    space,             \* social.spaces: the row, or none
    memberships,       \* social.space_memberships of each member
    relations,         \* social.space_object_relations of each object
    spaceLog,          \* its life events
    visit              \* what each session looked at, and the row it locked

spaceVars == <<space, memberships, relations, spaceLog, visit>>

NoSpace == [version |-> 0]
SpaceRows == [owner : Members, version : 1 .. MaxSpaceVersion, text : SUBSET (1 .. MaxSpaceVersion)]
Rows == [role : {"OWNER", "MEMBER", "OBJECT"}, open : BOOLEAN]
NoVisit == [at |-> "IDLE"]
Visits == [at : {"LOOKED"}, looked : SpaceRows] \cup
          [at : {"HOLDING"}, looked : SpaceRows, locked : SpaceRows]
EventKinds == {"SPACE_CREATED", "SPACE_METADATA_UPDATED", "SPACE_MEMBER_JOINED",
               "SPACE_MEMBER_LEFT", "SPACE_OBJECT_ATTACHED", "SPACE_OBJECT_DETACHED"}
SpaceEvents == [kind : EventKinds, of : Members \cup Objects]

SpaceInit ==
    /\ space = NoSpace
    /\ memberships = [e \in Members |-> <<>>]
    /\ relations = [o \in Objects |-> <<>>]
    /\ spaceLog = <<>>
    /\ visit = [s \in Visitors |-> NoVisit]

Open(rows) == {i \in DOMAIN rows : rows[i].open}
OpenRow(role) == [role |-> role, open |-> TRUE]
Close(rows) == [i \in DOMAIN rows |-> [rows[i] EXCEPT !.open = FALSE]]

AppendSpaceEvent(kind, of) == spaceLog' = Append(spaceLog, [kind |-> kind, of |-> of])

CreateSpace(s, owner) ==
    /\ space = NoSpace
    /\ space' = [owner |-> owner, version |-> 1, text |-> {}]
    /\ memberships' = [memberships EXCEPT ![owner] = <<OpenRow("OWNER")>>]
    /\ AppendSpaceEvent("SPACE_CREATED", owner)
    /\ UNCHANGED <<relations, visit>>

(* The caller's own look at the space, whenever that was.                  *)
Look(s) ==
    /\ visit[s] = NoVisit
    /\ space # NoSpace
    /\ visit' = [visit EXCEPT ![s] = [at |-> "LOOKED", looked |-> space]]
    /\ UNCHANGED <<space, memberships, relations, spaceLog>>

(* Mutant: the row is read without FOR UPDATE.                             *)
LockSpace_Unlocked(s) ==
    /\ visit[s].at = "LOOKED"
    /\ visit' = [visit EXCEPT ![s] = [at |-> "HOLDING", looked |-> @.looked, locked |-> space]]
    /\ UNCHANGED <<space, memberships, relations, spaceLog>>

LockSpace(s) ==
    /\ visit[s].at = "LOOKED"
    /\ \A t \in Visitors : visit[t].at # "HOLDING"
    /\ visit' = [visit EXCEPT ![s] = [at |-> "HOLDING", looked |-> @.looked, locked |-> space]]
    /\ UNCHANGED <<space, memberships, relations, spaceLog>>

(* Every change ends with a new version, its event and the commit.         *)
BumpSpaceVersion(s) ==
    /\ visit[s].at = "HOLDING"
    /\ space.version < MaxSpaceVersion
    /\ visit' = [visit EXCEPT ![s] = NoVisit]

ExpectedVersion(s) == visit[s].locked.version = visit[s].looked.version

UpdateSpaceMetadata(s) ==
    /\ BumpSpaceVersion(s)
    /\ ExpectedVersion(s)
    /\ space' = [space EXCEPT !.version = @ + 1,
                              !.text = visit[s].looked.text \cup {space.version + 1}]
    /\ AppendSpaceEvent("SPACE_METADATA_UPDATED", space.owner)
    /\ UNCHANGED <<memberships, relations>>

(* Below, expectedVersion is optional and a caller may leave it out.       *)
JoinSpace(s, e) ==
    /\ BumpSpaceVersion(s)
    /\ Open(memberships[e]) = {}
    /\ memberships' = [memberships EXCEPT ![e] = Append(@, OpenRow("MEMBER"))]
    /\ space' = [space EXCEPT !.version = @ + 1]
    /\ AppendSpaceEvent("SPACE_MEMBER_JOINED", e)
    /\ UNCHANGED relations

LeaveSpace(s, e) ==
    /\ BumpSpaceVersion(s)
    /\ e # visit[s].locked.owner
    /\ Open(memberships[e]) # {}
    /\ memberships' = [memberships EXCEPT ![e] = Close(@)]
    /\ space' = [space EXCEPT !.version = @ + 1]
    /\ AppendSpaceEvent("SPACE_MEMBER_LEFT", e)
    /\ UNCHANGED relations

AttachObjectToSpace(s, o) ==
    /\ BumpSpaceVersion(s)
    /\ Open(relations[o]) = {}
    /\ relations' = [relations EXCEPT ![o] = Append(@, OpenRow("OBJECT"))]
    /\ space' = [space EXCEPT !.version = @ + 1]
    /\ AppendSpaceEvent("SPACE_OBJECT_ATTACHED", o)
    /\ UNCHANGED memberships

DetachObjectFromSpace(s, o) ==
    /\ BumpSpaceVersion(s)
    /\ Open(relations[o]) # {}
    /\ relations' = [relations EXCEPT ![o] = Close(@)]
    /\ space' = [space EXCEPT !.version = @ + 1]
    /\ AppendSpaceEvent("SPACE_OBJECT_DETACHED", o)
    /\ UNCHANGED memberships

(* Everything that changes nothing: already a member, already gone, a      *)
(* version or role conflict, an entity that is not active, a departure     *)
(* whose transaction began before the arrival it ends (CHECK left_at), or  *)
(* a connection lost.                                                      *)
EndVisit(s) ==
    /\ visit[s] # NoVisit
    /\ visit' = [visit EXCEPT ![s] = NoVisit]
    /\ UNCHANGED <<space, memberships, relations, spaceLog>>

SpaceCall(s) == (\E e \in Members : CreateSpace(s, e)) \/ Look(s)

SpaceWork(s) ==
    \/ LockSpace(s)
    \/ UpdateSpaceMetadata(s)
    \/ \E e \in Members : JoinSpace(s, e) \/ LeaveSpace(s, e)
    \/ \E o \in Objects : AttachObjectToSpace(s, o) \/ DetachObjectFromSpace(s, o)
    \/ EndVisit(s)
=============================================================================
