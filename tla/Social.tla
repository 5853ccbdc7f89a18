------------------------------- MODULE Social -------------------------------
(***************************************************************************)
(* Relationships and a space in one database, used by the same sessions:   *)
(* a session is in one call of either at a time.  The number of calls is   *)
(* bounded.                                                                *)
(***************************************************************************)
EXTENDS Relationships, Spaces

CONSTANTS MaxCalls   \* bound

ASSUME OneSetOfSessions == Sessions = Visitors

VARIABLES calls

vars == <<relationshipVars, spaceVars, calls>>

SocialInit == Init /\ SpaceInit /\ calls = 0

Free(s) == draft[s] = NoDraft /\ visit[s] = NoVisit

Call(s) ==
    /\ calls < MaxCalls
    /\ Free(s)
    /\ calls' = calls + 1
    /\ \/ RelationshipCall(s) /\ UNCHANGED spaceVars
       \/ SpaceCall(s) /\ UNCHANGED relationshipVars

Work(s) ==
    /\ UNCHANGED calls
    /\ \/ RelationshipWork(s) /\ UNCHANGED spaceVars
       \/ SpaceWork(s) /\ UNCHANGED relationshipVars

SocialNext == \E s \in Sessions : Call(s) \/ Work(s)

SocialSpec == SocialInit /\ [][SocialNext]_vars
=============================================================================
