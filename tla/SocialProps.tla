----------------------------- MODULE SocialProps ----------------------------
(***************************************************************************)
(* What relationships and spaces owe the parties they are about.           *)
(***************************************************************************)
EXTENDS Social, FiniteSets

(* Types of all variables.                                                 *)
TypeOK ==
    /\ header \in [Relationships -> Headers \cup {NoHeader}]
    /\ \A x \in Relationships : \A v \in DOMAIN versions[x] : versions[x][v] \in VersionRows
    /\ \A i \in DOMAIN proposals : proposals[i] \in ProposalRows
    /\ confirmations \subseteq [proposal : DOMAIN proposals, by : Entities]
    /\ draft \in [Sessions -> Drafts \cup {NoDraft}]
    /\ space \in SpaceRows \cup {NoSpace}
    /\ \A e \in Members : \A i \in DOMAIN memberships[e] : memberships[e][i] \in Rows
    /\ \A o \in Objects : \A i \in DOMAIN relations[o] : relations[o][i] \in Rows
    /\ \A i \in DOMAIN spaceLog : spaceLog[i] \in SpaceEvents
    /\ visit \in [Visitors -> Visits \cup {NoVisit}]

-----------------------------------------------------------------------------
(* Nobody is in a relationship on terms or at a time they did not agree    *)
(* to: every version of a mutual relationship is one proposal, made for    *)
(* exactly that version and these two parties, on exactly these terms, and *)
(* recorded by the party that did not propose it; every confirmation on    *)
(* record took effect once; and every other version is its subject's own   *)
(* word or a process's, and rests on no proposal.  So it is although       *)
(* several proposals and ids are under way at once                         *)
(* (confirmMutualRelationship, relationship_version_sequence,              *)
(* relationship_version_evidence).                                         *)
Agreed(x, v, i) ==
    LET row == versions[x][v]
        p == proposals[i]
    IN  /\ row.proposal = i
        /\ p = [relationship |-> x, version |-> v, parties |-> header[x].parties,
                terms |-> row.terms, by |-> p.by]
        /\ {p.by, row.by} = {p.parties[1], p.parties[2]}
        /\ [proposal |-> i, by |-> row.by] \in confirmations

VersionsAreAgreed ==
    /\ \A x \in Relationships :
          /\ header[x] = NoHeader <=> versions[x] = <<>>
          /\ \A v \in DOMAIN versions[x] :
                IF header[x].mode = "MUTUAL"
                THEN \E i \in DOMAIN proposals : Agreed(x, v, i)
                ELSE /\ versions[x][v].proposal = NoProposal
                     /\ Declarable(header[x], versions[x][v].by)
    /\ \A c \in confirmations :
          LET p == proposals[c.proposal]
          IN  /\ p.version \in DOMAIN versions[p.relationship]
              /\ Agreed(p.relationship, p.version, c.proposal)

(* The log of a space tells all of it, whatever its callers looked at      *)
(* before: one version per event, no metadata update overwritten by one    *)
(* that had not seen it, at most one open membership per member and one    *)
(* open relation per object, each as its last event says, and the owner    *)
(* always among the members (lockSpace, assertExpectedVersion,             *)
(* bumpSpaceVersion).                                                      *)
Happened(kind, of) == {i \in DOMAIN spaceLog : spaceLog[i] = [kind |-> kind, of |-> of]}
Standing(arrivals, departures, rows) ==
    Cardinality(Open(rows)) = Cardinality(arrivals) - Cardinality(departures)
LogTellsSpace ==
    space # NoSpace =>
       /\ space.version = Len(spaceLog)
       /\ space.text = {i \in DOMAIN spaceLog : spaceLog[i].kind = "SPACE_METADATA_UPDATED"}
       /\ \A e \in Members :
             /\ Cardinality(Open(memberships[e])) <= 1
             /\ Standing(Happened("SPACE_CREATED", e) \cup Happened("SPACE_MEMBER_JOINED", e),
                         Happened("SPACE_MEMBER_LEFT", e), memberships[e])
       /\ \A o \in Objects :
             /\ Cardinality(Open(relations[o])) <= 1
             /\ Standing(Happened("SPACE_OBJECT_ATTACHED", o),
                         Happened("SPACE_OBJECT_DETACHED", o), relations[o])
       /\ memberships[space.owner] = <<OpenRow("OWNER")>>
=============================================================================
