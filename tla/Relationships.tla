--------------------------- MODULE Relationships ----------------------------
(***************************************************************************)
(* Relationships between entities (src/services/social_relationships.js    *)
(* and the triggers of migration 0523): declared by their subject, derived *)
(* from a process, or proposed by one party and confirmed by the other.    *)
(* Headers, versions, proposals and confirmations are only ever inserted.  *)
(* A call reads, and later inserts and commits; the sequence trigger takes *)
(* the advisory lock of the relationship and looks at its versions again.  *)
(* Validity periods, dispute states and provenance texts are one value of  *)
(* Terms.                                                                  *)
(***************************************************************************)
EXTENDS Naturals, Sequences

CONSTANTS
    Entities,         \* numbers, for the order of a canonical pair
    Relationships,    \* relationship ids
    Terms,            \* what a version says
    Sessions,         \* database sessions of the callers
    MaxVersion, MaxProposals   \* bounds

ASSUME RelationshipConstants ==
    Entities \subseteq Nat /\ MaxVersion \in Nat /\ MaxProposals \in Nat

VARIABLES
    header,           \* social.relationships: the row of an id, or none
    versions,         \* social.relationship_versions of an id, by version
    proposals,        \* social.mutual_relationship_proposals
    confirmations,    \* social.mutual_relationship_confirmations
    draft             \* what each session is about to write

relationshipVars == <<header, versions, proposals, confirmations, draft>>

Parties == {p \in Entities \X Entities : p[1] # p[2]}
CanonicalPairs == {p \in Parties : p[1] < p[2]}
NoProposal == 0
NoHeader == [mode |-> "NONE"]

Headers == [mode : {"UNILATERAL", "DERIVED"}, parties : Parties] \cup
           [mode : {"MUTUAL"}, parties : CanonicalPairs]
VersionRows == [terms : Terms, by : Entities, proposal : 0 .. MaxProposals]
ProposalRows ==
    [relationship : Relationships, version : 1 .. MaxVersion, parties : CanonicalPairs,
     terms : Terms, by : Entities]
NoDraft == [at |-> "IDLE"]
Drafts ==
    [at : {"PROPOSING", "READ", "WROTE"}, relationship : Relationships,
     header : Headers, version : 1 .. MaxVersion, row : VersionRows]

Init ==
    /\ header = [x \in Relationships |-> NoHeader]
    /\ versions = [x \in Relationships |-> <<>>]
    /\ proposals = <<>>
    /\ confirmations = {}
    /\ draft = [s \in Sessions |-> NoDraft]

nextVersion(x) == Len(versions[x]) + 1

(* Mutant: the pair is kept as the proposer named it.                      *)
canonicalMutualPair_AsNamed(p) == p

canonicalMutualPair(p) == IF p[1] < p[2] THEN p ELSE <<p[2], p[1]>>

Begin(s, stage, x, h, v, row) ==
    /\ draft[s] = NoDraft
    /\ v <= MaxVersion
    /\ draft' = [draft EXCEPT ![s] = [at |-> stage, relationship |-> x, header |-> h,
                                      version |-> v, row |-> row]]
    /\ UNCHANGED <<header, versions, proposals, confirmations>>

Declarable(h, by) == h.mode = "UNILATERAL" => by = h.parties[1]

---------------------------------------------------------------------------
(* The caller may choose the id, even one that a proposal waits for.       *)
RecordRelationship(s, by, x, h, terms) ==
    /\ h.mode # "MUTUAL"
    /\ Declarable(h, by)
    /\ Begin(s, "READ", x, h, 1, [terms |-> terms, by |-> by, proposal |-> NoProposal])

AppendRelationshipVersion(s, by, x, terms) ==
    /\ header[x] # NoHeader
    /\ header[x].mode # "MUTUAL"
    /\ Declarable(header[x], by)
    /\ Begin(s, "READ", x, header[x], nextVersion(x),
             [terms |-> terms, by |-> by, proposal |-> NoProposal])

Proposed(terms, by) == [terms |-> terms, by |-> by, proposal |-> NoProposal]
MutualHeader(named) == [mode |-> "MUTUAL", parties |-> canonicalMutualPair(named)]
Unused(x) ==
    /\ header[x] = NoHeader
    /\ \A i \in DOMAIN proposals : proposals[i].relationship # x
    /\ \A t \in Sessions : draft[t] # NoDraft => draft[t].relationship # x

(* A new relationship, under an id of its own.                             *)
ProposeNew(s, by, x, named, terms) ==
    /\ by \in {named[1], named[2]}
    /\ Unused(x)
    /\ Begin(s, "PROPOSING", x, MutualHeader(named), 1, Proposed(terms, by))

(* The next version of one, as far as the proposer can see.                *)
ProposeRevision(s, by, x, named, terms) ==
    /\ by \in {named[1], named[2]}
    /\ header[x] = MutualHeader(named)
    /\ Begin(s, "PROPOSING", x, header[x], nextVersion(x), Proposed(terms, by))

CommitProposal(s) ==
    LET d == draft[s]
    IN  /\ d.at = "PROPOSING"
        /\ Len(proposals) < MaxProposals
        /\ proposals' = Append(proposals, [relationship |-> d.relationship,
                                           version |-> d.version, parties |-> d.header.parties,
                                           terms |-> d.row.terms, by |-> d.row.by])
        /\ draft' = [draft EXCEPT ![s] = NoDraft]
        /\ UNCHANGED <<header, versions, confirmations>>

ConfirmMutualRelationship(s, by, i) ==
    LET p == proposals[i]
    IN  /\ by \in {p.parties[1], p.parties[2]} \ {p.by}
        /\ Begin(s, "READ", p.relationship, [mode |-> "MUTUAL", parties |-> p.parties],
                 p.version, [terms |-> p.terms, by |-> by, proposal |-> i])

---------------------------------------------------------------------------
(* The keys of the confirmation and of the header, and the lock of the     *)
(* sequence trigger, make an insert wait for another on the same id.       *)
Waits(s) ==
    \E t \in Sessions :
       /\ draft[t] # NoDraft
       /\ draft[t].at = "WROTE"
       /\ draft[t].relationship = draft[s].relationship

(* Mutant: a confirmed proposal takes the next number, whatever it was     *)
(* proposed for.                                                           *)
Insertable_AnyNumber(d) ==
    /\ header[d.relationship] = IF nextVersion(d.relationship) = 1 THEN NoHeader ELSE d.header
    /\ \A c \in confirmations : c.proposal # d.row.proposal

Insertable(d) ==
    /\ d.version = nextVersion(d.relationship)
    /\ header[d.relationship] = IF d.version = 1 THEN NoHeader ELSE d.header
    /\ \A c \in confirmations : c.proposal # d.row.proposal

InsertVersion(s) ==
    /\ draft[s] # NoDraft
    /\ draft[s].at = "READ"
    /\ ~Waits(s)
    /\ draft' = [draft EXCEPT ![s] = IF Insertable(@) THEN [@ EXCEPT !.at = "WROTE"] ELSE NoDraft]
    /\ UNCHANGED <<header, versions, proposals, confirmations>>

(* The deferred evidence triggers look once more at what InsertVersion and *)
(* the calls before it checked.                                            *)
CommitVersion(s) ==
    LET d == draft[s]
        x == d.relationship
    IN  /\ d.at = "WROTE"
        /\ header' = [header EXCEPT ![x] = d.header]
        /\ versions' = [versions EXCEPT ![x] = Append(@, d.row)]
        /\ confirmations' = confirmations \cup
              {[proposal |-> i, by |-> d.row.by] : i \in {d.row.proposal} \ {NoProposal}}
        /\ draft' = [draft EXCEPT ![s] = NoDraft]
        /\ UNCHANGED proposals

(* Any failure ends the transaction without a trace.                       *)
LoseDraft(s) ==
    /\ draft[s] # NoDraft
    /\ draft' = [draft EXCEPT ![s] = NoDraft]
    /\ UNCHANGED <<header, versions, proposals, confirmations>>

RelationshipCall(s) ==
    \E by \in Entities :
       \/ \E x \in Relationships, terms \in Terms :
             \/ \E h \in Headers : RecordRelationship(s, by, x, h, terms)
             \/ AppendRelationshipVersion(s, by, x, terms)
             \/ \E named \in Parties : \/ ProposeNew(s, by, x, named, terms)
                                       \/ ProposeRevision(s, by, x, named, terms)
       \/ \E i \in DOMAIN proposals : ConfirmMutualRelationship(s, by, i)

RelationshipWork(s) == CommitProposal(s) \/ InsertVersion(s) \/ CommitVersion(s) \/ LoseDraft(s)
=============================================================================
