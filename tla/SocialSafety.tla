---------------------------- MODULE SocialSafety ----------------------------
(***************************************************************************)
(* For any parties, ids, terms, sessions and bounds: nobody is in a        *)
(* relationship they did not agree to, and the log of a space tells all of *)
(* it.  The two halves of Social share no variable but the count of calls, *)
(* and each has an inductive invariant of its own.                         *)
(***************************************************************************)
EXTENDS SocialProps, FiniteSetTheorems, SequenceTheorems, TLAPS

-----------------------------------------------------------------------------
(* Relationships: the invariant.                                           *)

RowTypes ==
    /\ header \in [Relationships -> Headers \cup {NoHeader}]
    /\ versions \in [Relationships -> Seq(VersionRows)]
    /\ proposals \in Seq(ProposalRows)
    /\ Len(proposals) <= MaxProposals
    /\ confirmations \subseteq [proposal : 1 .. Len(proposals), by : Entities]
    /\ draft \in [Sessions -> Drafts \cup {NoDraft}]

(* A proposal is made by one of its parties.                               *)
ProposersAreParties ==
    \A i \in 1 .. Len(proposals) :
        proposals[i].by \in {proposals[i].parties[1], proposals[i].parties[2]}

(* What a version may rest on: a proposal for exactly this, or the word of *)
(* its subject or process.                                                 *)
Founded(d) ==
    IF d.header.mode = "MUTUAL"
    THEN LET p == proposals[d.row.proposal]
         IN  /\ d.row.proposal \in 1 .. Len(proposals)
             /\ p = [relationship |-> d.relationship, version |-> d.version,
                     parties |-> d.header.parties, terms |-> d.row.terms, by |-> p.by]
             /\ {p.by, d.row.by} = {p.parties[1], p.parties[2]}
    ELSE d.row.proposal = NoProposal /\ Declarable(d.header, d.row.by)

(* A call writes what is founded, and what it wrote still fits.            *)
DraftFits(s) ==
    LET d == draft[s]
    IN  d # NoDraft =>
           /\ d.at = "PROPOSING" =>
                 /\ d.header.mode = "MUTUAL"
                 /\ d.row.by \in {d.header.parties[1], d.header.parties[2]}
           /\ d.at \in {"READ", "WROTE"} => Founded(d)
           /\ d.at = "WROTE" => Insertable(d)

OneWriter ==
    \A s, t \in Sessions :
        /\ draft[s] # NoDraft /\ draft[s].at = "WROTE"
        /\ draft[t] # NoDraft /\ draft[t].at = "WROTE"
        /\ draft[s].relationship = draft[t].relationship
        => s = t

RelationshipInv ==
    /\ RowTypes
    /\ ProposersAreParties
    /\ \A s \in Sessions : DraftFits(s)
    /\ OneWriter
    /\ VersionsAreAgreed

-----------------------------------------------------------------------------
LEMMA InitialRelationships == Init => RelationshipInv
  <1> SUFFICES ASSUME Init PROVE RelationshipInv
    OBVIOUS
  <1> USE DEF Init
  <1>1. RowTypes
    BY RelationshipConstants DEF RowTypes
  <1>2. ProposersAreParties
    BY DEF ProposersAreParties
  <1>3. (\A s \in Sessions : DraftFits(s)) /\ OneWriter
    BY DEF DraftFits, OneWriter
  <1>4. VersionsAreAgreed
    BY DEF VersionsAreAgreed
  <1> QED BY <1>1, <1>2, <1>3, <1>4 DEF RelationshipInv

(* No header is the absence of one.                                        *)
LEMMA NoHeaderIsNone == NoHeader \notin Headers /\ \A h \in Headers : h.mode # "NONE"
  BY DEF NoHeader, Headers

LEMMA NoDraftIsIdle == NoDraft \notin Drafts /\ \A d \in Drafts : d.at # "IDLE"
  BY DEF NoDraft, Drafts

(* The canonical pair of two parties names the same two.                   *)
LEMMA CanonicalPair ==
    ASSUME NEW p \in Parties
    PROVE  /\ canonicalMutualPair(p) \in CanonicalPairs
           /\ {canonicalMutualPair(p)[1], canonicalMutualPair(p)[2]} = {p[1], p[2]}
  <1>1. PICK a \in Entities, b \in Entities : p = <<a, b>>
    BY DEF Parties
  <1>2. a \in Nat /\ b \in Nat /\ a # b /\ p[1] = a /\ p[2] = b
    BY <1>1, RelationshipConstants DEF Parties
  <1>3. <<a, b>> \in Entities \X Entities /\ <<b, a>> \in Entities \X Entities
    OBVIOUS
  <1>4. CASE a < b
    BY <1>1, <1>2, <1>3, <1>4 DEF canonicalMutualPair, Parties, CanonicalPairs
  <1>5. CASE ~(a < b)
    <2>1. b < a
      BY <1>2, <1>5
    <2>2. canonicalMutualPair(p) = <<b, a>>
      BY <1>2, <1>5 DEF canonicalMutualPair
    <2>3. <<b, a>> \in CanonicalPairs
      BY <1>2, <1>3, <2>1 DEF Parties, CanonicalPairs
    <2> QED BY <1>2, <2>2, <2>3
  <1> QED BY <1>4, <1>5

(* A call that begins with founded intentions keeps the invariant.         *)
LEMMA BeginRelationship ==
    ASSUME RelationshipInv, NEW s \in Sessions, NEW stage \in {"PROPOSING", "READ"},
           NEW x \in Relationships, NEW h \in Headers, NEW v \in Nat \ {0},
           NEW row \in VersionRows,
           Begin(s, stage, x, h, v, row),
           stage = "PROPOSING" => /\ h.mode = "MUTUAL"
                                  /\ row.by \in {h.parties[1], h.parties[2]},
           stage = "READ" =>
              Founded([at |-> stage, relationship |-> x, header |-> h, version |-> v, row |-> row])
    PROVE  RelationshipInv'
  <1> DEFINE d == [at |-> stage, relationship |-> x, header |-> h, version |-> v, row |-> row]
  <1>0. /\ draft' = [draft EXCEPT ![s] = d]
        /\ UNCHANGED <<header, versions, proposals, confirmations>>
        /\ draft \in [Sessions -> Drafts \cup {NoDraft}]
    BY DEF Begin, RelationshipInv, RowTypes
  <1>1. d \in Drafts
    BY RelationshipConstants DEF Drafts, Begin
  <1>2. draft'[s] = d /\ \A t \in Sessions \ {s} : draft'[t] = draft[t]
    BY <1>0
  <1>3. RowTypes'
    BY <1>0, <1>1 DEF RelationshipInv, RowTypes
  <1>4. ProposersAreParties' /\ VersionsAreAgreed'
    BY <1>0 DEF RelationshipInv, ProposersAreParties, VersionsAreAgreed, Agreed
  <1>5. \A t \in Sessions : DraftFits(t)'
    <2>1. DraftFits(s)'
      BY <1>0, <1>2 DEF DraftFits, Founded
    <2>2. \A t \in Sessions \ {s} : DraftFits(t)'
      BY <1>0, <1>2
      DEF RelationshipInv, DraftFits, Founded, Insertable, nextVersion
    <2> QED BY <2>1, <2>2
  <1>6. OneWriter'
    <2>1. d.at # "WROTE"
      OBVIOUS
    <2> HIDE DEF d
    <2> QED BY <1>2, <2>1 DEF RelationshipInv, OneWriter
  <1> QED BY <1>3, <1>4, <1>5, <1>6 DEF RelationshipInv

LEMMA RelationshipCallKeeps ==
    ASSUME RelationshipInv, NEW s \in Sessions, RelationshipCall(s)
    PROVE  RelationshipInv'
  <1>0. /\ header \in [Relationships -> Headers \cup {NoHeader}]
        /\ \A x \in Relationships : versions[x] \in Seq(VersionRows) /\ nextVersion(x) \in Nat \ {0}
        /\ 1 \in Nat \ {0} /\ NoProposal \in 0 .. MaxProposals
    BY RelationshipConstants DEF RelationshipInv, RowTypes, nextVersion, NoProposal
  <1>1. ASSUME NEW by \in Entities, NEW terms \in Terms
        PROVE  [terms |-> terms, by |-> by, proposal |-> NoProposal] \in VersionRows
    BY <1>0 DEF VersionRows
  <1>2. ASSUME NEW by \in Entities, NEW x \in Relationships, NEW terms \in Terms,
               NEW h \in Headers, RecordRelationship(s, by, x, h, terms)
        PROVE  RelationshipInv'
    <2>1. Founded([at |-> "READ", relationship |-> x, header |-> h, version |-> 1,
                   row |-> [terms |-> terms, by |-> by, proposal |-> NoProposal]])
      BY <1>2 DEF RecordRelationship, Founded
    <2> QED BY <1>0, <1>1, <1>2, <2>1, BeginRelationship DEF RecordRelationship
  <1>3. ASSUME NEW by \in Entities, NEW x \in Relationships, NEW terms \in Terms,
               AppendRelationshipVersion(s, by, x, terms)
        PROVE  RelationshipInv'
    <2>1. header[x] \in Headers
      BY <1>0, <1>3 DEF AppendRelationshipVersion
    <2>2. Founded([at |-> "READ", relationship |-> x, header |-> header[x],
                   version |-> nextVersion(x),
                   row |-> [terms |-> terms, by |-> by, proposal |-> NoProposal]])
      BY <1>3 DEF AppendRelationshipVersion, Founded
    <2> QED BY <1>0, <1>1, <1>3, <2>1, <2>2, BeginRelationship DEF AppendRelationshipVersion
  <1>4. ASSUME NEW by \in Entities, NEW x \in Relationships, NEW terms \in Terms,
               NEW named \in Parties,
               ProposeNew(s, by, x, named, terms) \/ ProposeRevision(s, by, x, named, terms)
        PROVE  RelationshipInv'
    <2> DEFINE h == MutualHeader(named)
    <2>1. /\ h \in Headers
          /\ h.mode = "MUTUAL"
          /\ by \in {h.parties[1], h.parties[2]}
      BY <1>4, CanonicalPair DEF MutualHeader, Headers, ProposeNew, ProposeRevision
    <2>2. PICK v \in Nat \ {0} : Begin(s, "PROPOSING", x, h, v, Proposed(terms, by))
      BY <1>0, <1>4 DEF ProposeNew, ProposeRevision
    <2>3. Proposed(terms, by) \in VersionRows /\ Proposed(terms, by).by = by
      BY <1>1 DEF Proposed
    <2> HIDE DEF h
    <2> QED BY <2>1, <2>2, <2>3, BeginRelationship
  <1>5. ASSUME NEW by \in Entities, NEW i \in DOMAIN proposals,
               ConfirmMutualRelationship(s, by, i)
        PROVE  RelationshipInv'
    <2> DEFINE p == proposals[i]
               h == [mode |-> "MUTUAL", parties |-> p.parties]
               row == [terms |-> p.terms, by |-> by, proposal |-> i]
    <2>1. /\ i \in 1 .. Len(proposals)
          /\ i \in 0 .. MaxProposals
          /\ p \in ProposalRows
          /\ p.by \in {p.parties[1], p.parties[2]}
      BY RelationshipConstants DEF RelationshipInv, RowTypes, ProposersAreParties
    <2>2. /\ p.relationship \in Relationships
          /\ p.version \in Nat \ {0}
          /\ h \in Headers
          /\ row \in VersionRows
          /\ p = [relationship |-> p.relationship, version |-> p.version,
                  parties |-> p.parties, terms |-> p.terms, by |-> p.by]
      BY <2>1, RelationshipConstants DEF ProposalRows, Headers, VersionRows
    <2>3. {p.by, by} = {p.parties[1], p.parties[2]}
      BY <1>5, <2>1 DEF ConfirmMutualRelationship
    <2>4. Founded([at |-> "READ", relationship |-> p.relationship, header |-> h,
                   version |-> p.version, row |-> row])
      BY <2>1, <2>2, <2>3 DEF Founded
    <2>5. Begin(s, "READ", p.relationship, h, p.version, row)
      BY <1>5 DEF ConfirmMutualRelationship
    <2> HIDE DEF h, row, p
    <2> QED BY <2>2, <2>4, <2>5, BeginRelationship
  <1> QED BY <1>2, <1>3, <1>4, <1>5 DEF RelationshipCall

(* A proposal that is committed names one of its parties, and the earlier  *)
(* ones stay where they are.                                               *)
LEMMA CommitProposalKeeps ==
    ASSUME RelationshipInv, NEW s \in Sessions, CommitProposal(s)
    PROVE  RelationshipInv'
  <1>1. PICK d : d = draft[s]
    OBVIOUS
  <1>2. PICK p : p = [relationship |-> d.relationship, version |-> d.version,
                      parties |-> d.header.parties, terms |-> d.row.terms, by |-> d.row.by]
    OBVIOUS
  <1>3. /\ d.at = "PROPOSING"
        /\ Len(proposals) < MaxProposals
        /\ proposals' = Append(proposals, p)
        /\ draft' = [draft EXCEPT ![s] = NoDraft]
        /\ UNCHANGED <<header, versions, confirmations>>
    BY <1>1, <1>2 DEF CommitProposal
  <1>4. d # NoDraft /\ d \in Drafts
    BY <1>1, <1>3 DEF RelationshipInv, RowTypes, NoDraft
  <1>5. d.header.mode = "MUTUAL" /\ d.row.by \in {d.header.parties[1], d.header.parties[2]}
    BY <1>1, <1>3, <1>4 DEF RelationshipInv, DraftFits
  <1>6. p \in ProposalRows
    <2>1. d.header.parties \in CanonicalPairs
      BY <1>4, <1>5 DEF Drafts, Headers
    <2>2. d.relationship \in Relationships /\ d.version \in 1 .. MaxVersion /\ d.row \in VersionRows
      BY <1>4 DEF Drafts
    <2> QED BY <1>2, <2>1, <2>2 DEF VersionRows, ProposalRows
  <1>7. /\ proposals \in Seq(ProposalRows)
        /\ proposals' \in Seq(ProposalRows)
        /\ Len(proposals') = Len(proposals) + 1
        /\ Len(proposals) \in Nat
        /\ proposals'[Len(proposals) + 1] = p
        /\ \A i \in 1 .. Len(proposals) : proposals'[i] = proposals[i]
        /\ DOMAIN proposals = 1 .. Len(proposals)
        /\ DOMAIN proposals' = 1 .. Len(proposals) + 1
    BY <1>3, <1>6 DEF RelationshipInv, RowTypes
  <1>8. \A t \in Sessions : draft'[t] = draft[t] \/ draft'[t] = NoDraft
    BY <1>3 DEF RelationshipInv, RowTypes
  <1>9. RowTypes'
    <2>1. /\ draft' \in [Sessions -> Drafts \cup {NoDraft}]
          /\ header' \in [Relationships -> Headers \cup {NoHeader}]
          /\ versions' \in [Relationships -> Seq(VersionRows)]
      BY <1>3 DEF RelationshipInv, RowTypes
    <2>2. Len(proposals') <= MaxProposals
      BY <1>3, <1>7, RelationshipConstants
    <2>3. confirmations' \subseteq [proposal : 1 .. Len(proposals'), by : Entities]
      <3>1. 1 .. Len(proposals) \subseteq 1 .. Len(proposals')
        BY <1>7
      <3>2. confirmations' \subseteq [proposal : 1 .. Len(proposals), by : Entities]
        BY <1>3 DEF RelationshipInv, RowTypes
      <3> QED BY <3>1, <3>2
    <2> QED BY <1>7, <2>1, <2>2, <2>3 DEF RowTypes
  <1>10. ProposersAreParties'
    <2> SUFFICES ASSUME NEW i \in 1 .. Len(proposals')
                 PROVE  proposals'[i].by \in {proposals'[i].parties[1], proposals'[i].parties[2]}
      BY DEF ProposersAreParties
    <2>1. CASE i = Len(proposals) + 1
      BY <1>2, <1>5, <1>7, <2>1
    <2>2. CASE i # Len(proposals) + 1
      <3>1. i \in 1 .. Len(proposals)
        BY <1>7, <2>2
      <3> QED BY <1>7, <3>1 DEF RelationshipInv, ProposersAreParties
    <2> QED BY <2>1, <2>2
  <1>11. \A t \in Sessions : DraftFits(t)'
    <2> SUFFICES ASSUME NEW t \in Sessions PROVE DraftFits(t)'
      OBVIOUS
    <2>1. CASE draft'[t] = NoDraft
      BY <2>1 DEF DraftFits
    <2>2. CASE draft'[t] = draft[t]
      <3>1. PICK e : e = draft[t]
        OBVIOUS
      <3>2. DraftFits(t)
        BY DEF RelationshipInv
      <3>3. Founded(e) => Founded(e)'
        <4>1. \A i \in 1 .. Len(proposals) :
                 i \in 1 .. Len(proposals') /\ proposals'[i] = proposals[i]
          BY <1>7
        <4>2. CASE e.header.mode = "MUTUAL"
          BY <4>1, <4>2 DEF Founded
        <4>3. CASE e.header.mode # "MUTUAL"
          BY <4>3 DEF Founded
        <4> QED BY <4>2, <4>3
      <3>4. Insertable(e) => Insertable(e)'
        BY <1>3 DEF Insertable, nextVersion
      <3>5. draft'[t] = e
        BY <2>2, <3>1
      <3>6. e # NoDraft =>
               /\ e.at = "PROPOSING" => /\ e.header.mode = "MUTUAL"
                                        /\ e.row.by \in {e.header.parties[1], e.header.parties[2]}
               /\ e.at \in {"READ", "WROTE"} => Founded(e)'
               /\ e.at = "WROTE" => Insertable(e)'
        BY <3>1, <3>2, <3>3, <3>4 DEF DraftFits
      <3>7. Founded(e)' <=> Founded(draft[t])'
        BY <3>5 DEF Founded
      <3>8. Insertable(e)' <=> Insertable(draft[t])'
        BY <3>5 DEF Insertable, nextVersion
      <3> QED BY <3>5, <3>6, <3>7, <3>8 DEF DraftFits
    <2> QED BY <1>8, <2>1, <2>2
  <1>12. OneWriter'
    BY <1>8 DEF RelationshipInv, OneWriter
  <1>13. VersionsAreAgreed'
    <2>1. ASSUME NEW x, NEW v, NEW i \in DOMAIN proposals, Agreed(x, v, i) PROVE Agreed(x, v, i)'
      BY <1>3, <1>7, <2>1 DEF Agreed
    <2>2. DOMAIN proposals \subseteq DOMAIN proposals'
      BY <1>7
    <2>3. \A c \in confirmations :
             /\ c.proposal \in DOMAIN proposals
             /\ proposals'[c.proposal] = proposals[c.proposal]
      BY <1>7 DEF RelationshipInv, RowTypes
    <2>4. VersionsAreAgreed
      BY DEF RelationshipInv
    <2> QED BY <1>3, <2>1, <2>2, <2>3, <2>4 DEF VersionsAreAgreed
  <1> QED BY <1>9, <1>10, <1>11, <1>12, <1>13 DEF RelationshipInv

(* A call inserts only when no other on the relationship has, and only     *)
(* what fits.                                                              *)
LEMMA InsertVersionKeeps ==
    ASSUME RelationshipInv, NEW s \in Sessions, InsertVersion(s)
    PROVE  RelationshipInv'
  <1>1. PICK d : d = draft[s]
    OBVIOUS
  <1>2. PICK n : n = IF Insertable(d) THEN [d EXCEPT !.at = "WROTE"] ELSE NoDraft
    OBVIOUS
  <1>3. /\ d # NoDraft /\ d \in Drafts /\ d.at = "READ"
        /\ ~Waits(s)
        /\ draft' = [draft EXCEPT ![s] = n]
        /\ UNCHANGED <<header, versions, proposals, confirmations>>
    BY <1>1, <1>2 DEF InsertVersion, RelationshipInv, RowTypes
  <1>4. Founded(d)
    BY <1>1, <1>3 DEF RelationshipInv, DraftFits
  <1>5. \/ n = NoDraft
        \/ /\ n \in Drafts
           /\ n.at = "WROTE"
           /\ n.relationship = d.relationship
           /\ Founded(n)
           /\ Insertable(n)
    <2>1. CASE Insertable(d)
      <3>1. PICK m : m = [d EXCEPT !.at = "WROTE"]
        OBVIOUS
      <3>2. /\ m \in Drafts
            /\ m.at = "WROTE"
            /\ m.relationship = d.relationship
            /\ m.header = d.header
            /\ m.version = d.version
            /\ m.row = d.row
        BY <1>3, <3>1 DEF Drafts
      <3>3. Founded(m)
        BY <1>4, <3>2 DEF Founded
      <3>4. Insertable(m)
        BY <2>1, <3>2 DEF Insertable
      <3> QED BY <1>2, <2>1, <3>1, <3>2, <3>3, <3>4
    <2> QED BY <1>2, <2>1
  <1>6. /\ draft'[s] = n
        /\ \A t \in Sessions \ {s} : draft'[t] = draft[t]
        /\ draft' \in [Sessions -> Drafts \cup {NoDraft}]
    BY <1>3, <1>5 DEF RelationshipInv, RowTypes
  <1>7. RowTypes'
    BY <1>3, <1>6 DEF RelationshipInv, RowTypes
  <1>8. ProposersAreParties' /\ VersionsAreAgreed'
    BY <1>3 DEF RelationshipInv, ProposersAreParties, VersionsAreAgreed, Agreed
  <1>9. \A t \in Sessions : DraftFits(t)'
    <2>1. \A t \in Sessions \ {s} : DraftFits(t)'
      BY <1>3, <1>6 DEF RelationshipInv, DraftFits, Founded, Insertable, nextVersion
    <2>2. DraftFits(s)'
      <3>1. Founded(n) => Founded(n)'
        BY <1>3 DEF Founded
      <3>2. Insertable(n) => Insertable(n)'
        BY <1>3 DEF Insertable, nextVersion
      <3>3. Founded(n)' => Founded(draft[s])'
        BY <1>6 DEF Founded
      <3>4. Insertable(n)' => Insertable(draft[s])'
        BY <1>6 DEF Insertable, nextVersion
      <3> QED BY <1>5, <1>6, <3>1, <3>2, <3>3, <3>4 DEF DraftFits
    <2> QED BY <2>1, <2>2
  <1>10. OneWriter'
    <2>1. \A t \in Sessions \ {s} :
             ~(draft[t] # NoDraft /\ draft[t].at = "WROTE" /\ draft[t].relationship = d.relationship)
      BY <1>1, <1>3 DEF Waits
    <2>2. n # NoDraft => n.relationship = d.relationship
      BY <1>5
    <2> QED BY <1>6, <2>1, <2>2 DEF RelationshipInv, OneWriter
  <1> QED BY <1>7, <1>8, <1>9, <1>10 DEF RelationshipInv

LEMMA LoseDraftKeeps ==
    ASSUME RelationshipInv, NEW s \in Sessions, LoseDraft(s)
    PROVE  RelationshipInv'
  <1>1. /\ draft'[s] = NoDraft
        /\ \A t \in Sessions \ {s} : draft'[t] = draft[t]
        /\ draft' \in [Sessions -> Drafts \cup {NoDraft}]
        /\ UNCHANGED <<header, versions, proposals, confirmations>>
    BY DEF LoseDraft, RelationshipInv, RowTypes
  <1>2. RowTypes' /\ ProposersAreParties' /\ VersionsAreAgreed'
    BY <1>1 DEF RelationshipInv, RowTypes, ProposersAreParties, VersionsAreAgreed, Agreed
  <1>3. \A t \in Sessions : DraftFits(t)'
    <2>1. DraftFits(s)'
      BY <1>1 DEF DraftFits
    <2>2. \A t \in Sessions \ {s} : DraftFits(t)'
      BY <1>1 DEF RelationshipInv, DraftFits, Founded, Insertable, nextVersion
    <2> QED BY <2>1, <2>2
  <1>4. OneWriter'
    BY <1>1 DEF RelationshipInv, OneWriter
  <1> QED BY <1>2, <1>3, <1>4 DEF RelationshipInv

(* What is committed was founded and still fits, because nobody else could *)
(* insert; no other call on another relationship is touched, because a     *)
(* proposal is for one relationship.                                       *)
LEMMA CommitVersionKeeps ==
    ASSUME RelationshipInv, NEW s \in Sessions, CommitVersion(s)
    PROVE  RelationshipInv'
  <1>1. PICK d : d = draft[s]
    OBVIOUS
  <1>2. PICK x : x = d.relationship
    OBVIOUS
  <1>3. PICK new : new = {[proposal |-> i, by |-> d.row.by] : i \in {d.row.proposal} \ {NoProposal}}
    OBVIOUS
  <1>4. /\ d.at = "WROTE"
        /\ header' = [header EXCEPT ![x] = d.header]
        /\ versions' = [versions EXCEPT ![x] = Append(@, d.row)]
        /\ confirmations' = confirmations \cup new
        /\ draft' = [draft EXCEPT ![s] = NoDraft]
        /\ UNCHANGED proposals
    BY <1>1, <1>2, <1>3 DEF CommitVersion
  <1>5. /\ d # NoDraft /\ d \in Drafts
        /\ x \in Relationships
        /\ d.header \in Headers /\ d.header # NoHeader
        /\ d.row \in VersionRows
        /\ d.row.by \in Entities
    <2>1. d # NoDraft /\ d \in Drafts
      BY <1>1, <1>4 DEF RelationshipInv, RowTypes, NoDraft
    <2> QED BY <1>2, <2>1, NoHeaderIsNone DEF Drafts, VersionRows
  <1>6. Founded(d) /\ Insertable(d)
    BY <1>1, <1>4, <1>5 DEF RelationshipInv, DraftFits
  <1>7. /\ draft'[s] = NoDraft
        /\ \A t \in Sessions \ {s} : draft'[t] = draft[t]
        /\ draft' \in [Sessions -> Drafts \cup {NoDraft}]
    BY <1>4 DEF RelationshipInv, RowTypes
  <1>8. /\ versions[x] \in Seq(VersionRows)
        /\ versions'[x] = Append(versions[x], d.row)
        /\ versions' \in [Relationships -> Seq(VersionRows)]
        /\ header'[x] = d.header
        /\ header' \in [Relationships -> Headers \cup {NoHeader}]
        /\ \A y \in Relationships \ {x} : versions'[y] = versions[y] /\ header'[y] = header[y]
    BY <1>4, <1>5 DEF RelationshipInv, RowTypes
  <1>9. /\ Len(versions[x]) \in Nat
        /\ DOMAIN versions[x] = 1 .. Len(versions[x])
        /\ DOMAIN versions'[x] = 1 .. Len(versions[x]) + 1
        /\ versions'[x][Len(versions[x]) + 1] = d.row
        /\ \A v \in 1 .. Len(versions[x]) : versions'[x][v] = versions[x][v]
        /\ versions'[x] # <<>>
        /\ d.version = Len(versions[x]) + 1
        /\ d.version # 1 => header[x] = d.header
    BY <1>2, <1>6, <1>8 DEF Insertable, nextVersion
  <1>10. ASSUME NEW y \in Relationships, NEW v \in DOMAIN versions[y]
         PROVE  v \in DOMAIN versions'[y] /\ versions'[y][v] = versions[y][v] /\ header'[y] = header[y]
    <2>1. CASE y = x
      <3>1. d.version # 1
        BY <1>9, <2>1
      <3> QED BY <1>8, <1>9, <2>1, <3>1
    <2>2. CASE y # x
      BY <1>8, <2>2
    <2> QED BY <2>1, <2>2
  <1>11. ASSUME NEW y \in Relationships, NEW v \in DOMAIN versions[y], NEW i, Agreed(y, v, i)
         PROVE  Agreed(y, v, i)'
    BY <1>4, <1>10, <1>11 DEF Agreed
  <1>12. d.header.mode = "MUTUAL" =>
            /\ d.row.proposal \in 1 .. Len(proposals)
            /\ proposals[d.row.proposal].relationship = x
            /\ proposals[d.row.proposal].version = d.version
            /\ Agreed(x, d.version, d.row.proposal)'
    <2> SUFFICES ASSUME d.header.mode = "MUTUAL"
                 PROVE  /\ d.row.proposal \in 1 .. Len(proposals)
                        /\ proposals[d.row.proposal].relationship = x
                        /\ proposals[d.row.proposal].version = d.version
                        /\ Agreed(x, d.version, d.row.proposal)'
      OBVIOUS
    <2>1. PICK i, p : i = d.row.proposal /\ p = proposals[i]
      OBVIOUS
    <2>2. /\ i \in 1 .. Len(proposals)
          /\ p = [relationship |-> x, version |-> d.version,
                  parties |-> d.header.parties, terms |-> d.row.terms, by |-> p.by]
          /\ {p.by, d.row.by} = {p.parties[1], p.parties[2]}
      BY <1>2, <1>6, <2>1 DEF Founded
    <2>3. [proposal |-> i, by |-> d.row.by] \in confirmations'
      <3>1. i # NoProposal
        BY <2>2 DEF NoProposal
      <3> QED BY <1>3, <1>4, <2>1, <3>1
    <2>4. versions'[x][d.version] = d.row /\ header'[x] = d.header /\ proposals'[i] = p
      BY <1>4, <1>8, <1>9, <2>1
    <2>5. Agreed(x, d.version, i)'
      BY <2>1, <2>2, <2>3, <2>4 DEF Agreed
    <2>6. p.relationship = x /\ p.version = d.version
      BY <2>2
    <2> QED BY <2>1, <2>2, <2>5, <2>6
  <1>13. d.header.mode # "MUTUAL" =>
            d.row.proposal = NoProposal /\ Declarable(d.header, d.row.by) /\ new = {}
    BY <1>3, <1>6 DEF Founded
  <1>14. RowTypes'
    <2>1. new \subseteq [proposal : 1 .. Len(proposals), by : Entities]
      BY <1>3, <1>5, <1>12, <1>13
    <2> QED BY <1>4, <1>7, <1>8, <2>1 DEF RelationshipInv, RowTypes
  <1>15. ProposersAreParties'
    BY <1>4 DEF RelationshipInv, ProposersAreParties
  <1>16. \A t \in Sessions : DraftFits(t)'
    <2>1. DraftFits(s)'
      BY <1>7 DEF DraftFits
    <2>2. ASSUME NEW t \in Sessions \ {s} PROVE DraftFits(t)'
      <3>1. PICK e : e = draft[t]
        OBVIOUS
      <3>2. draft'[t] = e /\ (e # NoDraft => e \in Drafts)
        BY <1>7, <3>1 DEF RelationshipInv, RowTypes
      <3>3. DraftFits(t)
        BY DEF RelationshipInv
      <3>4. Founded(e) => Founded(e)'
        BY <1>4 DEF Founded
      <3>5. ASSUME e # NoDraft, e.at = "WROTE" PROVE Insertable(e)'
        <4>1. e.relationship \in Relationships \ {x}
          <5>1. e.relationship # x
            BY <1>1, <1>2, <1>4, <1>5, <3>1, <3>5 DEF RelationshipInv, OneWriter
          <5> QED BY <3>2, <3>5, <5>1 DEF Drafts
        <4>2. Insertable(e) /\ Founded(e)
          BY <3>1, <3>3, <3>5 DEF DraftFits
        <4>3. \A c \in new : c.proposal # e.row.proposal
          <5>1. CASE d.header.mode # "MUTUAL"
            BY <1>13, <5>1
          <5>2. CASE d.header.mode = "MUTUAL" /\ e.header.mode = "MUTUAL"
            <6>1. proposals[e.row.proposal].relationship = e.relationship
              BY <4>2, <5>2 DEF Founded
            <6>2. e.row.proposal # d.row.proposal
              BY <1>12, <4>1, <5>2, <6>1
            <6> QED BY <1>3, <6>2
          <5>3. CASE d.header.mode = "MUTUAL" /\ e.header.mode # "MUTUAL"
            BY <1>3, <4>2, <5>3 DEF Founded
          <5> QED BY <5>1, <5>2, <5>3
        <4> QED BY <1>4, <1>8, <4>1, <4>2, <4>3 DEF Insertable, nextVersion
      <3>6. Founded(e)' => Founded(draft[t])'
        BY <3>2 DEF Founded
      <3>7. Insertable(e)' => Insertable(draft[t])'
        BY <3>2 DEF Insertable, nextVersion
      <3>8. e # NoDraft =>
               /\ e.at = "PROPOSING" => /\ e.header.mode = "MUTUAL"
                                        /\ e.row.by \in {e.header.parties[1], e.header.parties[2]}
               /\ e.at \in {"READ", "WROTE"} => Founded(e)'
               /\ e.at = "WROTE" => Insertable(e)'
        BY <3>1, <3>3, <3>4, <3>5 DEF DraftFits
      <3> QED BY <3>2, <3>6, <3>7, <3>8 DEF DraftFits
    <2> QED BY <2>1, <2>2
  <1>17. OneWriter'
    BY <1>7 DEF RelationshipInv, OneWriter
  <1>18. VersionsAreAgreed'
    <2>0. VersionsAreAgreed
      BY DEF RelationshipInv
    <2>1. ASSUME NEW y \in Relationships
          PROVE  header'[y] = NoHeader <=> versions'[y] = <<>>
      <3>1. CASE y = x
        BY <1>5, <1>8, <1>9, <3>1
      <3>2. CASE y # x
        BY <1>8, <2>0, <3>2 DEF VersionsAreAgreed
      <3> QED BY <3>1, <3>2
    <2>2. ASSUME NEW y \in Relationships, NEW v \in DOMAIN versions'[y]
          PROVE  IF header'[y].mode = "MUTUAL"
                 THEN \E i \in DOMAIN proposals' : Agreed(y, v, i)'
                 ELSE /\ versions'[y][v].proposal = NoProposal
                      /\ Declarable(header'[y], versions'[y][v].by)
      <3>1. CASE v \in DOMAIN versions[y]
        BY <1>4, <1>10, <1>11, <2>0, <3>1 DEF VersionsAreAgreed
      <3>2. CASE v \notin DOMAIN versions[y]
        <4>1. y = x /\ v = d.version
          BY <1>8, <1>9, <3>2
        <4>2. versions'[y][v] = d.row /\ header'[y] = d.header
          BY <1>8, <1>9, <4>1
        <4>3. d.header.mode = "MUTUAL" => d.row.proposal \in DOMAIN proposals'
          BY <1>4, <1>12 DEF RelationshipInv, RowTypes
        <4> QED BY <1>12, <1>13, <4>1, <4>2, <4>3
      <3> QED BY <3>1, <3>2
    <2>3. ASSUME NEW c \in confirmations', NEW p, p = proposals[c.proposal]
          PROVE  p.version \in DOMAIN versions'[p.relationship] /\ Agreed(p.relationship, p.version, c.proposal)'
      <3>1. CASE c \in confirmations
        <4>1. p.relationship \in Relationships
          <5>1. p \in ProposalRows
            BY <2>3, <3>1 DEF RelationshipInv, RowTypes
          <5> QED BY <5>1 DEF ProposalRows
        <4>2. p.version \in DOMAIN versions[p.relationship] /\ Agreed(p.relationship, p.version, c.proposal)
          BY <2>0, <2>3, <3>1 DEF VersionsAreAgreed
        <4> QED BY <1>10, <1>11, <4>1, <4>2
      <3>2. CASE c \in new
        <4>1. d.header.mode = "MUTUAL" /\ c.proposal = d.row.proposal
          BY <1>3, <1>13, <3>2
        <4>2. p.relationship = x /\ p.version = d.version
          BY <1>12, <2>3, <4>1
        <4>3. d.version \in DOMAIN versions'[x]
          BY <1>9
        <4>4. Agreed(x, d.version, d.row.proposal)'
          BY <1>12, <4>1
        <4> QED BY <4>1, <4>2, <4>3, <4>4
      <3> QED BY <1>4, <3>1, <3>2
    <2>4. (\A c \in confirmations :
              LET p == proposals[c.proposal]
              IN  /\ p.version \in DOMAIN versions[p.relationship]
                  /\ Agreed(p.relationship, p.version, c.proposal))'
      <3> SUFFICES ASSUME NEW c \in confirmations'
                   PROVE  (LET p == proposals[c.proposal]
                           IN  /\ p.version \in DOMAIN versions[p.relationship]
                               /\ Agreed(p.relationship, p.version, c.proposal))'
        OBVIOUS
      <3>1. PICK p : p = proposals[c.proposal]
        OBVIOUS
      <3>2. p = proposals'[c.proposal]
        BY <1>4, <3>1
      <3>3. p.version \in DOMAIN versions'[p.relationship] /\ Agreed(p.relationship, p.version, c.proposal)'
        BY <2>3, <3>1
      <3> QED BY <3>2, <3>3 DEF Agreed
    <2> QED BY <2>1, <2>2, <2>4 DEF VersionsAreAgreed, Agreed
  <1> QED BY <1>14, <1>15, <1>16, <1>17, <1>18 DEF RelationshipInv

(* A step of a session on a space does not touch the relationships.        *)
LEMMA RelationshipStep ==
    ASSUME RelationshipInv, [SocialNext]_vars
    PROVE  RelationshipInv'
  <1>1. CASE UNCHANGED relationshipVars
    <2> USE <1>1 DEF relationshipVars
    <2>1. RowTypes' /\ ProposersAreParties' /\ OneWriter'
      BY DEF RelationshipInv, RowTypes, ProposersAreParties, OneWriter
    <2>2. \A s \in Sessions : DraftFits(s)'
      BY DEF RelationshipInv, DraftFits, Founded, Insertable, nextVersion
    <2>3. VersionsAreAgreed'
      BY DEF RelationshipInv, VersionsAreAgreed, Agreed
    <2> QED BY <2>1, <2>2, <2>3 DEF RelationshipInv
  <1>2. ASSUME NEW s \in Sessions, RelationshipWork(s) PROVE RelationshipInv'
    BY <1>2, CommitProposalKeeps, InsertVersionKeeps, CommitVersionKeeps, LoseDraftKeeps
    DEF RelationshipWork
  <1> QED BY <1>1, <1>2, RelationshipCallKeeps DEF SocialNext, Call, Work, vars

(* For any parties, ids, terms, sessions and bounds, every version of a    *)
(* relationship is its subject's own word, a process's, or agreed by both  *)
(* parties for exactly that version, however the calls of the sessions     *)
(* interleave (social_relationships.js, the triggers of 0523).             *)
THEOREM RelationshipsAreAgreed == SocialSpec => []VersionsAreAgreed
  <1>1. SocialInit => RelationshipInv
    BY InitialRelationships DEF SocialInit
  <1>2. RelationshipInv /\ [SocialNext]_vars => RelationshipInv'
    BY RelationshipStep
  <1>3. RelationshipInv => VersionsAreAgreed
    BY DEF RelationshipInv
  <1> QED BY <1>1, <1>2, <1>3, PTL DEF SocialSpec

-----------------------------------------------------------------------------
(* A space: the invariant.                                                 *)

SpaceTypes ==
    /\ space \in SpaceRows \cup {NoSpace}
    /\ memberships \in [Members -> Seq(Rows)]
    /\ relations \in [Objects -> Seq(Rows)]
    /\ spaceLog \in Seq(SpaceEvents)
    /\ visit \in [Visitors -> Visits \cup {NoVisit}]

(* Rows and events agree, and at most one row is open.                     *)
Told(arrivals, departures, rows) ==
    Cardinality(Open(rows)) <= 1 /\ Standing(arrivals, departures, rows)

MemberArrivals(e) == Happened("SPACE_CREATED", e) \cup Happened("SPACE_MEMBER_JOINED", e)
MemberDepartures(e) == Happened("SPACE_MEMBER_LEFT", e)
ObjectArrivals(o) == Happened("SPACE_OBJECT_ATTACHED", o)
ObjectDepartures(o) == Happened("SPACE_OBJECT_DETACHED", o)

RowsAreTold ==
    /\ \A e \in Members : Told(MemberArrivals(e), MemberDepartures(e), memberships[e])
    /\ \A o \in Objects : Told(ObjectArrivals(o), ObjectDepartures(o), relations[o])

Updates == {i \in DOMAIN spaceLog : spaceLog[i].kind = "SPACE_METADATA_UPDATED"}

SpaceIsTold ==
    /\ space.version = Len(spaceLog)
    /\ space # NoSpace => /\ space.text = Updates
                          /\ memberships[space.owner] = <<OpenRow("OWNER")>>
    /\ space = NoSpace => \A e \in Members : memberships[e] = <<>>

(* One session holds the row, and what it read is what is there; what was  *)
(* looked at is older, or the same.                                        *)
LooksAreOlder ==
    \A s \in Visitors :
        visit[s] # NoVisit =>
           /\ space # NoSpace
           /\ visit[s].looked.version <= space.version
           /\ visit[s].looked.version = space.version => visit[s].looked = space
           /\ visit[s].at = "HOLDING" => visit[s].locked = space

OneHolder ==
    \A s, t \in Visitors : visit[s].at = "HOLDING" /\ visit[t].at = "HOLDING" => s = t

SpaceInv ==
    /\ SpaceTypes
    /\ RowsAreTold
    /\ SpaceIsTold
    /\ LooksAreOlder
    /\ OneHolder

-----------------------------------------------------------------------------
(* Rows and sets of events.                                                *)

LEMMA OpenIsFinite ==
    ASSUME NEW rows \in Seq(Rows)
    PROVE  IsFiniteSet(Open(rows)) /\ Cardinality(Open(rows)) \in Nat
  <1>1. Len(rows) \in Nat /\ Open(rows) \in SUBSET (1 .. Len(rows))
    BY DEF Open
  <1>2. IsFiniteSet(1 .. Len(rows))
    BY <1>1, FS_Interval
  <1>3. IsFiniteSet(Open(rows))
    BY <1>1, <1>2, FS_Subset
  <1> QED BY <1>3, FS_CardinalityType

(* Who has no open row arrives with one.                                   *)
LEMMA Arrival ==
    ASSUME NEW rows \in Seq(Rows), NEW role \in {"OWNER", "MEMBER", "OBJECT"},
           NEW arrivals, NEW departures, NEW n,
           IsFiniteSet(arrivals), IsFiniteSet(departures), n \notin arrivals,
           Told(arrivals, departures, rows), Open(rows) = {}
    PROVE  /\ Append(rows, OpenRow(role)) \in Seq(Rows)
           /\ Told(arrivals \cup {n}, departures, Append(rows, OpenRow(role)))
  <1>1. PICK row : row = OpenRow(role)
    OBVIOUS
  <1>2. row \in Rows /\ row.open = TRUE
    BY <1>1 DEF OpenRow, Rows
  <1>3. PICK more : more = Append(rows, row)
    OBVIOUS
  <1>4. /\ more \in Seq(Rows)
        /\ Len(rows) \in Nat
        /\ DOMAIN rows = 1 .. Len(rows)
        /\ DOMAIN more = 1 .. Len(rows) + 1
        /\ more[Len(rows) + 1] = row
        /\ \A i \in 1 .. Len(rows) : more[i] = rows[i]
    BY <1>2, <1>3
  <1>5. Open(more) = {Len(rows) + 1}
    <2>1. \A i \in 1 .. Len(rows) : ~more[i].open
      BY <1>4 DEF Open
    <2>2. more[Len(rows) + 1].open
      BY <1>2, <1>4
    <2>3. \A i \in DOMAIN more : i \in 1 .. Len(rows) \/ i = Len(rows) + 1
      BY <1>4
    <2>4. Len(rows) + 1 \in DOMAIN more
      BY <1>4
    <2> QED BY <2>1, <2>2, <2>3, <2>4 DEF Open
  <1>6. Cardinality(Open(more)) = 1 /\ Cardinality(Open(rows)) = 0
    BY <1>5, FS_Singleton, FS_EmptySet
  <1>7. /\ Cardinality(arrivals) \in Nat
        /\ Cardinality(departures) \in Nat
        /\ Cardinality(arrivals \cup {n}) = Cardinality(arrivals) + 1
    BY FS_CardinalityType, FS_AddElement
  <1>8. Told(arrivals \cup {n}, departures, more)
    BY <1>6, <1>7 DEF Told, Standing
  <1> QED BY <1>1, <1>3, <1>4, <1>8

(* Who leaves has no open row afterwards.                                  *)
LEMMA Departure ==
    ASSUME NEW rows \in Seq(Rows), NEW arrivals, NEW departures, NEW n,
           IsFiniteSet(arrivals), IsFiniteSet(departures), n \notin departures,
           Told(arrivals, departures, rows), Open(rows) # {}
    PROVE  /\ Close(rows) \in Seq(Rows)
           /\ Told(arrivals, departures \cup {n}, Close(rows))
  <1>1. PICK less : less = Close(rows)
    OBVIOUS
  <1>2. Len(rows) \in Nat /\ DOMAIN rows = 1 .. Len(rows)
    OBVIOUS
  <1>3. \A i \in 1 .. Len(rows) : [rows[i] EXCEPT !.open = FALSE] \in Rows
    <2> TAKE i \in 1 .. Len(rows)
    <2>1. rows[i] \in Rows
      BY <1>2
    <2> QED BY <2>1 DEF Rows
  <1>4. less = [i \in 1 .. Len(rows) |-> [rows[i] EXCEPT !.open = FALSE]]
    BY <1>1, <1>2 DEF Close
  <1>5. less \in Seq(Rows)
    BY <1>2, <1>3, <1>4, SeqDef
  <1>6. Open(less) = {}
    <2>1. \A i \in 1 .. Len(rows) : rows[i] \in Rows /\ less[i] = [rows[i] EXCEPT !.open = FALSE]
      BY <1>2, <1>4
    <2>2. \A i \in 1 .. Len(rows) : less[i].open = FALSE
      BY <2>1 DEF Rows
    <2>3. DOMAIN less = 1 .. Len(rows)
      BY <1>4
    <2> QED BY <2>2, <2>3 DEF Open
  <1>7. Cardinality(Open(less)) = 0 /\ Cardinality(Open(rows)) = 1
    <2>1. IsFiniteSet(Open(rows)) /\ Cardinality(Open(rows)) \in Nat
      BY OpenIsFinite
    <2>2. Cardinality(Open(rows)) # 0
      BY <2>1, FS_EmptySet
    <2>3. Cardinality(Open(rows)) <= 1
      BY DEF Told
    <2> QED BY <1>6, <2>1, <2>2, <2>3, FS_EmptySet
  <1>8. /\ Cardinality(arrivals) \in Nat
        /\ Cardinality(departures) \in Nat
        /\ Cardinality(departures \cup {n}) = Cardinality(departures) + 1
    BY FS_CardinalityType, FS_AddElement
  <1>9. Told(arrivals, departures \cup {n}, less)
    BY <1>7, <1>8 DEF Told, Standing
  <1> QED BY <1>1, <1>5, <1>9

(* An event is one more of its kind about its subject, and of no other.    *)
LEMMA LogGrows ==
    ASSUME SpaceTypes, NEW k \in EventKinds, NEW of \in Members \cup Objects,
           AppendSpaceEvent(k, of)
    PROVE  /\ spaceLog' \in Seq(SpaceEvents)
           /\ Len(spaceLog) \in Nat
           /\ Len(spaceLog') = Len(spaceLog) + 1
           /\ Happened(k, of)' = Happened(k, of) \cup {Len(spaceLog) + 1}
           /\ \A kind, e : ~(kind = k /\ e = of) => Happened(kind, e)' = Happened(kind, e)
           /\ \A kind, e : Happened(kind, e) \subseteq 1 .. Len(spaceLog)
           /\ \A kind, e : IsFiniteSet(Happened(kind, e))
           /\ Updates' = Updates \cup IF k = "SPACE_METADATA_UPDATED" THEN {Len(spaceLog) + 1} ELSE {}
  <1>1. PICK event : event = [kind |-> k, of |-> of]
    OBVIOUS
  <1>2. event \in SpaceEvents
    BY <1>1 DEF SpaceEvents
  <1>3. /\ spaceLog' \in Seq(SpaceEvents)
        /\ Len(spaceLog) \in Nat
        /\ Len(spaceLog') = Len(spaceLog) + 1
        /\ DOMAIN spaceLog = 1 .. Len(spaceLog)
        /\ DOMAIN spaceLog' = 1 .. Len(spaceLog) + 1
        /\ spaceLog'[Len(spaceLog) + 1] = event
        /\ \A i \in 1 .. Len(spaceLog) : spaceLog'[i] = spaceLog[i]
    BY <1>1, <1>2 DEF AppendSpaceEvent, SpaceTypes
  <1>4. \A i \in 1 .. Len(spaceLog) + 1 : i \in 1 .. Len(spaceLog) \/ i = Len(spaceLog) + 1
    BY <1>3
  <1>5. \A i \in 1 .. Len(spaceLog) : i \in 1 .. Len(spaceLog) + 1 /\ i # Len(spaceLog) + 1
    BY <1>3
  <1>6. Len(spaceLog) + 1 \in 1 .. Len(spaceLog) + 1
    BY <1>3
  <1>7. ASSUME NEW kind, NEW e
        PROVE  /\ kind = k /\ e = of => Happened(kind, e)' = Happened(kind, e) \cup {Len(spaceLog) + 1}
               /\ ~(kind = k /\ e = of) => Happened(kind, e)' = Happened(kind, e)
               /\ Happened(kind, e) \subseteq 1 .. Len(spaceLog)
               /\ IsFiniteSet(Happened(kind, e))
    <2>1. event = [kind |-> kind, of |-> e] <=> kind = k /\ e = of
      BY <1>1
    <2>2. Happened(kind, e)' = {i \in 1 .. Len(spaceLog) + 1 : spaceLog'[i] = [kind |-> kind, of |-> e]}
      BY <1>3 DEF Happened
    <2>3. Happened(kind, e) = {i \in 1 .. Len(spaceLog) : spaceLog[i] = [kind |-> kind, of |-> e]}
      BY <1>3 DEF Happened
    <2>4. /\ kind = k /\ e = of => Happened(kind, e)' = Happened(kind, e) \cup {Len(spaceLog) + 1}
          /\ ~(kind = k /\ e = of) => Happened(kind, e)' = Happened(kind, e)
      BY <1>3, <1>4, <1>5, <1>6, <2>1, <2>2, <2>3
    <2>5. Happened(kind, e) \in SUBSET (1 .. Len(spaceLog))
      BY <2>3
    <2>6. IsFiniteSet(1 .. Len(spaceLog))
      BY <1>3, FS_Interval
    <2>7. IsFiniteSet(Happened(kind, e))
      BY <2>5, <2>6, FS_Subset
    <2> QED BY <2>4, <2>5, <2>7
  <1>8. Updates' = Updates \cup IF k = "SPACE_METADATA_UPDATED" THEN {Len(spaceLog) + 1} ELSE {}
    <2>1. event.kind = k
      BY <1>1
    <2> QED BY <1>3, <1>4, <1>5, <1>6, <2>1 DEF Updates
  <1>9. Happened(k, of)' = Happened(k, of) \cup {Len(spaceLog) + 1}
    BY <1>7
  <1> QED BY <1>3, <1>7, <1>8, <1>9

-----------------------------------------------------------------------------
(* Members and objects.                                                    *)

(* An event that is not about them leaves their rows told.                 *)
LEMMA OthersStayTold ==
    ASSUME SpaceTypes, RowsAreTold, NEW k \in EventKinds, NEW of \in Members \cup Objects,
           AppendSpaceEvent(k, of)
    PROVE  /\ \A e \in Members :
                 /\ memberships'[e] = memberships[e]
                 /\ k \in {"SPACE_CREATED", "SPACE_MEMBER_JOINED", "SPACE_MEMBER_LEFT"} => e # of
                 => Told(MemberArrivals(e), MemberDepartures(e), memberships[e])'
           /\ \A o \in Objects :
                 /\ relations'[o] = relations[o]
                 /\ k \in {"SPACE_OBJECT_ATTACHED", "SPACE_OBJECT_DETACHED"} => o # of
                 => Told(ObjectArrivals(o), ObjectDepartures(o), relations[o])'
  <1>1. \A kind, e : ~(kind = k /\ e = of) => Happened(kind, e)' = Happened(kind, e)
    BY LogGrows
  <1>2. ASSUME NEW e \in Members, memberships'[e] = memberships[e],
               k \in {"SPACE_CREATED", "SPACE_MEMBER_JOINED", "SPACE_MEMBER_LEFT"} => e # of
        PROVE  Told(MemberArrivals(e), MemberDepartures(e), memberships[e])'
    <2>1. MemberArrivals(e)' = MemberArrivals(e) /\ MemberDepartures(e)' = MemberDepartures(e)
      BY <1>1, <1>2 DEF MemberArrivals, MemberDepartures
    <2> QED BY <1>2, <2>1 DEF RowsAreTold, Told, Standing
  <1>3. ASSUME NEW o \in Objects, relations'[o] = relations[o],
               k \in {"SPACE_OBJECT_ATTACHED", "SPACE_OBJECT_DETACHED"} => o # of
        PROVE  Told(ObjectArrivals(o), ObjectDepartures(o), relations[o])'
    <2>1. ObjectArrivals(o)' = ObjectArrivals(o) /\ ObjectDepartures(o)' = ObjectDepartures(o)
      BY <1>1, <1>3 DEF ObjectArrivals, ObjectDepartures
    <2> QED BY <1>3, <2>1 DEF RowsAreTold, Told, Standing
  <1> QED BY <1>2, <1>3

LEMMA MemberArrives ==
    ASSUME SpaceTypes, RowsAreTold, NEW k \in {"SPACE_CREATED", "SPACE_MEMBER_JOINED"},
           NEW e \in Members, NEW role \in {"OWNER", "MEMBER"}, AppendSpaceEvent(k, e),
           Open(memberships[e]) = {},
           memberships' = [memberships EXCEPT ![e] = Append(memberships[e], OpenRow(role))]
    PROVE  /\ memberships' \in [Members -> Seq(Rows)]
           /\ \A f \in Members : Told(MemberArrivals(f), MemberDepartures(f), memberships[f])'
  <1> DEFINE n == Len(spaceLog) + 1
  <1>1. k \in EventKinds
    BY DEF EventKinds
  <1>2. /\ MemberArrivals(e)' = MemberArrivals(e) \cup {n}
        /\ MemberDepartures(e)' = MemberDepartures(e)
        /\ n \notin MemberArrivals(e)
        /\ IsFiniteSet(MemberDepartures(e))
        /\ MemberArrivals(e) \in SUBSET (1 .. Len(spaceLog))
        /\ Len(spaceLog) \in Nat
    <2>1. /\ Happened("SPACE_CREATED", e)' \cup Happened("SPACE_MEMBER_JOINED", e)'
                = Happened("SPACE_CREATED", e) \cup Happened("SPACE_MEMBER_JOINED", e) \cup {n}
          /\ Happened("SPACE_MEMBER_LEFT", e)' = Happened("SPACE_MEMBER_LEFT", e)
      BY <1>1, LogGrows
    <2>2. /\ Happened("SPACE_CREATED", e) \subseteq 1 .. Len(spaceLog)
          /\ Happened("SPACE_MEMBER_JOINED", e) \subseteq 1 .. Len(spaceLog)
          /\ IsFiniteSet(Happened("SPACE_MEMBER_LEFT", e))
          /\ Len(spaceLog) \in Nat
      BY <1>1, LogGrows
    <2>3. n \notin 1 .. Len(spaceLog)
      BY <2>2
    <2> HIDE DEF n
    <2> QED BY <2>1, <2>2, <2>3 DEF MemberArrivals, MemberDepartures
  <1>3. IsFiniteSet(MemberArrivals(e))
    <2>1. IsFiniteSet(1 .. Len(spaceLog))
      BY <1>2, FS_Interval
    <2> QED BY <1>2, <2>1, FS_Subset
  <1>4. memberships[e] \in Seq(Rows) /\ Told(MemberArrivals(e), MemberDepartures(e), memberships[e])
    BY DEF SpaceTypes, RowsAreTold
  <1> HIDE DEF n
  <1>5. /\ Append(memberships[e], OpenRow(role)) \in Seq(Rows)
        /\ Told(MemberArrivals(e) \cup {n}, MemberDepartures(e), Append(memberships[e], OpenRow(role)))
    BY <1>2, <1>3, <1>4, Arrival
  <1>6. /\ memberships' \in [Members -> Seq(Rows)]
        /\ memberships'[e] = Append(memberships[e], OpenRow(role))
        /\ \A f \in Members \ {e} : memberships'[f] = memberships[f]
    BY <1>5 DEF SpaceTypes
  <1>7. Told(MemberArrivals(e), MemberDepartures(e), memberships[e])'
    BY <1>2, <1>5, <1>6 DEF Told, Standing
  <1>8. \A f \in Members \ {e} : Told(MemberArrivals(f), MemberDepartures(f), memberships[f])'
    BY <1>1, <1>6, OthersStayTold
  <1> QED BY <1>6, <1>7, <1>8

LEMMA MemberLeaves ==
    ASSUME SpaceTypes, RowsAreTold, NEW e \in Members, AppendSpaceEvent("SPACE_MEMBER_LEFT", e),
           Open(memberships[e]) # {},
           memberships' = [memberships EXCEPT ![e] = Close(memberships[e])]
    PROVE  /\ memberships' \in [Members -> Seq(Rows)]
           /\ \A f \in Members : Told(MemberArrivals(f), MemberDepartures(f), memberships[f])'
  <1> DEFINE n == Len(spaceLog) + 1
  <1>1. "SPACE_MEMBER_LEFT" \in EventKinds
    BY DEF EventKinds
  <1>2. /\ MemberArrivals(e)' = MemberArrivals(e)
        /\ MemberDepartures(e)' = MemberDepartures(e) \cup {n}
        /\ n \notin MemberDepartures(e)
        /\ IsFiniteSet(MemberDepartures(e))
        /\ MemberArrivals(e) \in SUBSET (1 .. Len(spaceLog))
        /\ Len(spaceLog) \in Nat
    <2>1. /\ Happened("SPACE_CREATED", e)' = Happened("SPACE_CREATED", e)
          /\ Happened("SPACE_MEMBER_JOINED", e)' = Happened("SPACE_MEMBER_JOINED", e)
          /\ Happened("SPACE_MEMBER_LEFT", e)' = Happened("SPACE_MEMBER_LEFT", e) \cup {n}
      BY <1>1, LogGrows
    <2>2. /\ Happened("SPACE_CREATED", e) \subseteq 1 .. Len(spaceLog)
          /\ Happened("SPACE_MEMBER_JOINED", e) \subseteq 1 .. Len(spaceLog)
          /\ Happened("SPACE_MEMBER_LEFT", e) \subseteq 1 .. Len(spaceLog)
          /\ IsFiniteSet(Happened("SPACE_MEMBER_LEFT", e))
          /\ Len(spaceLog) \in Nat
      BY <1>1, LogGrows
    <2>3. n \notin 1 .. Len(spaceLog)
      BY <2>2
    <2> HIDE DEF n
    <2> QED BY <2>1, <2>2, <2>3 DEF MemberArrivals, MemberDepartures
  <1>3. IsFiniteSet(MemberArrivals(e))
    <2>1. IsFiniteSet(1 .. Len(spaceLog))
      BY <1>2, FS_Interval
    <2> QED BY <1>2, <2>1, FS_Subset
  <1>4. memberships[e] \in Seq(Rows) /\ Told(MemberArrivals(e), MemberDepartures(e), memberships[e])
    BY DEF SpaceTypes, RowsAreTold
  <1> HIDE DEF n
  <1>5. /\ Close(memberships[e]) \in Seq(Rows)
        /\ Told(MemberArrivals(e), MemberDepartures(e) \cup {n}, Close(memberships[e]))
    BY <1>2, <1>3, <1>4, Departure
  <1>6. /\ memberships' \in [Members -> Seq(Rows)]
        /\ memberships'[e] = Close(memberships[e])
        /\ \A f \in Members \ {e} : memberships'[f] = memberships[f]
    BY <1>5 DEF SpaceTypes
  <1>7. Told(MemberArrivals(e), MemberDepartures(e), memberships[e])'
    BY <1>2, <1>5, <1>6 DEF Told, Standing
  <1>8. \A f \in Members \ {e} : Told(MemberArrivals(f), MemberDepartures(f), memberships[f])'
    BY <1>1, <1>6, OthersStayTold
  <1> QED BY <1>6, <1>7, <1>8

LEMMA ObjectArrives ==
    ASSUME SpaceTypes, RowsAreTold, NEW o \in Objects, AppendSpaceEvent("SPACE_OBJECT_ATTACHED", o),
           Open(relations[o]) = {},
           relations' = [relations EXCEPT ![o] = Append(relations[o], OpenRow("OBJECT"))]
    PROVE  /\ relations' \in [Objects -> Seq(Rows)]
           /\ \A p \in Objects : Told(ObjectArrivals(p), ObjectDepartures(p), relations[p])'
  <1> DEFINE n == Len(spaceLog) + 1
  <1>1. "SPACE_OBJECT_ATTACHED" \in EventKinds
    BY DEF EventKinds
  <1>2. /\ ObjectArrivals(o)' = ObjectArrivals(o) \cup {n}
        /\ ObjectDepartures(o)' = ObjectDepartures(o)
        /\ n \notin ObjectArrivals(o)
        /\ IsFiniteSet(ObjectArrivals(o))
        /\ IsFiniteSet(ObjectDepartures(o))
    <2>1. /\ Happened("SPACE_OBJECT_ATTACHED", o)' = Happened("SPACE_OBJECT_ATTACHED", o) \cup {n}
          /\ Happened("SPACE_OBJECT_DETACHED", o)' = Happened("SPACE_OBJECT_DETACHED", o)
          /\ Happened("SPACE_OBJECT_ATTACHED", o) \subseteq 1 .. Len(spaceLog)
          /\ IsFiniteSet(Happened("SPACE_OBJECT_ATTACHED", o))
          /\ IsFiniteSet(Happened("SPACE_OBJECT_DETACHED", o))
          /\ Len(spaceLog) \in Nat
      BY <1>1, LogGrows
    <2>2. n \notin 1 .. Len(spaceLog)
      BY <2>1
    <2> HIDE DEF n
    <2> QED BY <2>1, <2>2 DEF ObjectArrivals, ObjectDepartures
  <1>3. relations[o] \in Seq(Rows) /\ Told(ObjectArrivals(o), ObjectDepartures(o), relations[o])
    BY DEF SpaceTypes, RowsAreTold
  <1> HIDE DEF n
  <1>4. /\ Append(relations[o], OpenRow("OBJECT")) \in Seq(Rows)
        /\ Told(ObjectArrivals(o) \cup {n}, ObjectDepartures(o), Append(relations[o], OpenRow("OBJECT")))
    BY <1>2, <1>3, Arrival
  <1>5. /\ relations' \in [Objects -> Seq(Rows)]
        /\ relations'[o] = Append(relations[o], OpenRow("OBJECT"))
        /\ \A p \in Objects \ {o} : relations'[p] = relations[p]
    BY <1>4 DEF SpaceTypes
  <1>6. Told(ObjectArrivals(o), ObjectDepartures(o), relations[o])'
    BY <1>2, <1>4, <1>5 DEF Told, Standing
  <1>7. \A p \in Objects \ {o} : Told(ObjectArrivals(p), ObjectDepartures(p), relations[p])'
    BY <1>1, <1>5, OthersStayTold
  <1> QED BY <1>5, <1>6, <1>7

LEMMA ObjectLeaves ==
    ASSUME SpaceTypes, RowsAreTold, NEW o \in Objects, AppendSpaceEvent("SPACE_OBJECT_DETACHED", o),
           Open(relations[o]) # {},
           relations' = [relations EXCEPT ![o] = Close(relations[o])]
    PROVE  /\ relations' \in [Objects -> Seq(Rows)]
           /\ \A p \in Objects : Told(ObjectArrivals(p), ObjectDepartures(p), relations[p])'
  <1> DEFINE n == Len(spaceLog) + 1
  <1>1. "SPACE_OBJECT_DETACHED" \in EventKinds
    BY DEF EventKinds
  <1>2. /\ ObjectArrivals(o)' = ObjectArrivals(o)
        /\ ObjectDepartures(o)' = ObjectDepartures(o) \cup {n}
        /\ n \notin ObjectDepartures(o)
        /\ IsFiniteSet(ObjectArrivals(o))
        /\ IsFiniteSet(ObjectDepartures(o))
    <2>1. /\ Happened("SPACE_OBJECT_ATTACHED", o)' = Happened("SPACE_OBJECT_ATTACHED", o)
          /\ Happened("SPACE_OBJECT_DETACHED", o)' = Happened("SPACE_OBJECT_DETACHED", o) \cup {n}
          /\ Happened("SPACE_OBJECT_DETACHED", o) \subseteq 1 .. Len(spaceLog)
          /\ IsFiniteSet(Happened("SPACE_OBJECT_ATTACHED", o))
          /\ IsFiniteSet(Happened("SPACE_OBJECT_DETACHED", o))
          /\ Len(spaceLog) \in Nat
      BY <1>1, LogGrows
    <2>2. n \notin 1 .. Len(spaceLog)
      BY <2>1
    <2> HIDE DEF n
    <2> QED BY <2>1, <2>2 DEF ObjectArrivals, ObjectDepartures
  <1>3. relations[o] \in Seq(Rows) /\ Told(ObjectArrivals(o), ObjectDepartures(o), relations[o])
    BY DEF SpaceTypes, RowsAreTold
  <1> HIDE DEF n
  <1>4. /\ Close(relations[o]) \in Seq(Rows)
        /\ Told(ObjectArrivals(o), ObjectDepartures(o) \cup {n}, Close(relations[o]))
    BY <1>2, <1>3, Departure
  <1>5. /\ relations' \in [Objects -> Seq(Rows)]
        /\ relations'[o] = Close(relations[o])
        /\ \A p \in Objects \ {o} : relations'[p] = relations[p]
    BY <1>4 DEF SpaceTypes
  <1>6. Told(ObjectArrivals(o), ObjectDepartures(o), relations[o])'
    BY <1>2, <1>4, <1>5 DEF Told, Standing
  <1>7. \A p \in Objects \ {o} : Told(ObjectArrivals(p), ObjectDepartures(p), relations[p])'
    BY <1>1, <1>5, OthersStayTold
  <1> QED BY <1>5, <1>6, <1>7

-----------------------------------------------------------------------------
(* Steps.                                                                  *)

LEMMA InitialSpace == SpaceInit => SpaceInv
  <1> SUFFICES ASSUME SpaceInit PROVE SpaceInv
    OBVIOUS
  <1> USE DEF SpaceInit
  <1>1. SpaceTypes
    BY DEF SpaceTypes
  <1>2. \A kind, e : Happened(kind, e) = {}
    BY DEF Happened
  <1>3. Open(<<>>) = {}
    BY DEF Open
  <1>4. Told({}, {}, <<>>)
    BY <1>3, FS_EmptySet DEF Told, Standing
  <1>5. RowsAreTold
    BY <1>2, <1>4
    DEF RowsAreTold, MemberArrivals, MemberDepartures, ObjectArrivals, ObjectDepartures
  <1>6. SpaceIsTold
    BY DEF SpaceIsTold, NoSpace
  <1>7. LooksAreOlder /\ OneHolder
    BY DEF LooksAreOlder, OneHolder, NoVisit
  <1> QED BY <1>1, <1>5, <1>6, <1>7 DEF SpaceInv

LEMMA RowsOfASpace ==
    /\ NoSpace \notin SpaceRows
    /\ NoVisit \notin Visits
    /\ \A r \in SpaceRows : /\ r.version \in Nat /\ r.version <= MaxSpaceVersion
                            /\ r.owner \in Members
                            /\ r.text \in SUBSET (1 .. MaxSpaceVersion)
  BY SpaceConstants DEF NoSpace, NoVisit, SpaceRows, Visits

(* Whoever bumps the version holds the row, and what it knows is what is   *)
(* there; everybody else's look is older by one more.                      *)
LEMMA Bumped ==
    ASSUME SpaceInv, NEW s \in Visitors, BumpSpaceVersion(s),
           space # NoSpace => /\ space'.version = space.version + 1
                              /\ space' # NoSpace
    PROVE  /\ space \in SpaceRows
           /\ space.version + 1 \in 1 .. MaxSpaceVersion
           /\ visit[s].locked = space
           /\ visit[s].looked.version = space.version => visit[s].looked = space
           /\ visit' \in [Visitors -> Visits \cup {NoVisit}]
           /\ LooksAreOlder'
           /\ OneHolder'
  <1>1. /\ visit[s].at = "HOLDING"
        /\ space.version < MaxSpaceVersion
        /\ visit'[s] = NoVisit
        /\ \A t \in Visitors \ {s} : visit'[t] = visit[t]
        /\ visit' \in [Visitors -> Visits \cup {NoVisit}]
    BY DEF BumpSpaceVersion, SpaceInv, SpaceTypes
  <1>2. visit[s] # NoVisit
    BY <1>1 DEF NoVisit
  <1>3. /\ space # NoSpace
        /\ visit[s].locked = space
        /\ visit[s].looked.version = space.version => visit[s].looked = space
    BY <1>1, <1>2 DEF SpaceInv, LooksAreOlder
  <1>4. space \in SpaceRows
    BY <1>3 DEF SpaceInv, SpaceTypes
  <1>5. /\ space.version \in Nat
        /\ space.version + 1 \in 1 .. MaxSpaceVersion
        /\ space'.version = space.version + 1
        /\ space' # NoSpace
    BY <1>1, <1>3, <1>4, RowsOfASpace, SpaceConstants
  <1>6. ASSUME NEW t \in Visitors, visit'[t] # NoVisit
        PROVE  /\ visit'[t].looked.version < space'.version
               /\ visit'[t].at # "HOLDING"
    <2>1. t # s /\ visit'[t] = visit[t] /\ visit[t] \in Visits
      BY <1>1, <1>6 DEF SpaceInv, SpaceTypes
    <2>2. visit[t].looked.version \in Nat
      <3>1. visit[t].looked \in SpaceRows
        BY <2>1 DEF Visits
      <3> QED BY <3>1, RowsOfASpace
    <2>3. visit[t].looked.version <= space.version
      BY <1>6, <2>1 DEF SpaceInv, LooksAreOlder
    <2>4. visit[t].at # "HOLDING"
      BY <1>1, <2>1 DEF SpaceInv, OneHolder
    <2> QED BY <1>5, <2>1, <2>2, <2>3, <2>4
  <1>7. LooksAreOlder'
    <2> SUFFICES ASSUME NEW t \in Visitors, visit'[t] # NoVisit
                 PROVE  /\ visit'[t].looked.version < space'.version
                        /\ visit'[t].looked.version \in Nat
                        /\ visit'[t].at # "HOLDING"
      BY <1>5 DEF LooksAreOlder
    <2>1. visit'[t].looked.version \in Nat
      <3>1. visit'[t] \in Visits
        BY <1>1
      <3>2. visit'[t].looked \in SpaceRows
        BY <3>1 DEF Visits
      <3> QED BY <3>2, RowsOfASpace
    <2> QED BY <1>6, <2>1
  <1>8. OneHolder'
    <2>1. \A t \in Visitors : visit'[t].at # "HOLDING"
      BY <1>6 DEF NoVisit
    <2> QED BY <2>1 DEF OneHolder
  <1> QED BY <1>1, <1>3, <1>4, <1>5, <1>7, <1>8

(* A change that is told in its event and keeps the owner.                 *)
LEMMA ChangeKeeps ==
    ASSUME SpaceInv, NEW s \in Visitors, BumpSpaceVersion(s),
           NEW k \in EventKinds, NEW of \in Members \cup Objects, AppendSpaceEvent(k, of),
           NEW text,
           text = IF k = "SPACE_METADATA_UPDATED" THEN space.text \cup {space.version + 1} ELSE space.text,
           space' = [space EXCEPT !.version = space.version + 1, !.text = text],
           memberships' \in [Members -> Seq(Rows)],
           relations' \in [Objects -> Seq(Rows)],
           memberships'[space.owner] = memberships[space.owner],
           RowsAreTold'
    PROVE  SpaceInv'
  <1>1. space # NoSpace => space \in SpaceRows
    BY DEF SpaceInv, SpaceTypes
  <1>2. space # NoSpace => /\ space'.version = space.version + 1
                           /\ space'.owner = space.owner
                           /\ space'.text = text
                           /\ space' # NoSpace
    BY <1>1 DEF SpaceRows, NoSpace
  <1>3. /\ space \in SpaceRows
        /\ space.version + 1 \in 1 .. MaxSpaceVersion
        /\ visit' \in [Visitors -> Visits \cup {NoVisit}]
        /\ LooksAreOlder'
        /\ OneHolder'
    BY <1>2, Bumped
  <1>4. space # NoSpace
    BY <1>3, RowsOfASpace
  <1>5. /\ spaceLog' \in Seq(SpaceEvents)
        /\ Len(spaceLog) \in Nat
        /\ Len(spaceLog') = Len(spaceLog) + 1
        /\ Updates' = Updates \cup IF k = "SPACE_METADATA_UPDATED" THEN {Len(spaceLog) + 1} ELSE {}
    BY LogGrows DEF SpaceInv
  <1>6. space' \in SpaceRows
    <2>1. text \in SUBSET (1 .. MaxSpaceVersion)
      BY <1>3, RowsOfASpace
    <2> QED BY <1>3, <2>1 DEF SpaceRows
  <1>7. SpaceTypes'
    BY <1>3, <1>5, <1>6 DEF SpaceTypes
  <1>8. SpaceIsTold'
    <2>1. space.version = Len(spaceLog) /\ space.text = Updates
          /\ memberships[space.owner] = <<OpenRow("OWNER")>>
      BY <1>4 DEF SpaceInv, SpaceIsTold
    <2>2. space'.text = Updates'
      BY <1>2, <1>4, <1>5, <2>1
    <2> QED BY <1>2, <1>4, <1>5, <2>1, <2>2 DEF SpaceIsTold
  <1> QED BY <1>3, <1>7, <1>8 DEF SpaceInv

LEMMA CreateSpaceKeeps ==
    ASSUME SpaceInv, NEW s \in Visitors, NEW owner \in Members, CreateSpace(s, owner)
    PROVE  SpaceInv'
  <1>1. /\ space = NoSpace
        /\ space' = [owner |-> owner, version |-> 1, text |-> {}]
        /\ memberships' = [memberships EXCEPT ![owner] = <<OpenRow("OWNER")>>]
        /\ AppendSpaceEvent("SPACE_CREATED", owner)
        /\ UNCHANGED <<relations, visit>>
    BY DEF CreateSpace
  <1>2. memberships[owner] = <<>> /\ Len(spaceLog) = 0
    BY <1>1 DEF SpaceInv, SpaceIsTold, NoSpace
  <1>3. Open(memberships[owner]) = {}
    BY <1>2 DEF Open
  <1>4. Append(memberships[owner], OpenRow("OWNER")) = <<OpenRow("OWNER")>>
    BY <1>2
  <1>5. /\ memberships' \in [Members -> Seq(Rows)]
        /\ \A f \in Members : Told(MemberArrivals(f), MemberDepartures(f), memberships[f])'
    BY <1>1, <1>3, <1>4, MemberArrives DEF SpaceInv
  <1>6. "SPACE_CREATED" \in EventKinds
    BY DEF EventKinds
  <1>7. \A o \in Objects : Told(ObjectArrivals(o), ObjectDepartures(o), relations[o])'
    BY <1>1, <1>6, OthersStayTold DEF SpaceInv
  <1>8. RowsAreTold'
    BY <1>5, <1>7 DEF RowsAreTold
  <1>9. space' \in SpaceRows /\ space' # NoSpace /\ space'.version = 1
        /\ space'.text = {} /\ space'.owner = owner
    BY <1>1, SpaceConstants DEF SpaceRows, NoSpace
  <1>10. /\ spaceLog' \in Seq(SpaceEvents)
         /\ Len(spaceLog') = Len(spaceLog) + 1
         /\ Updates' = Updates
    BY <1>1, <1>6, LogGrows DEF SpaceInv
  <1>11. Updates = {}
    BY <1>2 DEF Updates, SpaceInv, SpaceTypes
  <1>12. memberships'[owner] = <<OpenRow("OWNER")>>
    BY <1>1 DEF SpaceInv, SpaceTypes
  <1>13. SpaceTypes'
    BY <1>1, <1>5, <1>9, <1>10 DEF SpaceInv, SpaceTypes
  <1>14. SpaceIsTold'
    BY <1>2, <1>9, <1>10, <1>11, <1>12 DEF SpaceIsTold
  <1>15. LooksAreOlder' /\ OneHolder'
    <2>1. \A t \in Visitors : visit'[t] = NoVisit
      BY <1>1 DEF SpaceInv, LooksAreOlder
    <2> QED BY <2>1 DEF LooksAreOlder, OneHolder, NoVisit
  <1> QED BY <1>8, <1>13, <1>14, <1>15 DEF SpaceInv

LEMMA UpdateSpaceMetadataKeeps ==
    ASSUME SpaceInv, NEW s \in Visitors, UpdateSpaceMetadata(s)
    PROVE  SpaceInv'
  <1>1. PICK text : text = visit[s].looked.text \cup {space.version + 1}
    OBVIOUS
  <1>2. /\ BumpSpaceVersion(s)
        /\ visit[s].locked.version = visit[s].looked.version
        /\ space' = [space EXCEPT !.version = space.version + 1, !.text = text]
        /\ AppendSpaceEvent("SPACE_METADATA_UPDATED", space.owner)
        /\ UNCHANGED <<memberships, relations>>
    BY <1>1 DEF UpdateSpaceMetadata, ExpectedVersion
  <1>3. space # NoSpace => space'.version = space.version + 1 /\ space' # NoSpace
    <2> SUFFICES ASSUME space # NoSpace PROVE space'.version = space.version + 1 /\ space' # NoSpace
      OBVIOUS
    <2>1. space \in SpaceRows
      BY DEF SpaceInv, SpaceTypes
    <2> QED BY <1>2, <2>1 DEF SpaceRows, NoSpace
  <1>4. space \in SpaceRows /\ visit[s].looked = space
    BY <1>2, <1>3, Bumped
  <1>5. space.owner \in Members /\ text = space.text \cup {space.version + 1}
    BY <1>1, <1>4, RowsOfASpace
  <1>6. "SPACE_METADATA_UPDATED" \in EventKinds
    BY DEF EventKinds
  <1>7. RowsAreTold'
    <2>1. \A e \in Members : Told(MemberArrivals(e), MemberDepartures(e), memberships[e])'
      BY <1>2, <1>5, <1>6, OthersStayTold DEF SpaceInv
    <2>2. \A o \in Objects : Told(ObjectArrivals(o), ObjectDepartures(o), relations[o])'
      BY <1>2, <1>5, <1>6, OthersStayTold DEF SpaceInv
    <2> QED BY <2>1, <2>2 DEF RowsAreTold
  <1>8. /\ memberships' \in [Members -> Seq(Rows)]
        /\ relations' \in [Objects -> Seq(Rows)]
        /\ memberships'[space.owner] = memberships[space.owner]
    BY <1>2 DEF SpaceInv, SpaceTypes
  <1> QED BY <1>2, <1>5, <1>6, <1>7, <1>8, ChangeKeeps

(* A change of members or objects: the metadata stays.                     *)
LEMMA RowsChangeKeeps ==
    ASSUME SpaceInv, NEW s \in Visitors, BumpSpaceVersion(s),
           NEW k \in EventKinds \ {"SPACE_METADATA_UPDATED"},
           NEW of \in Members \cup Objects, AppendSpaceEvent(k, of),
           space' = [space EXCEPT !.version = @ + 1],
           memberships' \in [Members -> Seq(Rows)],
           relations' \in [Objects -> Seq(Rows)],
           memberships'[space.owner] = memberships[space.owner],
           RowsAreTold'
    PROVE  SpaceInv'
  <1>1. space # NoSpace => space'.version = space.version + 1 /\ space' # NoSpace
    <2> SUFFICES ASSUME space # NoSpace PROVE space'.version = space.version + 1 /\ space' # NoSpace
      OBVIOUS
    <2>1. space \in SpaceRows
      BY DEF SpaceInv, SpaceTypes
    <2> QED BY <2>1 DEF SpaceRows, NoSpace
  <1>2. space \in SpaceRows
    BY <1>1, Bumped
  <1>3. PICK text : text = space.text
    OBVIOUS
  <1>4. space' = [space EXCEPT !.version = space.version + 1, !.text = text]
    BY <1>2, <1>3 DEF SpaceRows
  <1> QED BY <1>3, <1>4, ChangeKeeps

LEMMA HeldIsThere ==
    ASSUME SpaceInv, NEW s \in Visitors, BumpSpaceVersion(s)
    PROVE  /\ space # NoSpace
           /\ visit[s].locked.owner = space.owner
           /\ space.owner \in Members
           /\ Open(memberships[space.owner]) # {}
  <1>1. visit[s] # NoVisit /\ visit[s].at = "HOLDING"
    BY DEF BumpSpaceVersion, NoVisit
  <1>2. space # NoSpace /\ visit[s].locked = space
    BY <1>1 DEF SpaceInv, LooksAreOlder
  <1>3. space.owner \in Members
    BY <1>2, RowsOfASpace DEF SpaceInv, SpaceTypes
  <1>4. memberships[space.owner] = <<OpenRow("OWNER")>>
    BY <1>2 DEF SpaceInv, SpaceIsTold
  <1>5. 1 \in Open(<<OpenRow("OWNER")>>)
    BY DEF Open, OpenRow
  <1> QED BY <1>2, <1>3, <1>4, <1>5

LEMMA JoinSpaceKeeps ==
    ASSUME SpaceInv, NEW s \in Visitors, NEW e \in Members, JoinSpace(s, e)
    PROVE  SpaceInv'
  <1>1. /\ BumpSpaceVersion(s)
        /\ Open(memberships[e]) = {}
        /\ memberships' = [memberships EXCEPT ![e] = Append(memberships[e], OpenRow("MEMBER"))]
        /\ space' = [space EXCEPT !.version = @ + 1]
        /\ AppendSpaceEvent("SPACE_MEMBER_JOINED", e)
        /\ UNCHANGED relations
    BY DEF JoinSpace
  <1>2. "SPACE_MEMBER_JOINED" \in EventKinds \ {"SPACE_METADATA_UPDATED"}
    BY DEF EventKinds
  <1>3. /\ memberships' \in [Members -> Seq(Rows)]
        /\ \A f \in Members : Told(MemberArrivals(f), MemberDepartures(f), memberships[f])'
    BY <1>1, MemberArrives DEF SpaceInv
  <1>4. \A o \in Objects : Told(ObjectArrivals(o), ObjectDepartures(o), relations[o])'
    BY <1>1, <1>2, OthersStayTold DEF SpaceInv
  <1>5. RowsAreTold' /\ relations' \in [Objects -> Seq(Rows)]
    BY <1>1, <1>3, <1>4 DEF RowsAreTold, SpaceInv, SpaceTypes
  <1>6. memberships'[space.owner] = memberships[space.owner]
    BY <1>1, HeldIsThere DEF SpaceInv, SpaceTypes
  <1> QED BY <1>1, <1>2, <1>3, <1>5, <1>6, RowsChangeKeeps

LEMMA LeaveSpaceKeeps ==
    ASSUME SpaceInv, NEW s \in Visitors, NEW e \in Members, LeaveSpace(s, e)
    PROVE  SpaceInv'
  <1>1. /\ BumpSpaceVersion(s)
        /\ e # visit[s].locked.owner
        /\ Open(memberships[e]) # {}
        /\ memberships' = [memberships EXCEPT ![e] = Close(memberships[e])]
        /\ space' = [space EXCEPT !.version = @ + 1]
        /\ AppendSpaceEvent("SPACE_MEMBER_LEFT", e)
        /\ UNCHANGED relations
    BY DEF LeaveSpace
  <1>2. "SPACE_MEMBER_LEFT" \in EventKinds \ {"SPACE_METADATA_UPDATED"}
    BY DEF EventKinds
  <1>3. /\ memberships' \in [Members -> Seq(Rows)]
        /\ \A f \in Members : Told(MemberArrivals(f), MemberDepartures(f), memberships[f])'
    BY <1>1, MemberLeaves DEF SpaceInv
  <1>4. \A o \in Objects : Told(ObjectArrivals(o), ObjectDepartures(o), relations[o])'
    BY <1>1, <1>2, OthersStayTold DEF SpaceInv
  <1>5. RowsAreTold' /\ relations' \in [Objects -> Seq(Rows)]
    BY <1>1, <1>3, <1>4 DEF RowsAreTold, SpaceInv, SpaceTypes
  <1>6. memberships'[space.owner] = memberships[space.owner]
    BY <1>1, HeldIsThere DEF SpaceInv, SpaceTypes
  <1> QED BY <1>1, <1>2, <1>3, <1>5, <1>6, RowsChangeKeeps

LEMMA AttachKeeps ==
    ASSUME SpaceInv, NEW s \in Visitors, NEW o \in Objects, AttachObjectToSpace(s, o)
    PROVE  SpaceInv'
  <1>1. /\ BumpSpaceVersion(s)
        /\ Open(relations[o]) = {}
        /\ relations' = [relations EXCEPT ![o] = Append(relations[o], OpenRow("OBJECT"))]
        /\ space' = [space EXCEPT !.version = @ + 1]
        /\ AppendSpaceEvent("SPACE_OBJECT_ATTACHED", o)
        /\ UNCHANGED memberships
    BY DEF AttachObjectToSpace
  <1>2. "SPACE_OBJECT_ATTACHED" \in EventKinds \ {"SPACE_METADATA_UPDATED"}
    BY DEF EventKinds
  <1>3. /\ relations' \in [Objects -> Seq(Rows)]
        /\ \A p \in Objects : Told(ObjectArrivals(p), ObjectDepartures(p), relations[p])'
    BY <1>1, ObjectArrives DEF SpaceInv
  <1>4. \A e \in Members : Told(MemberArrivals(e), MemberDepartures(e), memberships[e])'
    BY <1>1, <1>2, OthersStayTold DEF SpaceInv
  <1>5. RowsAreTold' /\ memberships' \in [Members -> Seq(Rows)]
    BY <1>1, <1>3, <1>4 DEF RowsAreTold, SpaceInv, SpaceTypes
  <1> QED BY <1>1, <1>2, <1>3, <1>5, RowsChangeKeeps

LEMMA DetachKeeps ==
    ASSUME SpaceInv, NEW s \in Visitors, NEW o \in Objects, DetachObjectFromSpace(s, o)
    PROVE  SpaceInv'
  <1>1. /\ BumpSpaceVersion(s)
        /\ Open(relations[o]) # {}
        /\ relations' = [relations EXCEPT ![o] = Close(relations[o])]
        /\ space' = [space EXCEPT !.version = @ + 1]
        /\ AppendSpaceEvent("SPACE_OBJECT_DETACHED", o)
        /\ UNCHANGED memberships
    BY DEF DetachObjectFromSpace
  <1>2. "SPACE_OBJECT_DETACHED" \in EventKinds \ {"SPACE_METADATA_UPDATED"}
    BY DEF EventKinds
  <1>3. /\ relations' \in [Objects -> Seq(Rows)]
        /\ \A p \in Objects : Told(ObjectArrivals(p), ObjectDepartures(p), relations[p])'
    BY <1>1, ObjectLeaves DEF SpaceInv
  <1>4. \A e \in Members : Told(MemberArrivals(e), MemberDepartures(e), memberships[e])'
    BY <1>1, <1>2, OthersStayTold DEF SpaceInv
  <1>5. RowsAreTold' /\ memberships' \in [Members -> Seq(Rows)]
    BY <1>1, <1>3, <1>4 DEF RowsAreTold, SpaceInv, SpaceTypes
  <1> QED BY <1>1, <1>2, <1>3, <1>5, RowsChangeKeeps

(* The rows and the log stay as they are told.                             *)
LEMMA NothingTold ==
    ASSUME SpaceInv, UNCHANGED <<space, memberships, relations, spaceLog>>
    PROVE  RowsAreTold' /\ SpaceIsTold'
  <1>1. (\A kind, e : Happened(kind, e)' = Happened(kind, e)) /\ Updates' = Updates
    BY DEF Happened, Updates
  <1>2. RowsAreTold'
    BY <1>1 DEF SpaceInv, RowsAreTold, Told, Standing, MemberArrivals, MemberDepartures,
                ObjectArrivals, ObjectDepartures
  <1>3. SpaceIsTold'
    BY <1>1 DEF SpaceInv, SpaceIsTold
  <1> QED BY <1>2, <1>3

LEMMA VisitKeeps ==
    ASSUME SpaceInv, NEW s \in Visitors, Look(s) \/ LockSpace(s) \/ EndVisit(s)
    PROVE  SpaceInv'
  <1>1. PICK v : v = visit'[s]
    OBVIOUS
  <1>2. /\ UNCHANGED <<space, memberships, relations, spaceLog>>
        /\ \A t \in Visitors \ {s} : visit'[t] = visit[t]
    BY DEF Look, LockSpace, EndVisit, SpaceInv, SpaceTypes
  <1>3. /\ visit' = [visit EXCEPT ![s] = v]
        /\ \/ v = NoVisit
           \/ /\ space # NoSpace
              /\ v = [at |-> "LOOKED", looked |-> space]
           \/ /\ visit[s].at = "LOOKED"
              /\ v = [at |-> "HOLDING", looked |-> visit[s].looked, locked |-> space]
              /\ \A t \in Visitors : visit[t].at # "HOLDING"
    BY <1>1 DEF Look, LockSpace, EndVisit, SpaceInv, SpaceTypes
  <1>4. space # NoSpace => space \in SpaceRows /\ space.version \in Nat
    BY RowsOfASpace DEF SpaceInv, SpaceTypes
  <1>5. visit[s].at = "LOOKED" =>
           /\ space # NoSpace
           /\ visit[s].looked \in SpaceRows
           /\ visit[s].looked.version <= space.version
           /\ visit[s].looked.version = space.version => visit[s].looked = space
    <2> SUFFICES ASSUME visit[s].at = "LOOKED"
                 PROVE  /\ space # NoSpace
                        /\ visit[s].looked \in SpaceRows
                        /\ visit[s].looked.version <= space.version
                        /\ visit[s].looked.version = space.version => visit[s].looked = space
      OBVIOUS
    <2>1. visit[s] # NoVisit
      BY DEF NoVisit
    <2>2. visit[s].looked \in SpaceRows
      BY <2>1 DEF SpaceInv, SpaceTypes, Visits
    <2> QED BY <2>1, <2>2 DEF SpaceInv, LooksAreOlder
  <1>6. v \in Visits \cup {NoVisit}
    BY <1>3, <1>4, <1>5 DEF Visits
  <1>7. SpaceTypes'
    BY <1>2, <1>3, <1>6 DEF SpaceInv, SpaceTypes
  <1>8. v # NoVisit =>
           /\ space # NoSpace
           /\ v.looked.version <= space.version
           /\ v.looked.version = space.version => v.looked = space
           /\ v.at = "HOLDING" => v.locked = space
    BY <1>3, <1>4, <1>5
  <1>9. LooksAreOlder'
    BY <1>1, <1>2, <1>8 DEF SpaceInv, LooksAreOlder
  <1>10. OneHolder'
    BY <1>1, <1>2, <1>3 DEF SpaceInv, OneHolder, NoVisit
  <1> QED BY <1>2, <1>7, <1>9, <1>10, NothingTold DEF SpaceInv

LEMMA SpaceStep ==
    ASSUME SpaceInv, [SocialNext]_vars
    PROVE  SpaceInv'
  <1>1. CASE UNCHANGED spaceVars
    <2> USE <1>1 DEF spaceVars
    <2>1. RowsAreTold' /\ SpaceIsTold'
      BY NothingTold
    <2>2. SpaceTypes' /\ LooksAreOlder' /\ OneHolder'
      BY DEF SpaceInv, SpaceTypes, LooksAreOlder, OneHolder
    <2> QED BY <2>1, <2>2 DEF SpaceInv
  <1>2. ASSUME NEW s \in Visitors, SpaceCall(s) PROVE SpaceInv'
    BY <1>2, CreateSpaceKeeps, VisitKeeps DEF SpaceCall
  <1>3. ASSUME NEW s \in Visitors, SpaceWork(s) PROVE SpaceInv'
    BY <1>3, UpdateSpaceMetadataKeeps, JoinSpaceKeeps, LeaveSpaceKeeps, AttachKeeps, DetachKeeps,
       VisitKeeps DEF SpaceWork
  <1> QED BY <1>1, <1>2, <1>3, OneSetOfSessions DEF SocialNext, Call, Work, vars

(* The log of a space tells its version, metadata, members and objects,    *)
(* for any number of sessions and whatever they had looked at before       *)
(* (social_space.js, the triggers of 0525).                                *)
THEOREM SpacesAreTold == SocialSpec => []LogTellsSpace
  <1>1. SocialInit => SpaceInv
    BY InitialSpace DEF SocialInit
  <1>2. SpaceInv /\ [SocialNext]_vars => SpaceInv'
    BY SpaceStep
  <1>3. SpaceInv => LogTellsSpace
    BY DEF SpaceInv, RowsAreTold, SpaceIsTold, LogTellsSpace, Told, Updates, MemberArrivals,
           MemberDepartures, ObjectArrivals, ObjectDepartures
  <1> QED BY <1>1, <1>2, <1>3, PTL DEF SocialSpec

(* Every variable of the composition keeps its type.                       *)
THEOREM SocialTypes == SocialSpec => []TypeOK
  <1>1. SocialInit => RelationshipInv /\ SpaceInv
    BY InitialRelationships, InitialSpace DEF SocialInit
  <1>2. RelationshipInv /\ SpaceInv /\ [SocialNext]_vars => RelationshipInv' /\ SpaceInv'
    BY RelationshipStep, SpaceStep
  <1>3. RelationshipInv /\ SpaceInv => TypeOK
    BY DEF RelationshipInv, RowTypes, SpaceInv, SpaceTypes, TypeOK
  <1> QED BY <1>1, <1>2, <1>3, PTL DEF SocialSpec
=============================================================================
