----------------------------- MODULE GraphScope -----------------------------
(***************************************************************************)
(* What a reader may see of one graph revision: project_scoped_snapshot    *)
(* (application/graph_scope) over the snapshot, the sources its evidence   *)
(* cites and the reader's campaign scope and admissibility.                *)
(*                                                                         *)
(* Simplifications:                                                        *)
(*  - A graph is a set of assertions and a function from evidence ids to   *)
(*    evidence records.  An assertion says that its object exists, names   *)
(*    it otherwise (alias), tells of it (summary, property, aspect) or     *)
(*    relates two objects (edge).  Graphs before v4 have no scope of their *)
(*    own on assertions, which is the scope of the world for players.      *)
(*  - A text is a set of words.                                            *)
(*  - The order of gap codes and ids is left out.                          *)
(***************************************************************************)
EXTENDS Naturals, Sequences, FiniteSets, SequencesExt

CONSTANT None

(* What one read is about: the graph, the stored sources, who reads, and   *)
(* the evidence records that genesis stamped with a placeholder domain.    *)
(*   reader  : [world, mode, campaign, admissibility]                      *)
(*   sources : [artifacts, revisions], functions into records or None      *)
(*   genesis : a set of <<evidence id, record>>                            *)

-----------------------------------------------------------------------------
(* CampaignScope.                                                          *)

(* resolve refuses a mode that contradicts the campaign.                   *)
ScopeCoherent(reader) == (reader.mode = "campaign") = (reader.campaign # None)

AdmitsCampaign(reader, owner) ==
    reader.mode = "cross campaign" \/ owner \in {None, reader.campaign}

(* Mutant: the audience of an assertion is not looked at.                  *)
AdmitsEveryAudience(reader, visibility) == TRUE

AdmitsAudience(reader, visibility) ==
    reader.admissibility = "player" => visibility = "player"

(* assertion_metadata_in_scope.                                            *)
MetadataInScope(reader, a) ==
    AdmitsCampaign(reader, a.campaign) /\ AdmitsAudience(reader, a.visibility)

-----------------------------------------------------------------------------
(* Evidence: the chain from a record to its artifact and revision.         *)

Valid == [verdict |-> "valid", gap |-> None]
Hidden == [verdict |-> "hidden", gap |-> None]
Unknown == [verdict |-> "unknown", gap |-> None]
Broken(code, id) == [verdict |-> "broken", gap |-> <<code, id>>]

SourceArtifactInScope(reader, artifact) ==
    /\ artifact.world = reader.world
    /\ AdmitsAudience(reader, artifact.visibility)
    /\ AdmitsCampaign(reader, artifact.campaign)

(* _genesis_other_placeholder_admits.                                      *)
PlaceholderAdmits(e, read) ==
    /\ <<e, read.graph.evidence[e]>> \in read.genesis
    /\ read.graph.evidence[e].domain = "other"
    /\ read.sources.artifacts[read.graph.evidence[e].artifact].domain = "worldbuilding"

(* resolve_evidence_provenance: scope comes before anything that would     *)
(* tell of an artifact.                                                    *)
ResolveEvidence(e, read) ==
    LET record == read.graph.evidence[e]
        artifact == read.sources.artifacts[record.artifact]
        revision == read.sources.revisions[record.revision]
    IN  CASE e \notin DOMAIN read.graph.evidence -> Unknown
          [] e \in DOMAIN read.graph.evidence /\ artifact = None -> Unknown
          [] OTHER ->
             CASE artifact.visibility = "unset" -> Unknown
               [] ~SourceArtifactInScope(read.reader, artifact) -> Hidden
               [] artifact.schema # record.schema -> Broken("schema mismatch", e)
               [] artifact.status # "active" -> Broken("inactive", record.artifact)
               [] artifact.domain # record.domain /\ ~PlaceholderAdmits(e, read) ->
                    Broken("domain mismatch", e)
               [] record.revision # None /\ revision = None ->
                    Broken("revision missing", record.revision)
               [] record.revision # None /\ revision # record.artifact ->
                    Broken("revision artifact mismatch", record.revision)
               [] OTHER -> Valid

(* ObjectScopeExclusion: why something is withheld.                        *)
NoExclusion == [broken |-> {}, hidden |-> FALSE, unknown |-> FALSE]
OutOfScope == [NoExclusion EXCEPT !.hidden = TRUE]
ScopeUnknown == [NoExclusion EXCEPT !.unknown = TRUE]

(* _classify_evidence_ids.                                                 *)
ClassifyEvidence(ids, read) ==
    LET found == {ResolveEvidence(e, read) : e \in ids}
    IN  [broken |-> {f.gap : f \in {g \in found : g.verdict = "broken"}},
         hidden |-> Hidden \in found,
         unknown |-> Unknown \in found]

(* public_coverage_gaps_for_exclusion: what the reader is told about it.   *)
PublicGaps(exclusion) ==
    IF exclusion.unknown THEN {<<"stored provenance invalid", None>>} ELSE exclusion.broken

(* _admit_v4_assertion, and the same for the coarse objects of v1 and the  *)
(* core, aliases and summary of v2.                                        *)
Admission(a, read) ==
    CASE ~MetadataInScope(read.reader, a) -> OutOfScope
      [] a.evidence = {} -> ScopeUnknown
      [] OTHER -> ClassifyEvidence(a.evidence, read)

-----------------------------------------------------------------------------
(* The projection.                                                         *)

OfKind(graph, kinds) == {a \in graph.assertions : a.kind \in kinds}

(* _referenced_aspects_admitted: each end's aspect, on that end's object.  *)
AspectsAdmitted(edge, admitted) ==
    \A i \in {1, 2} : edge.aspects[i] # None =>
        \E a \in admitted :
            a.kind = "aspect" /\ a.id = edge.aspects[i] /\ a.of = edge.ends[i]

(* _project_v1_objects, _project_v2_objects and _project_v4_objects, then  *)
(* the relationships.  An omitted alias is remembered, in v4 only when no  *)
(* admitted alias of the object has the same text.                         *)
Project(read) ==
    LET graph == read.graph
        verdict == [a \in graph.assertions |-> Admission(a, read)]
        objects == {a.of : a \in {b \in OfKind(graph, {"existence"}) :
                                     verdict[b] = NoExclusion}}
        told == {a \in graph.assertions :
                    a.kind # "edge" /\ a.of \in objects /\ verdict[a] = NoExclusion}
        Reaches(a) == \A i \in {1, 2} : a.ends[i] \in objects
        Fate(a) == CASE a.kind = "edge" ->
                          (IF ~Reaches(a) THEN OutOfScope
                           ELSE IF verdict[a] # NoExclusion THEN verdict[a]
                           ELSE IF AspectsAdmitted(a, told) THEN NoExclusion ELSE OutOfScope)
                     [] OTHER -> verdict[a]
        admitted == told \cup {a \in OfKind(graph, {"edge"}) : Fate(a) = NoExclusion}
        aliases == {a \in OfKind(graph, {"alias"}) : a.of \in objects}
    IN  [objects |-> objects,
         assertions |-> admitted,
         evidence |-> UNION {a.evidence : a \in admitted},
         excluded |-> {<<a, Fate(a)>> : a \in {b \in graph.assertions \ admitted :
                          b.kind \in {"existence", "edge"} \/ b.of \in objects}},
         omitted |-> {<<a.text, a.of>> : a \in {b \in aliases \ admitted :
                          graph.schema = "v2" \/ ~\E c \in admitted :
                              c.kind = "alias" /\ c.of = b.of /\ c.text = b.text}}]

EdgesOf(scoped) == {a \in scoped.assertions : a.kind = "edge"}

(* objects_blocked_by_omitted_aliases: a phrase of the question is an      *)
(* alias the reader may not know.                                          *)
BlockedByOmitted(scoped, query) ==
    {pair[2] : pair \in {q \in scoped.omitted : q[1] # {} /\ q[1] \subseteq query}}

(* objects_blocked_by_ambiguous_aliases: it is an alias of two objects.    *)
BlockedByAmbiguous(scoped, query) ==
    LET aliases == {a \in scoped.assertions :
                        a.kind = "alias" /\ a.text # {} /\ a.text \subseteq query}
    IN  {a.of : a \in {x \in aliases : \E y \in aliases : x.text = y.text /\ x.of # y.of}}
=============================================================================
