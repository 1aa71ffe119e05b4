-------------------------- MODULE ResearchPipeline --------------------------
(***************************************************************************)
(* One run of SingleResearchAgentPipeline in its live composition and the    *)
(* writing of its result: search, read, select documents that bear evidence, *)
(* build claims, verify and judge them, look twice for what is missing, and   *)
(* assemble a workspace.  Every stage is an action; the provider, the pages   *)
(* and the language models behind the components answer anything.             *)
(*                                                                         *)
(* A source id contains its query and its URL, so a candidate is the pair of  *)
(* both and a document a candidate with the outcome of its reading.  An       *)
(* evidence item is named by its document and its place in it, a claim by its *)
(* position.  Texts, scores other than the quality of a source, metrics and   *)
(* metadata are left out.                                                     *)
(***************************************************************************)
EXTENDS FiniteSets, SequencesExt, Loops

CONSTANTS Url,                   \* pages of the web
          SourceQuality,         \* overall_score of a page's document
          MaximumQualityGap,     \* maximum_quality_gap of the selector
          InitialQueries,        \* the planned queries in their order
          MaximumSources,        \* request.maximum_sources
          MaximumCandidates,     \* candidates one search returns at most
          MaximumProviderCalls,  \* of the search budget
          MaximumEvidence,       \* evidence items of one document
          IncrementalBuilder,    \* the claim builder has build_incremental
          ClaimBudget,           \* attempts of the claim builder's budget
          RelevanceBudget        \* attempts of the claim relevance budget

ASSUME PipelineAssumption ==
    /\ IncrementalBuilder \in BOOLEAN /\ IsFiniteSet(Url)
    /\ SourceQuality \in [Url -> Nat] /\ MaximumQualityGap \in Nat
    /\ InitialQueries # <<>> /\ InitialQueries \in Seq(STRING \ {"supplemental", "coverage"})
    /\ \A n \in {MaximumSources, MaximumCandidates, MaximumProviderCalls, MaximumEvidence,
                 ClaimBudget, RelevanceBudget} : n \in Nat \ {0}

VARIABLES phase,       \* the stage that runs next
          searchRound, \* "initial", "supplemental" or "coverage"
          pending,     \* queries of this round still to be searched
          usage,       \* provider calls, and whether credits or latency are used up
          found,       \* candidates of this round, once searched the ones to read
          queries,     \* query_set
          candidates,  \* candidate_set with the query_set it refers to
          documents,   \* read_document_set
          fresh,       \* documents read in the coverage round
          cache,       \* evidence_cache: number of items by document
          novel,       \* selection among the fresh documents
          answer,      \* the sets that make up the workspace and their judgments
          previous,    \* the answer before the coverage round replaced it
          built,       \* claims built last
          passed,      \* quality.passed
          files        \* what is in the execution directory

pipelineVars == <<phase, searchRound, pending, usage, found, queries, candidates, documents, fresh,
                  cache, novel, answer, previous, built, passed, files>>

searchVars == <<pending, usage, found, queries, candidates>>
answerVars == <<cache, novel, answer, previous, built>>

NoAnswer ==
    [documents |-> <<>>, evidence |-> <<>>, evaluated |-> <<>>,
     claimSet |-> [evidence |-> <<>>, claims |-> <<>>], verified |-> <<>>, relevant |-> <<>>,
     level |-> 0, judged |-> <<>>]

NoFiles ==
    [directory |-> FALSE, step |-> 0, temps |-> {}, installed |-> {}, left |-> <<>>, cleaning |-> FALSE]

PipelineInit ==
    /\ phase = "plan" /\ searchRound = "initial" /\ passed = FALSE
    /\ pending = <<>> /\ usage = [calls |-> 0, spent |-> FALSE] /\ found = {}
    /\ queries = {} /\ candidates = [queries |-> {}, items |-> {}]
    /\ documents = {} /\ fresh = {}
    /\ cache = <<>> /\ novel = NoAnswer /\ answer = NoAnswer /\ previous = NoAnswer /\ built = <<>>
    /\ files = NoFiles

(* ResearchSourceDocumentSet.successful_documents *)
Successful(ds) == {d \in ds : d.ok}

Urls(ds) == {d.url : d \in ds}

(***************************************************************************)
(* Searching and reading                                                    *)
(***************************************************************************)
PlanQueries ==
    /\ phase = "plan"
    /\ queries' = Range(InitialQueries)
    /\ pending' = InitialQueries
    /\ phase' = "search"
    /\ UNCHANGED <<searchRound, usage, found, candidates, documents, fresh, answerVars, passed, files>>

(* PipelineSourceSearchAdapter._can_start_provider_call *)
CanStartProviderCall == usage.calls < MaximumProviderCalls /\ ~usage.spent

(* TavilyResearchSourceSearchTool.search returns candidates with different    *)
(* URLs, none when the provider fails or its answer is not valid.             *)
SearchResults(query) == {{[query |-> query, url |-> u] : u \in urls} : urls \in SUBSET Url}

(* The ids of candidates contain the query, so ids seen before never recur,   *)
(* and the loop ends as soon as there are enough.                             *)
SearchQuery ==
    /\ phase = "search" /\ pending # <<>> /\ CanStartProviderCall
    /\ \E result \in SearchResults(Head(pending)), spent \in BOOLEAN :
        /\ found' = found \cup result
        /\ Cardinality(found') <= MaximumCandidates
        /\ pending' = IF Cardinality(found') = MaximumCandidates THEN <<>> ELSE Tail(pending)
        /\ usage' = [calls |-> usage.calls + 1, spent |-> spent]
    /\ UNCHANGED <<phase, searchRound, queries, candidates, documents, fresh, answerVars, passed, files>>

SearchBlocked ==
    /\ phase = "search" /\ pending # <<>> /\ ~CanStartProviderCall
    /\ pending' = <<>>
    /\ UNCHANGED <<phase, searchRound, usage, found, queries, candidates, documents, fresh,
                   answerVars, passed, files>>

Searched == phase = "search" /\ pending = <<>>

InitialSearchEnds ==
    /\ Searched /\ searchRound = "initial"
    /\ phase' = IF found = {} THEN "failed" ELSE "read"
    /\ candidates' = [queries |-> queries, items |-> found]
    /\ UNCHANGED <<searchRound, pending, usage, found, queries, documents, fresh, answerVars, passed, files>>

(* _novel_candidates *)
NovelCandidates(existing, supplemental) == {c \in supplemental : c.url \notin Urls(existing)}

(* _merge_query_sets, _merge_candidate_sets *)
MergeCandidateSets(initial, supplemental, querySet) ==
    [queries |-> querySet, items |-> initial.items \cup supplemental]

(* The supplemental and the coverage search keep the candidates whose URL is  *)
(* new.  Without one, the run goes on with what it has.                       *)
GapSearchEnds(round, otherwise) ==
    /\ Searched /\ searchRound = round
    /\ LET novelOnes == NovelCandidates(candidates.items, found)
       IN /\ found' = novelOnes
          /\ queries' = queries \cup {round}
          /\ candidates' = MergeCandidateSets(candidates, novelOnes, queries')
          /\ phase' = IF novelOnes = {} THEN otherwise ELSE "read"
    /\ UNCHANGED <<searchRound, pending, usage, documents, fresh, answerVars, passed, files>>

SupplementalSearchEnds == GapSearchEnds("supplemental", "build")
CoverageSearchEnds == GapSearchEnds("coverage", "assemble")

(* PipelineSourceReaderAdapter.read: every candidate becomes a document, read *)
(* or failed, in the order of the candidates whatever the concurrency.        *)
DocumentSets(cs) ==
    {{[query |-> c.query, url |-> c.url, ok |-> c \in readable] : c \in cs} : readable \in SUBSET cs}

(* _merge_document_sets *)
MergeDocumentSets(initial, supplemental) ==
    initial \cup {d \in supplemental : d.url \notin Urls(initial)}

(* What every reading leaves: no candidate of its round is still to be read.  *)
Read(round) ==
    /\ phase = "read" /\ searchRound = round
    /\ found' = {}
    /\ UNCHANGED <<searchRound, pending, usage, queries, candidates, answerVars, passed, files>>

ReadInitial ==
    \E ds \in DocumentSets(found) :
        /\ Read("initial")
        /\ documents' = ds /\ UNCHANGED fresh
        /\ phase' = IF Successful(ds) = {} THEN "failed" ELSE "select"

ReadSupplemental ==
    \E ds \in DocumentSets(found) :
        /\ Read("supplemental")
        /\ documents' = MergeDocumentSets(documents, ds) /\ UNCHANGED fresh
        /\ phase' = "select"

ReadCoverage ==
    \E ds \in DocumentSets(found) :
        /\ Read("coverage")
        /\ fresh' = ds /\ UNCHANGED documents
        /\ phase' = IF Successful(ds) = {} THEN "assemble" ELSE "select_novel"

(***************************************************************************)
(* Selecting documents that bear evidence                                   *)
(***************************************************************************)

(* QualityAwareDocumentSelector._eligible_documents: not too far below the    *)
(* best document that was read.                                               *)
Eligible(ds) ==
    {d \in Successful(ds) :
        \A e \in Successful(ds) : SourceQuality[d.url] + MaximumQualityGap >= SourceQuality[e.url]}

(* QualityAwareDocumentSelector.rank orders them by relevance and diversity,  *)
(* which any order may be.                                                    *)
Rankings(ds) == SetToSeqs(Eligible(ds))

\* Mutant: the evidence cache is not consulted.
ExtractionsUncached(ds) == [Eligible(ds) -> 0 .. MaximumEvidence]

(* What the extractor may return for each document.  One that was asked       *)
(* before is answered from the cache.                                         *)
Extractions(ds) ==
    {items \in [Eligible(ds) -> 0 .. MaximumEvidence] :
        \A d \in Eligible(ds) \cap DOMAIN cache : items[d] = cache[d]}

SelectionsAmong(ds) ==
    [documents : Seq(ds), evidence : Seq([document : ds, item : Nat]), attempted : SUBSET ds]

NothingSelected == [documents |-> <<>>, evidence |-> <<>>, attempted |-> {}]

EvidenceOf(d, count) == [i \in 1 .. count |-> [document |-> d, item |-> i]]

(* The loop of _select_documents_with_evidence over the ranked documents.     *)
SelectInOrder(ranking, items) ==
    LET visited(selection, d) ==
            IF Len(selection.documents) >= MaximumSources \/ d.url \in Urls(selection.attempted)
            THEN selection
            ELSE [documents |-> IF items[d] = 0 THEN selection.documents
                                ELSE Append(selection.documents, d),
                  evidence |-> selection.evidence \o EvidenceOf(d, items[d]),
                  attempted |-> selection.attempted \cup {d}]
        visit == [at \in (DOMAIN ranking) \X SelectionsAmong(Range(ranking)) |->
                     visited(at[2], ranking[at[1]])]
    IN Loop(NothingSelected, visit, Len(ranking))

Remember(items, attempted) ==
    [d \in DOMAIN cache \cup attempted |-> IF d \in DOMAIN cache THEN cache[d] ELSE items[d]]

(* Every selection from ds, with the evidence cache it leaves.                *)
Selections(ds) ==
    {LET selection == SelectInOrder(ranking, items)
     IN [documents |-> selection.documents, evidence |-> selection.evidence,
         cache |-> Remember(items, selection.attempted)] :
        ranking \in Rankings(ds), items \in Extractions(ds)}

WithSelection(a, selection) ==
    [a EXCEPT !.documents = selection.documents, !.evidence = selection.evidence,
              !.evaluated = selection.documents]

(* _should_run_supplemental_search *)
ShouldRunSupplementalSearch(selected) ==
    MaximumSources > 1 /\ Len(selected) < Min({2, MaximumSources})

SelectInitial ==
    /\ phase = "select" /\ searchRound = "initial"
    /\ \E selection \in Selections(documents) :
        /\ answer' = WithSelection(answer, selection)
        /\ cache' = selection.cache
        /\ IF ShouldRunSupplementalSearch(selection.documents)
           THEN phase' = "search" /\ searchRound' = "supplemental" /\ pending' = <<"supplemental">>
           ELSE phase' = "build" /\ UNCHANGED <<searchRound, pending>>
    /\ UNCHANGED <<usage, found, queries, candidates, documents, fresh, novel, previous, built,
                   passed, files>>

SelectSupplemental ==
    /\ phase = "select" /\ searchRound = "supplemental"
    /\ \E selection \in Selections(documents) :
        /\ answer' = WithSelection(answer, selection)
        /\ cache' = selection.cache
    /\ phase' = "build"
    /\ UNCHANGED <<searchRound, searchVars, documents, fresh, novel, previous, built, passed, files>>

(* The coverage round selects among the fresh documents alone, and then among *)
(* all.                                                                       *)
SelectNovel ==
    /\ phase = "select_novel"
    /\ \E selection \in Selections(fresh) :
        /\ novel' = WithSelection(NoAnswer, selection)
        /\ cache' = selection.cache
    /\ phase' = "select_merged"
    /\ UNCHANGED <<searchRound, searchVars, documents, fresh, answer, previous, built, passed, files>>

(* The evidence of a that b does not have.                                   *)
NewEvidence(a, b) == Kept(a.evidence, Range(a.evidence) \ Range(b.evidence))

(* The first novel document joins the answer, in place of the last one when   *)
(* there is no room.                                                          *)
Substitution ==
    LET adopted == Head(novel.documents)
        kept == IF Len(answer.documents) >= MaximumSources THEN Front(answer.documents)
                ELSE answer.documents
        retained == Append(kept, adopted)
        removed == Range(answer.documents) \ Range(kept)
    IN [answer EXCEPT
           !.documents = retained,
           !.evidence = Kept(@, {e \in Range(@) : e.document \notin removed})
                            \o Kept(novel.evidence, {e \in Range(novel.evidence) : e.document = adopted}),
           !.evaluated = Kept(@, Range(retained)) \o Kept(novel.evaluated, Range(retained))]

(* ResearchEvidenceSet.validate_evidence_set *)
ValidEvidenceSet(a) ==
    IsInjective(a.evidence) /\ \A e \in Range(a.evidence) : e.document \in Range(a.documents)

SelectMerged ==
    /\ phase = "select_merged"
    /\ \E selection \in Selections(MergeDocumentSets(documents, fresh)) :
        LET merged == WithSelection(answer, selection)
            candidate == IF NewEvidence(merged, answer) = <<>> /\ novel.documents # <<>>
                         THEN Substitution ELSE merged
        IN /\ cache' = selection.cache
           /\ IF NewEvidence(candidate, answer) = <<>>
              THEN phase' = "assemble" /\ UNCHANGED <<answer, previous, documents>>
              ELSE /\ previous' = answer
                   /\ answer' = candidate
                   /\ documents' = MergeDocumentSets(documents, fresh)
                   /\ phase' = IF ValidEvidenceSet(candidate) THEN "build" ELSE "invalid"
    /\ fresh' = {} /\ novel' = NoAnswer
    /\ UNCHANGED <<searchRound, searchVars, built, passed, files>>

(***************************************************************************)
(* Claims and their judgments                                               *)
(***************************************************************************)
Ids(claims) == [i \in DOMAIN claims |-> claims[i].id]

\* Mutant: the numbering does not continue after the existing claims.
BuiltClaimsFromOne(evidence, startPosition) ==
    {[i \in 1 .. n |-> [id |-> i, evidence |-> evidence[i]]] :
        n \in 1 .. Min({ClaimBudget, Len(evidence)})}

(* GenerativePipelineClaimBuilder._build: one claim per evidence item, in the *)
(* order of the documents and as far as the budget goes; when the batch call  *)
(* failed, tokens or time may end it earlier.                                 *)
BuiltClaims(evidence, startPosition) ==
    {[i \in 1 .. n |-> [id |-> startPosition + i - 1, evidence |-> evidence[i]]] :
        n \in 1 .. Min({ClaimBudget, Len(evidence)})}

(* ResearchClaimSet.validate_claim_set *)
ValidClaimSet(claimSet) ==
    /\ IsInjective(Ids(claimSet.claims))
    /\ \A i \in DOMAIN claimSet.claims : claimSet.claims[i].evidence \in Range(claimSet.evidence)

NoEvidenceFound ==
    /\ phase = "build" /\ answer.evidence = <<>>
    /\ phase' = "failed"
    /\ UNCHANGED <<searchRound, searchVars, documents, fresh, answerVars, passed, files>>

(* The claims of `a` followed by new ones.                                    *)
Extended(a, claims) ==
    [a EXCEPT !.claimSet = [evidence |-> a.evidence, claims |-> @.claims \o claims]]

Builds(base, evidence) ==
    /\ \E claims \in BuiltClaims(evidence, Len(base.claimSet.claims) + 1) :
        /\ built' = claims
        /\ answer' = Extended(base, claims)
    /\ phase' = IF ValidClaimSet(answer'.claimSet) THEN "verify" ELSE "invalid"
    /\ UNCHANGED <<searchRound, searchVars, documents, fresh, cache, novel, previous, passed, files>>

WithoutClaims(a) ==
    [a EXCEPT !.claimSet = NoAnswer.claimSet, !.verified = <<>>, !.relevant = <<>>]

(* use_incremental: all earlier evidence is still there.                      *)
Reusable == IncrementalBuilder /\ Range(previous.evidence) \subseteq Range(answer.evidence)

BuildFirst ==
    /\ phase = "build" /\ searchRound # "coverage" /\ answer.evidence # <<>>
    /\ Builds(answer, answer.evidence)

BuildIncremental ==
    /\ phase = "build" /\ searchRound = "coverage" /\ Reusable
    /\ Builds(answer, NewEvidence(answer, previous))

BuildAgain ==
    /\ phase = "build" /\ searchRound = "coverage" /\ ~Reusable
    /\ Builds(WithoutClaims(answer), answer.evidence)

(* ClaimRelevanceEvaluationService.evaluate judges the first claims, as many  *)
(* as its attempts allow; when the batch call failed, tokens or time may end  *)
(* it earlier.                                                                *)
RelevanceEvaluations(claims) ==
    {Ids(SubSeq(claims, 1, n)) : n \in 0 .. Min({RelevanceBudget, Len(claims)})}

(* SemanticCitationVerificationService.verify judges every new claim, in one  *)
(* batch or one by one; the relevance evaluation follows.                     *)
VerifyClaims ==
    /\ phase = "verify"
    /\ \E evaluations \in RelevanceEvaluations(built) :
        answer' = [answer EXCEPT !.verified = @ \o Ids(built),
                                 !.relevant = @ \o evaluations]
    /\ built' = <<>>
    /\ phase' = "cover"
    /\ UNCHANGED <<searchRound, searchVars, documents, fresh, cache, novel, previous, passed, files>>

(* AnswerCoverageEvaluationService.evaluate: insufficient, partial or full    *)
(* coverage of the question by these claims.                                  *)
Judged(a, level) == [a EXCEPT !.level = level, !.judged = Ids(a.claimSet.claims)]

(* The first judgment.  An answer that names missing aspects is followed by   *)
(* the search CoverageGapResearchQueryPlanner plans for them.                 *)
EvaluateCoverage ==
    /\ phase = "cover" /\ searchRound # "coverage"
    /\ \E level \in 0 .. 2, missing \in BOOLEAN :
        /\ answer' = Judged(answer, level)
        /\ IF level < 2 /\ missing
           THEN phase' = "search" /\ searchRound' = "coverage" /\ pending' = <<"coverage">>
           ELSE phase' = "assemble" /\ UNCHANGED <<searchRound, pending>>
    /\ UNCHANGED <<usage, found, queries, candidates, documents, fresh, cache, novel, previous, built,
                   passed, files>>

\* Mutant: a rejected round leaves its citation verifications behind.
CompareCoverageKeepsVerifications ==
    /\ phase = "cover" /\ searchRound = "coverage"
    /\ \E level \in 0 .. 2 :
        answer' = IF level > previous.level THEN Judged(answer, level)
                  ELSE [previous EXCEPT !.verified = answer.verified]
    /\ previous' = NoAnswer
    /\ phase' = "assemble"
    /\ UNCHANGED <<searchRound, searchVars, documents, fresh, cache, novel, built, passed, files>>

(* The judgment after the coverage round: the answer stays only if its level  *)
(* is higher, and otherwise the previous one is back.                         *)
CompareCoverage ==
    /\ phase = "cover" /\ searchRound = "coverage"
    /\ \E level \in 0 .. 2 :
        answer' = IF level > previous.level THEN Judged(answer, level) ELSE previous
    /\ previous' = NoAnswer
    /\ phase' = "assemble"
    /\ UNCHANGED <<searchRound, searchVars, documents, fresh, cache, novel, built, passed, files>>

(***************************************************************************)
(* The result                                                               *)
(***************************************************************************)

(* The sources the report of DeterministicResearchSynthesizer cites.          *)
CitedSources(a) == {c.evidence.document : c \in Range(a.claimSet.claims)}

(* ResearchWorkspace.validate_workspace *)
ValidWorkspace ==
    /\ candidates.queries = queries
    /\ \A c \in candidates.items : c.query \in queries
    /\ ValidEvidenceSet(answer)
    /\ answer.claimSet.evidence = answer.evidence
    /\ ValidClaimSet(answer.claimSet)
    /\ IsInjective(answer.evaluated) /\ Range(answer.evaluated) \subseteq Range(answer.documents)

(* ResearchResultGuardrail.validate *)
GuardrailAccepts ==
    /\ answer.claimSet.claims # <<>>
    /\ \A d \in CitedSources(answer) : [query |-> d.query, url |-> d.url] \in candidates.items

(* _apply_minimum_evidence_source_gate, the only error the evaluation of this *)
(* report can have: all its claims are in it and cited, and none is contested.*)
QualityPassed(a) == Cardinality(CitedSources(a)) >= Min({2, MaximumSources})

(* The workspace, the report and its quality; the runner's guardrail follows. *)
Assemble ==
    /\ phase = "assemble"
    /\ phase' = IF ValidWorkspace /\ GuardrailAccepts THEN "write" ELSE "invalid"
    /\ passed' = QualityPassed(answer)
    /\ found' = {} /\ documents' = {} /\ cache' = <<>>
    /\ UNCHANGED <<searchRound, pending, usage, queries, candidates, fresh, novel, answer, previous,
                   built, files>>

(* The local variables of run are gone.                                       *)
RunLeft ==
    /\ searchRound' = "initial" /\ pending' = <<>> /\ usage' = [calls |-> 0, spent |-> FALSE] /\ found' = {}
    /\ queries' = {} /\ candidates' = [queries |-> {}, items |-> {}]
    /\ documents' = {} /\ fresh' = {}
    /\ cache' = <<>> /\ novel' = NoAnswer /\ answer' = NoAnswer /\ previous' = NoAnswer /\ built' = <<>>

(* A component raises: the run ends without a result.                         *)
ComponentRaises ==
    /\ phase \in {"plan", "search", "read", "select", "select_novel", "select_merged", "build",
                  "verify", "cover"}
    /\ phase' = "failed"
    /\ RunLeft
    /\ UNCHANGED <<passed, files>>

(* ResearchResultWriter: two temporary files, renamed one after the other in  *)
(* a directory of their own.                                                  *)
Artifacts == <<"report.md", "result.json">>

writerUnchanged == UNCHANGED <<searchRound, searchVars, documents, fresh, answerVars, passed>>

(* The texts of both files are rendered before, and only they matter from     *)
(* here on.  A directory that cannot be made or protected may be left empty.  *)
MakeDirectory ==
    /\ phase = "write"
    /\ \/ phase' = "store" /\ files' = [files EXCEPT !.directory = TRUE]
       \/ /\ phase' = "failed"
          /\ \E left \in BOOLEAN : files' = [files EXCEPT !.directory = left]
    /\ RunLeft /\ UNCHANGED passed

PrepareTempFile ==
    /\ phase = "store" /\ files.step \in {0, 1}
    /\ files' = [files EXCEPT !.temps = @ \cup {Artifacts[files.step + 1]}, !.step = @ + 1]
    /\ UNCHANGED phase /\ writerUnchanged

\* Mutant: the result is installed before the report.
InstallResultFirst ==
    /\ phase = "store" /\ files.step \in {2, 3}
    /\ LET target == Artifacts[4 - files.step]
       IN files' = [files EXCEPT !.temps = @ \ {target}, !.installed = @ \cup {target}, !.step = @ + 1]
    /\ UNCHANGED phase /\ writerUnchanged

InstallArtifact ==
    /\ phase = "store" /\ files.step \in {2, 3}
    /\ LET target == Artifacts[files.step - 1]
       IN files' = [files EXCEPT !.temps = @ \ {target}, !.installed = @ \cup {target}, !.step = @ + 1]
    /\ UNCHANGED phase /\ writerUnchanged

SyncDirectory ==
    /\ phase = "store" /\ files.step = 4
    /\ phase' = "done"
    /\ UNCHANGED files /\ writerUnchanged

(* An OSError at any of these calls.  The paths to unlink are the temporary   *)
(* files and then what was installed, in the order they were made.            *)
WriteFails ==
    /\ phase = "store"
    /\ phase' = "cleanup"
    /\ files' = [files EXCEPT
                   !.cleaning = TRUE,
                   !.left = Kept(Artifacts, files.installed)]
    /\ writerUnchanged

(* _cleanup_failed_write: errors of unlink and rmdir are ignored.             *)
UnlinkTemps ==
    /\ phase = "cleanup" /\ files.temps # {}
    /\ \E kept \in SUBSET files.temps : files' = [files EXCEPT !.temps = kept]
    /\ phase' = "unlink" /\ writerUnchanged

UnlinkInstalled ==
    /\ phase \in {"cleanup", "unlink"} /\ files.left # <<>> /\ (phase = "cleanup" => files.temps = {})
    /\ \E removed \in SUBSET {Head(files.left)} :
        files' = [files EXCEPT !.installed = @ \ removed, !.left = Tail(@)]
    /\ phase' = "unlink" /\ writerUnchanged

RemoveDirectory ==
    /\ phase \in {"cleanup", "unlink"} /\ files.left = <<>> /\ (phase = "cleanup" => files.temps = {})
    /\ \E kept \in BOOLEAN :
        files' = [files EXCEPT !.directory = kept \/ files.temps \cup files.installed # {}]
    /\ phase' = "failed" /\ writerUnchanged

(* The process ends while it writes.                                          *)
ProcessStops ==
    /\ phase \in {"store", "cleanup", "unlink"}
    /\ phase' = "stopped"
    /\ UNCHANGED files /\ writerUnchanged

PipelineNext ==
    \/ PlanQueries \/ SearchQuery \/ SearchBlocked
    \/ InitialSearchEnds \/ SupplementalSearchEnds \/ CoverageSearchEnds
    \/ ReadInitial \/ ReadSupplemental \/ ReadCoverage
    \/ SelectInitial \/ SelectSupplemental \/ SelectNovel \/ SelectMerged
    \/ NoEvidenceFound \/ BuildFirst \/ BuildIncremental \/ BuildAgain
    \/ VerifyClaims \/ EvaluateCoverage \/ CompareCoverage
    \/ Assemble \/ ComponentRaises
    \/ MakeDirectory \/ PrepareTempFile \/ InstallArtifact \/ SyncDirectory
    \/ WriteFails \/ UnlinkTemps \/ UnlinkInstalled \/ RemoveDirectory \/ ProcessStops

PipelineSpec == PipelineInit /\ [][PipelineNext]_pipelineVars

(***************************************************************************)
(* Properties                                                               *)
(***************************************************************************)

(* Whatever the rounds found, substituted, extended or took back, the sets    *)
(* fit together: no validator of the evidence set, the claim set or the       *)
(* workspace and no check of the guardrail ever rejects what run assembled.   *)
AssembledSetsFit == phase # "invalid"

(* The answer that run returns is the answer of one round.  Every claim of it *)
(* was verified, no judgment is about a claim that is not in it, its coverage *)
(* level was judged on exactly these claims, its documents are within the     *)
(* request's maximum, different pages and all evaluated; and it passes only   *)
(* if its claims, not only its documents, cite enough sources.                *)
AnswerOfOneRound ==
    phase = "write" =>
        /\ answer.verified = Ids(answer.claimSet.claims)
        /\ Range(answer.relevant) \subseteq Range(answer.verified)
        /\ answer.judged = Ids(answer.claimSet.claims)
        /\ Len(answer.documents) <= MaximumSources
        /\ Cardinality(Urls(Range(answer.documents))) = Len(answer.documents)
        /\ Range(answer.evaluated) = Range(answer.documents)
        /\ {e.document : e \in Range(answer.evidence)} = Range(answer.documents)
        /\ passed => Cardinality(Urls(CitedSources(answer))) >= Min({2, MaximumSources})

(* What the supplemental search can cost.  The second selection ranks and     *)
(* tries all documents anew, and does lose documents of the first.  Each one  *)
(* it loses is accounted for: it is no longer eligible because the search     *)
(* brought better ones, the selection is full, or another eligible document   *)
(* of the same page was found, which may be tried in its place.  None is lost *)
(* because it was extracted, ranked or dropped differently the second time    *)
(* (_select_documents_with_evidence, the evidence cache of run).              *)
SupplementKeepsSources ==
    [][phase = "select" /\ searchRound = "supplemental" /\ phase' = "build" =>
          \A d \in Range(answer.documents) :
              \/ d \in Range(answer'.documents)
              \/ d \notin Eligible(documents)
              \/ Len(answer'.documents) >= MaximumSources
              \/ \E e \in Eligible(documents) : e # d /\ e.url = d.url]_pipelineVars

(* A result.json has its report.md beside it at every moment, also when the   *)
(* process stops or a call fails, until a cleanup takes both away.            *)
ResultNeverAlone ==
    "result.json" \in files.installed /\ "report.md" \notin files.installed => files.cleaning
=============================================================================
