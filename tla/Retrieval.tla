------------------------------- MODULE Retrieval -------------------------------
(***************************************************************************)
(* RetrievalService.retrieve for one question, while the worker trains and *)
(* the dashboard detaches and removes the sources it reads from.           *)
(***************************************************************************)
EXTENDS Integers, Sequences, FiniteSets, SequencesExt, FiniteSetsExt, Loops

CONSTANTS
    Sources,      \* knowledge sources of the agent
    Places,       \* a page of a website or document, or a chunk index of a snippet
    Texts,        \* the words a chunk may hold: sets of words
    Relevances,   \* scores, as percentages
    CandidateK,   \* RETRIEVAL_CANDIDATE_K
    TopK,         \* RETRIEVAL_TOP_K
    Lambda,       \* MMR_LAMBDA, as a percentage
    MaxChunks     \* bound: chunks of a source

VARIABLES
    attached,  \* the agent's READY sources
    rows,      \* the Chunk rows of each source, by index: the page each is from
    asked,     \* how far retrieve() has come
    ids,       \* knowledgeSourceIds, as read at the start
    hits,      \* what the vector search returned, by increasing distance
    answer     \* the chunks returned

retrieval == <<attached, rows, asked, ids, hits, answer>>

RetrievalInit ==
    /\ attached \in SUBSET Sources
    /\ rows \in [Sources -> UNION {[1 .. n -> Places] : n \in 0 .. MaxChunks}]
    /\ asked = "attachments"
    /\ ids = {}
    /\ hits = <<>>
    /\ answer = <<>>

\* A source is detached, or removed with its rows; one that is trained again has no
\* rows for a while.
Detach(s) ==
    /\ s \in attached
    /\ attached' = attached \ {s}
    /\ UNCHANGED <<rows, asked, ids, hits, answer>>

ClearChunks(s) ==
    /\ rows[s] # <<>>
    /\ rows' = [rows EXCEPT ![s] = <<>>]
    /\ UNCHANGED <<attached, asked, ids, hits, answer>>

\* No ready source is a 400.
ReadAttachments ==
    /\ asked = "attachments"
    /\ ids' = attached
    /\ asked' = IF attached = {} THEN "refused" ELSE "embed"
    /\ UNCHANGED <<attached, rows, hits, answer>>

EmbedQuestion ==
    /\ asked = "embed"
    /\ asked' \in {"search", "failed"}
    /\ UNCHANGED <<attached, rows, ids, hits, answer>>

\* search(): the rows of the sources read at the start, nearest first, up to the limit.
\* What a row says and how near it is to the question is chosen here.
Rows == UNION {{s} \X DOMAIN rows[s] : s \in ids}
Search ==
    /\ asked = "search"
    /\ \E score \in [Rows -> Relevances], text \in [Rows -> Texts], order \in SetToSeqs(Rows) :
          /\ \A i \in 1 .. Len(order) - 1 : score[order[i]] >= score[order[i + 1]]
          /\ hits' = [i \in 1 .. Min({Len(order), CandidateK}) |->
                        LET row == order[i] IN
                        [source |-> row[1], index |-> row[2], place |-> rows[row[1]][row[2]],
                         text |-> text[row], score |-> score[row]]]
    /\ asked' = "rerank"
    /\ UNCHANGED <<attached, rows, ids, answer>>

-----------------------------------------------------------------------------
(* dedupeChunks and applyMmr.                                                *)

\* Every chunk under a key of its own, as those of a snippet are.
KeyOfChunk(hit) == <<hit.source, hit.index>>
\* A website or document has one key for each page.
Key(hit) == <<hit.source, hit.place>>

\* The best hit of each key: the first one, of those with the same score.
IsBest(i) ==
    \A j \in DOMAIN hits \ {i} : Key(hits[j]) = Key(hits[i]) =>
        hits[j].score < hits[i].score \/ (hits[j].score = hits[i].score /\ i < j)
Deduped == LET best == Filter([i \in DOMAIN hits |-> i], IsBest) IN [n \in DOMAIN best |-> hits[best[n]]]

\* Jaccard similarity of the words, as a percentage.
Similarity(a, b) ==
    IF a = {} \/ b = {} THEN 0 ELSE (100 * Cardinality(a \cap b)) \div Cardinality(a \cup b)
Penalty(hit, selected) ==
    IF selected = <<>> THEN 0 ELSE Max({Similarity(hit.text, selected[i].text) : i \in DOMAIN selected})
Mmr(hit, selected) == Lambda * hit.score - (100 - Lambda) * Penalty(hit, selected)

\* The first of the candidates left whose score is the highest.
MostMarginal(left, selected) ==
    CHOOSE i \in DOMAIN left : \A j \in DOMAIN left \ {i} :
        \/ Mmr(left[j], selected) < Mmr(left[i], selected)
        \/ Mmr(left[j], selected) = Mmr(left[i], selected) /\ i < j

\* <<selected, left>> after a round, and what the rounds select.
Round(state) ==
    LET i == MostMarginal(state[2], state[1]) IN
    <<Append(state[1], state[2][i]), RemoveAt(state[2], i)>>
ApplyMmr(candidates) ==
    IF Len(candidates) <= TopK THEN candidates
    ELSE LET rounds[n \in 0 .. TopK] ==
                 IF n = 0 THEN <<<<>>, candidates>> ELSE Round(rounds[n - 1])
         IN  rounds[TopK][1]

Rerank ==
    /\ asked = "rerank"
    /\ answer' = ApplyMmr(Deduped)
    /\ asked' = "answered"
    /\ UNCHANGED <<attached, rows, ids, hits>>

RetrievalNext ==
    \/ \E s \in Sources : Detach(s) \/ ClearChunks(s)
    \/ ReadAttachments \/ EmbedQuestion \/ Search \/ Rerank

RetrievalSpec == RetrievalInit /\ [][RetrievalNext]_retrieval

-----------------------------------------------------------------------------

\* The context of a reply has each page once, even when the crawler stored it once for
\* each URL that redirects to it: by its nearest chunk, the nearest page first whatever
\* diversity asks for, and as many pages as were found and as fit.
PagesOnceByTheirBest ==
    asked = "answered" =>
        /\ \A i, j \in DOMAIN answer :
              answer[i].source = answer[j].source /\ answer[i].place = answer[j].place => i = j
        /\ Len(answer) = Min({TopK, Cardinality({<<hits[i].source, hits[i].place>> : i \in DOMAIN hits})})
        /\ \A i \in DOMAIN answer, j \in DOMAIN hits :
              answer[i].source = hits[j].source /\ answer[i].place = hits[j].place
                  => hits[j].score <= answer[i].score
        /\ hits # <<>> => answer[1].score = hits[1].score
=============================================================================
