------------------------------ MODULE MCServices ------------------------------
(* Three services that share no state, checked one beside the other: a          *)
(* behaviour is of one part, and the variables of the others are fixed.  The    *)
(* part is chosen in MCDashboard, which has seven more.                         *)
EXTENDS Integers, FiniteSets

CONSTANTS
    Urls, Root, Nothing, Concurrency, MaxPages, MaxDepth, MaxLinks,
    Sources, Places, w1, w2, Relevances, CandidateK, TopK, Lambda, MaxChunks,
    Words, MaxWords

\* A crawl fetches something at a time.
ASSUME CrawlAssumption ==
    Concurrency \in Nat \ {0} /\ MaxPages \in Nat /\ MaxDepth \in Nat /\ MaxLinks \in Nat
\* Scores are not negative, and a question is answered from something.
ASSUME RetrievalAssumption ==
    /\ Relevances \in SUBSET Nat /\ CandidateK \in Nat /\ TopK \in Nat \ {0} /\ Lambda \in 0 .. 100
    /\ MaxChunks \in Nat /\ IsFiniteSet(Sources)
\* A token is never taken for an event.
ASSUME WordsAssumption == Words \cap {"[DONE]", "done", "error"} = {}

VARIABLES
    part,
    allowed, queue, seen, batch, pages, answers, fetched,
    attached, rows, asked, ids, hits, answer,
    made, model, up, upRest, reply, api, response, down, downRest, shown, client

\* The words of a chunk: one, that word and another, or none.
ChunkTexts == {{w1}, {w1, w2}, {}}

Crawl == INSTANCE Crawler
Retrieve == INSTANCE Retrieval WITH Texts <- ChunkTexts
Stream == INSTANCE TokenStream

NoCrawl ==
    /\ allowed = 0 /\ queue = 0 /\ seen = 0 /\ batch = 0 /\ pages = 0 /\ answers = 0 /\ fetched = 0
NoRetrieve ==
    /\ attached = 0 /\ rows = 0 /\ asked = 0 /\ ids = 0 /\ hits = 0 /\ answer = 0
NoStream ==
    /\ made = 0 /\ model = 0 /\ up = 0 /\ upRest = 0 /\ reply = 0 /\ api = 0
    /\ response = 0 /\ down = 0 /\ downRest = 0 /\ shown = 0 /\ client = 0

ServicesInit ==
    /\ IF part = "crawl" THEN Crawl!CrawlInit ELSE NoCrawl
    /\ IF part = "retrieve" THEN Retrieve!RetrievalInit ELSE NoRetrieve
    /\ IF part = "stream" THEN Stream!StreamInit ELSE NoStream

crawl == <<allowed, queue, seen, batch, pages, answers, fetched>>
retrieval == <<attached, rows, asked, ids, hits, answer>>
tokenStream == <<made, model, up, upRest, reply, api, response, down, downRest, shown, client>>
services == <<part, crawl, retrieval, tokenStream>>

ServicesNext ==
    /\ UNCHANGED part
    /\ \/ /\ part = "crawl" /\ Crawl!CrawlNext
          /\ UNCHANGED <<retrieval, tokenStream>>
       \/ /\ part = "retrieve" /\ Retrieve!RetrievalNext
          /\ UNCHANGED <<crawl, tokenStream>>
       \/ /\ part = "stream" /\ Stream!StreamNext
          /\ UNCHANGED <<crawl, retrieval>>

ServicesSpec == ServicesInit /\ [][ServicesNext]_services

\* A crawl that the page limit did not stop has fetched every allowed page near enough.
CrawlIsComplete == part = "crawl" => Crawl!CrawlIsComplete
\* No page is fetched twice, and each by its shortest way.
EachPageOnceAtItsDistance == part = "crawl" => Crawl!EachPageOnceAtItsDistance
\* No page is cited twice, and diversity never costs the best chunk.
PagesOnceByTheirBest == part = "retrieve" => Retrieve!PagesOnceByTheirBest
\* A reply arrives in order and whole, however its bytes are cut.
ReplyIsWhole == part = "stream" => Stream!ReplyIsWhole
=============================================================================
