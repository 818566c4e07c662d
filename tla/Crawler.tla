-------------------------------- MODULE Crawler --------------------------------
(***************************************************************************)
(* CrawlService.crawl: a breadth-first crawl of one website that fetches   *)
(* a batch of pages at a time.  What a URL answers is chosen when its      *)
(* result is handled: crawlOne reads nothing of the crawl.                 *)
(***************************************************************************)
EXTENDS Naturals, Sequences, FiniteSets, SequencesExt, Loops

CONSTANTS
    Urls,         \* normalized URLs
    Root,         \* rootUrl
    Nothing,      \* a fetch that gives no page
    Concurrency,  \* FETCH_CONCURRENCY
    MaxPages,     \* the limits of the website, capped by WEBSITE_CONFIGS
    MaxDepth,
    MaxLinks      \* bound: links of a page

VARIABLES
    allowed,   \* URLs that the hosts, robots.txt and their extension allow
    queue,     \* the items still to fetch
    seen,      \* every URL that was ever put on the queue
    batch,     \* the items fetched together whose results are not handled yet
    pages,     \* URLs of the pages extracted, after redirects
    answers,   \* history: the links each handled URL gave
    fetched    \* history: the items handed to crawlOne, in order

crawl == <<allowed, queue, seen, batch, pages, answers, fetched>>

\* A link to the root adds nothing: it is seen from the start.
Links == {l \in UNION {[1 .. n -> Urls \ {Root}] : n \in 0 .. MaxLinks} : IsInjective(l)}

\* What a URL answers: a failure, a skip, or a page that is too short to keep, whose
\* links still count; or a page, of its own URL or of the one it was redirected to.  A
\* redirect to a host that is not allowed is a skip.
Answers(url) ==
    IF url \notin allowed THEN {[page |-> Nothing, links |-> <<>>]}
    ELSE [page : {Nothing, url, Root}, links : {l \in Links : url \notin Range(l)}]

CrawlInit ==
    /\ allowed \in SUBSET Urls
    /\ queue = <<[url |-> Root, depth |-> 0]>>
    /\ seen = {Root}
    /\ batch = <<>>
    /\ pages = <<>>
    /\ answers = <<>>
    /\ fetched = <<>>

Splice(s, n) == SubSeq(s, 1, IF Len(s) < n THEN Len(s) ELSE n)
Rest(s, n) == SubSeq(s, n + 1, Len(s))

\* The loop takes the next items and awaits all of their fetches.
TakeBatch ==
    /\ batch = <<>>
    /\ queue # <<>> /\ Len(pages) < MaxPages
    /\ batch' = Splice(queue, Concurrency)
    /\ queue' = Rest(queue, Concurrency)
    /\ fetched' = fetched \o batch'
    /\ UNCHANGED <<allowed, seen, pages, answers>>

\* The links of a page, in its order, that are enqueued.
Fresh(links) == Filter(links, LAMBDA link : link \notin seen /\ link \in allowed)

EnqueuedTooShallow(item, answer) ==
    IF item.depth + 1 >= MaxDepth THEN <<>>
    ELSE LET fresh == Fresh(answer.links) IN
         [i \in DOMAIN fresh |-> [url |-> fresh[i], depth |-> item.depth + 1]]

Enqueued(item, answer) ==
    IF item.depth >= MaxDepth THEN <<>>
    ELSE LET fresh == Fresh(answer.links) IN
         [i \in DOMAIN fresh |-> [url |-> fresh[i], depth |-> item.depth + 1]]

\* Marks a page as seen when it is fetched, not when it is enqueued.
HandleSeenLate ==
    /\ batch # <<>>
    /\ LET item == Head(batch) IN \E answer \in Answers(item.url) :
       /\ queue' = queue \o Enqueued(item, answer)
       /\ seen' = seen \cup {item.url}
       /\ pages' = IF answer.page # Nothing THEN Append(pages, answer.page) ELSE pages
       /\ batch' = IF item.depth < MaxDepth /\ Len(pages') >= MaxPages THEN <<>> ELSE Tail(batch)
       /\ answers' = Append(answers, answer.links)
    /\ UNCHANGED <<allowed, fetched>>

\* One result: the page, then its links; the page limit drops the rest of the batch,
\* which the early continue of an item at the depth limit skips.
HandleResult ==
    /\ batch # <<>>
    /\ LET item == Head(batch) IN \E answer \in Answers(item.url) :
       /\ queue' = queue \o Enqueued(item, answer)
       /\ seen' = seen \cup {i.url : i \in Range(Enqueued(item, answer))}
       /\ pages' = IF answer.page # Nothing THEN Append(pages, answer.page) ELSE pages
       /\ batch' = IF item.depth < MaxDepth /\ Len(pages') >= MaxPages THEN <<>> ELSE Tail(batch)
       /\ answers' = Append(answers, answer.links)
    /\ UNCHANGED <<allowed, fetched>>

CrawlNext == TakeBatch \/ HandleResult

CrawlSpec == CrawlInit /\ [][CrawlNext]_crawl

-----------------------------------------------------------------------------

Over == batch = <<>> /\ (queue = <<>> \/ Len(pages) >= MaxPages)

\* The pages at most n links away, by the links of the pages that answered.
Linked(u) == UNION {Range(answers[i]) \cap allowed : i \in {j \in DOMAIN answers : fetched[j].url = u}}
Within[n \in Nat] == IF n = 0 THEN {Root}
                     ELSE Within[n - 1] \cup UNION {Linked(u) : u \in Within[n - 1]}

\* A crawl that the page limit did not stop fetched exactly the allowed pages within
\* MaxDepth links of the root, although a batch may discover a page twice.
CrawlIsComplete ==
    Over /\ Len(pages) < MaxPages
        => {fetched[i].url : i \in DOMAIN fetched} = Within[MaxDepth]

\* No URL is fetched twice, and each as early as its distance allows: the depth an
\* item carries is the length of the shortest way to it.  The page limit is passed by
\* the rest of one batch at most, which slice(0, maxPages) then drops.
EachPageOnceAtItsDistance ==
    /\ \A i, j \in DOMAIN fetched : fetched[i].url = fetched[j].url => i = j
    /\ \A i \in DOMAIN fetched : LET d == fetched[i].depth IN
          /\ d <= MaxDepth
          /\ fetched[i].url \in Within[d]
          /\ d > 0 => fetched[i].url \notin Within[d - 1]
    /\ Len(pages) < MaxPages + Concurrency
=============================================================================
