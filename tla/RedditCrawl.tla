----------------------------- MODULE RedditCrawl -----------------------------
(***************************************************************************)
(* What the backend collector takes from Reddit for one source: it scrolls *)
(* the page, keeps the cards the source wants until it has enough, stops   *)
(* after a run of rounds that brought nothing, and turns to the pages of   *)
(* old Reddit when a subreddit shows nothing at all.  One round of the     *)
(* loop is one action; Reddit shows any page in it.  Then the pages of the *)
(* posts themselves are read, a few at a time.                             *)
(*                                                                         *)
(* A card is its post id; a source is its limits, whether it names a       *)
(* subreddit and the posts it wants: those with an id and not promoted,    *)
(* pinned or NSFW unless it includes such posts.                           *)
(***************************************************************************)
EXTENDS Naturals, Sequences, SequencesExt, FiniteSetsExt

CONSTANTS
  Post,
  Page,       \* what a page may show: sequences of posts
  Workers,    \* pages of posts that are open at once
  MaxScrolls, MaxTarget, MaxStallRounds  \* the largest limits of a source

ASSUME CrawlAssumption ==
  /\ Page \subseteq Seq(Post)
  /\ MaxScrolls \in Nat \ {0} /\ MaxTarget \in Nat \ {0} /\ MaxStallRounds \in Nat \ {0}
  /\ Workers \in 1..4

VARIABLES
  crawl,     \* local state of collectSource, then of enrichRedditPostDetails
  pages,     \* history: the pages read on the site it is on
  scrolled   \* history: those read before it turned to old Reddit

crawlVars == <<crawl, pages, scrolled>>

\* The limits of a source after the code has clamped them, to 1..2000 posts,
\* 1..100 scrolls and 1..12 stalled rounds.
CrawlSource == [target : 1..MaxTarget, scrolls : 1..MaxScrolls, stalls : 1..MaxStallRounds,
                subreddit : BOOLEAN, wanted : (SUBSET Post) \ {{}}]
NoCrawl == [pc |-> "none"]

CrawlInit == crawl = NoCrawl /\ pages = <<>> /\ scrolled = <<>>

OpenPage(source) ==
  /\ crawl = NoCrawl
  /\ crawl' = [pc |-> "round", source |-> source, posts |-> {},
               round |-> 0, stalls |-> 0, old |-> FALSE]
  /\ UNCHANGED <<pages, scrolled>>

\* The cards of a page that are wanted join the posts in order, until there are
\* as many as the source asks for; a post that is there stays once.
After(n, page) ==
  crawl.posts \cup ({page[i] : i \in 1..n} \cap crawl.source.wanted)
Reached(posts) == Cardinality(posts) >= crawl.source.target
Kept(page) ==
  LET ends == {n \in 0..Len(page) : n = Len(page) \/ Reached(After(n, page))}
  IN After(Min(ends), page)
Enough(page) == Reached(Kept(page))
Shows(page) == crawl.pc = "round" /\ pages' = Append(pages, page)

\* The loop goes on while rounds are left.
GoOn(posts, stalls, old) ==
  crawl' = [crawl EXCEPT !.pc = IF @ = "round" /\ crawl.round < crawl.source.scrolls
                                  THEN "round" ELSE "over",
                         !.round = @ + 1, !.posts = posts, !.stalls = stalls, !.old = old]
Stop(posts) == crawl' = [crawl EXCEPT !.pc = "over", !.posts = posts]

ReadEnough(page) ==
  /\ Shows(page) /\ Enough(page)
  /\ Stop(Kept(page)) /\ UNCHANGED scrolled

\* Nothing in two rounds of a subreddit.
Empty(page) ==
  /\ Kept(page) = {} /\ crawl.round >= 1
  /\ crawl.source.subreddit /\ ~crawl.old
\* Variant with a fault: the rounds that brought nothing still count.
FallBackStalled(page) ==
  /\ crawl.pc = "round" /\ Empty(page)
  /\ GoOn({}, crawl.stalls, TRUE)
  /\ pages' = <<>> /\ scrolled' = Append(pages, page)
FallBack(page) ==
  /\ crawl.pc = "round" /\ Empty(page)
  /\ GoOn({}, 0, TRUE)
  /\ pages' = <<>> /\ scrolled' = Append(pages, page)

\* Any other round: it may be one too many without a new post, or the last
\* page of old Reddit; else the page is scrolled, or the next one opened.
ReadMore(page) ==
  LET stalls == IF Kept(page) = crawl.posts THEN crawl.stalls + 1 ELSE 0 IN
  /\ Shows(page) /\ ~Enough(page) /\ ~Empty(page)
  /\ \/ /\ stalls >= crawl.source.stalls
        /\ Stop(Kept(page))
     \/ /\ stalls < crawl.source.stalls
        /\ GoOn(Kept(page), stalls, crawl.old)
     \/ /\ stalls < crawl.source.stalls /\ crawl.old
        /\ crawl' = [crawl EXCEPT !.pc = "last", !.posts = Kept(page)]
  /\ UNCHANGED scrolled

\* Of a source with details, when there are posts, the first posts are opened;
\* what is behind is forgotten.
EnrichDetails ==
  /\ crawl.pc \in {"over", "last"} /\ crawl.posts # {}
  /\ LET n == Cardinality(crawl.posts)  first == Min({Workers, n}) IN
     crawl' = [pc |-> "details", got |-> [i \in 1..n |-> "nothing"],
               open |-> 1..first, cursor |-> first]
  /\ pages' = <<>> /\ scrolled' = <<>>

\* A post's page is read or fails, and its worker opens that of the next post.
FetchDetail(i) ==
  /\ crawl.pc = "details" /\ i \in crawl.open
  /\ \E g \in {"details", "plain"} :
       LET next == {crawl.cursor + 1} \cap DOMAIN crawl.got IN
       crawl' = [crawl EXCEPT !.got[i] = g, !.cursor = @ + Cardinality(next),
                              !.open = (@ \ {i}) \cup next]
  /\ UNCHANGED <<pages, scrolled>>

CrawlNext ==
  \/ \E source \in CrawlSource : OpenPage(source)
  \/ \E page \in Page : ReadEnough(page) \/ FallBack(page) \/ ReadMore(page)
  \/ EnrichDetails \/ \E i \in 1..MaxTarget : FetchDetail(i)

CrawlSpec == CrawlInit /\ [][CrawlNext]_crawlVars

-----------------------------------------------------------------------------
(* Properties *)

Shown(ps, wanted, n) == UNION {ToSet(ps[i]) \cap wanted : i \in 1..n}
SeenIn(n) == Shown(pages, crawl.source.wanted, n)
\* Its last pages brought nothing.
DriedUp ==
  LET n == Len(pages) IN
  n >= crawl.source.stalls /\ SeenIn(n) = SeenIn(n - crawl.source.stalls)
UsedUp == Len(scrolled) + Len(pages) > crawl.source.scrolls

\* The posts are ones the source wants, as many as it asks for or all that the
\* pages of the site had.
PostsAreTaken ==
  crawl.pc \notin {"none", "details"} =>
    LET seen == SeenIn(Len(pages)) IN
    /\ crawl.posts \subseteq seen
    /\ Cardinality(crawl.posts) = Min({crawl.source.target, Cardinality(seen)})

\* Reading goes on until there are as many as asked for, the last "stalls" pages
\* of the site brought nothing, or the rounds are used up, and no longer ("last":
\* it ends at the last page of old Reddit).
HasReason == Cardinality(SeenIn(Len(pages))) >= crawl.source.target \/ DriedUp \/ UsedUp
EndsForAReason == crawl.pc \in {"round", "over"} => (crawl.pc = "over" <=> HasReason)

\* Old Reddit is read only after two pages of a subreddit without anything wanted.
OldAfterNothing ==
  crawl.pc \notin {"none", "details"} =>
    /\ crawl.old <=> Len(scrolled) = 2
    /\ crawl.old => /\ crawl.source.subreddit
                    /\ \A p \in ToSet(scrolled) : ToSet(p) \cap crawl.source.wanted = {}

\* Whatever pages of posts fail and in whatever order they end, every post's is
\* open, over or still to come, never more than Workers are open, and all are
\* over when none is open: a failure costs only its own post the details.
DetailsAreComplete ==
  crawl.pc = "details" =>
    /\ Cardinality(crawl.open) <= Workers
    /\ crawl.open = {} => \A i \in DOMAIN crawl.got : crawl.got[i] # "nothing"
    /\ \A i \in DOMAIN crawl.got : crawl.got[i] = "nothing" <=>
                                    i \in crawl.open \/ i > crawl.cursor

\* What a collection takes is what Reddit shows of what the source asks for.
CrawlIsFaithful == PostsAreTaken /\ EndsForAReason /\ OldAfterNothing /\ DetailsAreComplete

-----------------------------------------------------------------------------
(* The inductive invariant *)

\* A crawl is none, the reading of a site, or the reading of the posts' pages.
CrawlTypeOK ==
  /\ \/ crawl = NoCrawl /\ pages = <<>> /\ scrolled = <<>>
     \/ crawl \in [pc : {"round", "over", "last"}, source : CrawlSource,
                   posts : SUBSET Post, round : Nat, stalls : Nat, old : BOOLEAN]
     \/ \E n \in Nat :
          crawl \in [pc : {"details"}, got : [1..n -> {"nothing", "details", "plain"}],
                     open : SUBSET (1..n), cursor : 0..n]
  /\ pages \in Seq(Page) /\ scrolled \in Seq(Page)

\* The posts are all that the pages had, until there are as many as asked for.
PostsAreSeen ==
  crawl.pc \notin {"none", "details"} =>
    LET seen == SeenIn(Len(pages)) IN
    /\ IsFiniteSet(seen) /\ crawl.posts \subseteq seen
    /\ Cardinality(crawl.posts) <= crawl.source.target
    /\ Cardinality(crawl.posts) < crawl.source.target => crawl.posts = seen

\* While reading goes on, the stalls are the last pages that brought nothing and
\* the rounds are the pages read; two pages of a subreddit had something wanted.
RoundsAreCounted ==
  crawl.pc = "round" =>
    LET n == Len(pages) IN
    /\ ~Reached(crawl.posts)
    /\ crawl.stalls \in 0..n /\ crawl.stalls < crawl.source.stalls
    /\ SeenIn(n - crawl.stalls) = SeenIn(n)
    /\ crawl.stalls < n => SeenIn(n - crawl.stalls - 1) # SeenIn(n)
    /\ crawl.round = Len(scrolled) + n /\ crawl.round <= crawl.source.scrolls
    /\ ~crawl.old => scrolled = <<>>
    /\ ~crawl.old /\ crawl.source.subreddit /\ crawl.round >= 2 => crawl.posts # {}

\* As many posts' pages are open as may be, until the last one is.
WorkersAreBusy ==
  crawl.pc = "details" =>
    /\ crawl.open \subseteq 1..crawl.cursor
    /\ crawl.cursor + 1 \in DOMAIN crawl.got => Cardinality(crawl.open) = Workers

OverForAReason == crawl.pc = "over" => HasReason

CrawlIInv == /\ CrawlTypeOK /\ PostsAreSeen /\ RoundsAreCounted /\ OverForAReason
             /\ OldAfterNothing /\ WorkersAreBusy /\ DetailsAreComplete
=============================================================================
