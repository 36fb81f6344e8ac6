--------------------------- MODULE MCRedditSource ---------------------------
(***************************************************************************)
(* SourceSettings, RedditCrawl and RedditSession on small instances: what  *)
(* a collection of one source needs.  The three share nothing: a behaviour *)
(* is one of any of them.                                                  *)
(*                                                                         *)
(* Of two browsers with the extension, b1 is logged in at Reddit at first  *)
(* and b2 is not.                                                          *)
(***************************************************************************)
EXTENDS SourceSettings, RedditCrawl, RedditSession, TLC

CONSTANTS p1, p2, p3, b1, b2, x1

\* Any input with text, and those with one other field.
MCInput ==
  {[NoInput EXCEPT !.type = t, !.subreddit = n, !.query = q] :
     t \in Type \cup {Absent, OtherType}, n \in Subreddit \cup {Absent, Blank},
     q \in Query \cup {Absent, Blank}}
  \cup {[NoInput EXCEPT !.state = x] : x \in {"on", "off"}}
  \cup {[NoInput EXCEPT !.limits = l :> n] :
          l \in Limit, n \in {0, 1, 12, 13, 50, 51, 100, 101, 2000, 2001}}
MCPage == {<<>>, <<p1>>, <<p2>>, <<p2, p2, p1>>, <<p3, p1, p2>>}
Symmetry == Permutations(Sync)

VARIABLE part  \* whose behaviour it is

MCInit ==
  /\ part \in {"settings", "crawl", "session"}
  /\ SettingsInit /\ CrawlInit /\ SessionInit
  /\ jar[b1].login = x1 /\ jar[b2].login = Anonymous
MCNext ==
  /\ \/ part = "settings" /\ SettingsNext /\ UNCHANGED <<crawlVars, sessionVars>>
     \/ part = "crawl" /\ CrawlNext /\ UNCHANGED <<settingsVars, sessionVars>>
     \/ part = "session" /\ SessionNext /\ UNCHANGED <<settingsVars, crawlVars>>
  /\ UNCHANGED part
MCSpec == MCInit /\ [][MCNext]_<<part, settingsVars, crawlVars, sessionVars>>
=============================================================================
