--------------------------- MODULE SourceSettings ---------------------------
(***************************************************************************)
(* What a Reddit source says, who may write it and what the collector      *)
(* makes of it.  The form creates and edits sources, the settings of the   *)
(* extension and its batches create one for the page they show; the        *)
(* settings then look for it again; the collector turns it into an address.*)
(*                                                                         *)
(* Texts are classes: a subreddit is a spelling of one name; a query is    *)
(* words or a URL, of reddit.com, www or old ("url"; "looseUrl" when it is *)
(* not in its canonical form), of another host of reddit.com or of a       *)
(* foreign one.  A limit is one of the numbers around its bounds.          *)
(***************************************************************************)
EXTENDS Integers, FiniteSets

CONSTANTS
  Input,      \* what the form sends
  MaxUnusual  \* bound: limits of a source that are not the usual ones

Type == {"HOME", "POPULAR", "NEWS", "BEST", "FOLLOWING", "LATEST",
         "SUBREDDIT", "SEARCH", "CUSTOM_URL"}
OtherType == "OTHER"  \* any text that is no type

Absent == "absent"    \* the field is not given
Blank  == "blank"     \* white space
Null   == "null"      \* NULL in the row

Subreddit == {"r/Name", "Name", "name"}
WithoutPrefix(s) == IF s = "r/Name" THEN "Name" ELSE s
Folded(s) == IF s \in Subreddit THEN "name" ELSE s

Url == {"url", "looseUrl", "otherHostUrl", "foreignUrl"}
Query == Url \cup {"words"}
\* validateRedditUrl: https and no fragment; not a Reddit URL: none.
Canonical(q) == CASE q \in {"url", "looseUrl"} -> "url"
                  [] q = "otherHostUrl" -> q
                  [] OTHER -> Null

Given(x, kept) == IF x = Absent THEN kept ELSE x
Clean(x) == IF x \in {Absent, Blank} THEN Null ELSE x

Limit == {"targetPostCount", "maxScrolls", "maxStallRounds", "commentsTopN"}
Least == [l \in Limit |-> IF l = "commentsTopN" THEN 0 ELSE 1]
Most == [targetPostCount |-> 2000, maxScrolls |-> 100, maxStallRounds |-> 12,
         commentsTopN |-> 50]
Usual == [targetPostCount |-> 50, maxScrolls |-> 20, maxStallRounds |-> 4, commentsTopN |-> 0]
InRange(limits) == \A l \in Limit : limits[l] \in Least[l]..Most[l]

\* What the fields of an input, or of a source, are when nothing is known.
Default == [type |-> "SUBREDDIT", subreddit |-> Absent, query |-> Absent,
            state |-> "on", limits |-> Usual]
NoInput == [type |-> Absent, subreddit |-> Absent, query |-> Absent, state |-> Absent,
            limits |-> [l \in {} |-> 0]]

\* Any of the fields, and any number for any of the limits.
ASSUME SettingsAssumption ==
  /\ \A i \in Input : \E given \in SUBSET Limit :
       i \in [type : Type \cup {Absent, OtherType}, subreddit : Subreddit \cup {Absent, Blank},
              query : Query \cup {Absent, Blank}, state : {"on", "off", Absent},
              limits : [given -> Int]]
  /\ MaxUnusual \in Nat

-----------------------------------------------------------------------------
(* What is written: the set of the source, empty when the input is refused *)

\* Variant with a fault: the subreddit of the former type stays.
SourceOfAnyType(type, subreddit, query, state, limits) ==
  [type |-> type, subreddit |-> subreddit,
   query |-> IF type \in {"SEARCH", "CUSTOM_URL"} THEN query ELSE Null,
   state |-> state, limits |-> limits]

\* Text that the type has no use for is dropped.
SourceOf(type, subreddit, query, state, limits) ==
  [type |-> type,
   subreddit |-> IF type = "SUBREDDIT" THEN subreddit ELSE Null,
   query |-> IF type \in {"SEARCH", "CUSTOM_URL"} THEN query ELSE Null,
   state |-> state, limits |-> limits]

\* Variant with a fault: a limit that is not given is the usual one.
LimitsOrUsual(input, current) ==
  [l \in Limit |-> IF l \in DOMAIN input.limits THEN input.limits[l] ELSE Usual[l]]
LimitsOf(input, current) ==
  [l \in Limit |-> IF l \in DOMAIN input.limits THEN input.limits[l] ELSE current.limits[l]]

Accepted(s) ==
  /\ s.type \in Type
  /\ s.type = "SUBREDDIT" => s.subreddit # Null
  /\ s.type \in {"SEARCH", "CUSTOM_URL"} => s.query # Null
  /\ InRange(s.limits)

\* normalize(): a field that is not given keeps its value.
Normalize(input, current) ==
  LET type == Given(input.type, current.type)
      text == Clean(Given(input.query, current.query))
      s == SourceOf(type,
             WithoutPrefix(Clean(Given(input.subreddit, current.subreddit))),
             IF type = "CUSTOM_URL" THEN Canonical(text) ELSE text,
             Given(input.state, current.state),
             LimitsOf(input, current))
  IN {t \in {s} : Accepted(t)}

\* The form's handlers refuse one type when it is given.
Form(input, current) ==
  IF input.type = "LATEST" THEN {} ELSE Normalize(input, current)

\* The extension's settings: what its page shows.
DefaultInput(context) ==
  [NoInput EXCEPT
     !.type = context.type, !.subreddit = context.subreddit,
     !.query = IF context.type = "CUSTOM_URL" THEN context.url ELSE context.query,
     !.state = "on", !.limits = Usual]
Settings(context) == Normalize(DefaultInput(context), Default)

\* A batch names any type; a query that is missing is the page's URL.  It
\* writes no configuration, so the usual limits hold.
Batch(context) ==
  LET url == Canonical(context.url)
      asked == Clean(context.query)
  IN {s \in {[type |-> context.type, subreddit |-> WithoutPrefix(Clean(context.subreddit)),
              query |-> IF asked = Null THEN url ELSE asked,
              state |-> "on", limits |-> Usual]} :
        asked = Null /\ url = Null => context.url = Absent}

-----------------------------------------------------------------------------
(* What is read *)

\* matchSource: does the source answer for the page.
Matches(s, context) ==
  /\ s.state = "on" /\ s.type = context.type
  /\ s.type = "SUBREDDIT" => Folded(s.subreddit) = Folded(WithoutPrefix(context.subreddit))
  /\ s.type = "SEARCH" => s.query = context.query
  /\ s.type = "CUSTOM_URL" => s.query = context.url

\* resolvePublicRedditSourceUrl: a page, or none: it throws.
Address(s) ==
  LET named == s.type = "SUBREDDIT" \/ s.subreddit # Null
      fixed == {"POPULAR", "NEWS", "BEST"}
  IN CASE s.type \in {"FOLLOWING", "HOME"} -> <<"page", "HOME">>
       [] s.type \notin {"FOLLOWING", "HOME"} /\ named ->
            IF s.subreddit = Null THEN <<Null>> ELSE <<"subreddit", s.subreddit>>
       [] s.type \in fixed /\ ~named -> <<"page", s.type>>
       [] OTHER ->
            IF s.query \in Url
              THEN IF s.query \in {"url", "looseUrl"} THEN <<"url", "url">> ELSE <<Null>>
              ELSE IF s.query = Null THEN <<Null>> ELSE <<"search", s.query>>

-----------------------------------------------------------------------------
(* The life of one source *)

Context == [type : Type \cup {OtherType}, subreddit : Subreddit \cup {Absent, Blank},
            query : Query \cup {Absent, Blank}, url : Url \cup {Absent}]
NoContext == [type |-> Null, subreddit |-> Null, query |-> Null, url |-> Null]

VARIABLES
  row,   \* the set of the stored source: one or none
  asked  \* history: what the extension showed when it made the row, while unedited

settingsVars == <<row, asked>>

SettingsInit == row = {} /\ asked = NoContext

\* An input that is refused changes nothing.
CreateSource(input) ==
  /\ row = {}
  /\ row' = Form(input, Default) /\ row' # {}
  /\ UNCHANGED asked

EditSource(input) ==
  \E s \in row :
    /\ row' = Form(input, s) /\ row' # {}
    /\ \A t \in row' : Cardinality({l \in Limit : t.limits[l] # Usual[l]}) <= MaxUnusual
    /\ asked' = NoContext

AskForPage(context) ==
  /\ row = {}
  /\ row' = Settings(context) /\ row' # {}
  /\ asked' = context

SendBatch(context) ==
  /\ row = {}
  /\ row' = Batch(context) /\ row' # {}
  /\ UNCHANGED asked

SettingsNext ==
  \/ \E i \in Input : CreateSource(i) \/ EditSource(i)
  \/ \E c \in Context : AskForPage(c) \/ SendBatch(c)

SettingsSpec == SettingsInit /\ [][SettingsNext]_settingsVars

-----------------------------------------------------------------------------
(* Properties *)

\* The page that a source says it is of: what the form shows of it.
Meant(s) ==
  CASE s.type = "SUBREDDIT" -> <<"subreddit", s.subreddit>>
    [] s.type = "SEARCH" /\ s.query \notin Url -> <<"search", s.query>>
    [] s.query \in {"url", "looseUrl"} -> <<"url", "url">>
    [] s.type = "FOLLOWING" -> <<"page", "HOME">>
    [] OTHER -> <<"page", s.type>>

\* What is accepted and has no page: a URL of another host, also as the words
\* of a search; the type the form no longer takes; a batch that does not say
\* what its type needs.
Unreachable(s) ==
  /\ s.subreddit = Null
  /\ s.type \in {"LATEST", "SUBREDDIT", "SEARCH", "CUSTOM_URL", OtherType}
  /\ \/ s.query \in {Null, "otherHostUrl", "foreignUrl"}
     \/ s.type = "SUBREDDIT"

\* Whatever edits made a source, the collector shows the page it says it is of,
\* though the address follows from any text the row holds before its type; one
\* that a batch made and the form has no such source of has some page.  Those of
\* Unreachable are accepted and fail in every collection.
HasItsPage ==
  \A s \in row :
    IF Unreachable(s) THEN Address(s) = <<Null>>
    ELSE IF s \in Form(NoInput, s) THEN Address(s) = Meant(s)
    ELSE Address(s) # <<Null>>

\* The source that the settings made answers the next request of the same page,
\* however its subreddit is spelled; except a page of its own whose URL is not
\* in canonical form, which is stored in that form and never found.
IsFoundAgain ==
  \A s \in row : asked # NoContext =>
    Matches(s, asked) \/ (asked.type = "CUSTOM_URL" /\ asked.url = "looseUrl")

\* A source stays the source of its page for the collector and the settings.
SourceKeepsItsPage == HasItsPage /\ IsFoundAgain

\* A source can be switched off, and that changes nothing else of it; except
\* one of a batch whose type the form does not know, or that lacks the text its
\* type needs (then it is refused) or has more than that (then it is lost).
SourceCanBeSwitchedOff ==
  \A s \in row :
    \/ Form([NoInput EXCEPT !.state = "off"], s) = {[s EXCEPT !.state = "off"]}
    \/ ~Accepted(s)
    \/ (s.type = "CUSTOM_URL" /\ s.query # Canonical(s.query))
    \/ (s.type # "SUBREDDIT" /\ s.subreddit # Null)
    \/ (s.type \notin {"SEARCH", "CUSTOM_URL"} /\ s.query # Null)

-----------------------------------------------------------------------------
(* The inductive invariant *)

\* There is one source at most, with its limits in range, whatever was edited.
SettingsTypeOK ==
  /\ \A s \in row :
       /\ s \in [type : Type \cup {OtherType}, subreddit : {"Name", "name", Null},
                 query : Query \cup {Null}, state : {"on", "off"}, limits : [Limit -> Int]]
       /\ InRange(s.limits) /\ row = {s}
  /\ asked \in Context \cup {NoContext}

\* A source that was not edited since the settings made it is as they made it.
AskedIsMade == asked # NoContext => row # {} /\ row = Settings(asked)

SettingsIInv == SettingsTypeOK /\ AskedIsMade
=============================================================================
