------------------------------ MODULE AdminTab ------------------------------
(***************************************************************************)
(* One tab of the management console: the browser's location and cookie,   *)
(* the state and the effects of App.tsx, the requests it has in flight,    *)
(* and what the console server keeps for them: admin sessions and the      *)
(* history of sends, which it serves page by page.                         *)
(*                                                                         *)
(* An event handler or an answer changes state; React then renders and     *)
(* runs the effects whose dependencies changed since the last render, all  *)
(* with the values of that render: one step, Effects.  No request is ever  *)
(* aborted and answers arrive in any order.  All pages other than sends    *)
(* and login are one page "/other": they follow the same pattern.          *)
(***************************************************************************)
EXTENDS Naturals, FiniteSets, Sequences

CONSTANTS
  Recipients, \* recipients of sends
  Searched,   \* recipients an admin searches for
  InitialRows,\* histories of sends the tab may be opened on
  PageSize,   \* SEND_HISTORY_PAGE_SIZE
  MaxSends,   \* bounds the model: sends created
  MaxPage,    \* bounds the model: pages the admin turns to
  MaxLogins,  \* bounds the model: sessions created
  MaxVisits,  \* bounds the model: earlier locations the browser can go back to
  MaxMishaps, \* bounds the model: sessions ended elsewhere, requests failed
  MaxEvents   \* bounds the model: sends, mishaps and acts of the admin together

ASSUME AdminTabAssumption ==
  /\ Recipients # {} /\ "" \notin Recipients /\ Searched \subseteq Recipients
  /\ InitialRows \subseteq Seq([at : Nat, to : Recipients])
  /\ \A table \in InitialRows :
       /\ Len(table) <= MaxSends
       /\ \A i, j \in DOMAIN table : i < j => table[i].at <= table[j].at
  /\ {PageSize, MaxPage} \subseteq Nat \ {0}
  /\ {MaxSends, MaxLogins, MaxVisits, MaxMishaps, MaxEvents} \subseteq Nat

VARIABLES
  rows,      \* server: sends in the order of created_at, in half milliseconds
  live,      \* server: sessions neither revoked nor expired
  logins,    \* server: sessions created so far
  cookie,    \* browser: the session in its cookie, 0 when there is none
  location,  \* browser: path and search part of the URL, and state of App
  past,      \* browser: locations it can go back to
  status,    \* App: session.status
  view,      \* App: sendRecipientQuery and sendPage
  list,      \* App: sends, the view they were loaded for, hasMore, error
  selected,  \* App: selectedSendId, 0 when none
  events,    \* App: the send whose sendEvents are shown, 0 when none
  rendered,  \* React: dependencies at the last run of the effects
  requests,  \* in flight, with the server's verdict once it has one
  asked,     \* the view a list was last asked for (ghost)
  crossed,   \* kinds of requests that another one overlapped so far (ghost)
  turned,    \* sends seen while the admin turned the pages one by one (ghost)
  creations, \* sends created so far, without the initial ones
  acts,      \* what the admin did so far
  mishaps    \* sessions ended elsewhere and requests failed so far

server  == <<rows, live, logins>>
browser == <<cookie, location, past>>
app     == <<status, view, list, selected, events>>
bounds  == <<creations, acts, mishaps>>
vars == <<rows, live, logins, cookie, location, past, status, view, list, selected,
          events, rendered, requests, asked, crossed, turned, creations, acts, mishaps>>

Paths == {"/login", "/sends", "/other"}
Queries == Searched \cup {""}
Views == [query : Queries, page : 1..MaxPage]
FirstView == [query |-> "", page |-> 1]
Locations == [path : Paths, search : Views]
Sends == 1..MaxSends
WithinBounds == creations + acts + mishaps < MaxEvents
NoList == [view |-> FirstView, sends |-> {}, more |-> FALSE, error |-> FALSE, loaded |-> FALSE]

(* A request: its kind, what its closure remembers, the cookie it was sent *)
(* with, and whether the server let it pass.                               *)
Request == [kind : {"session", "list", "events", "login", "logout"},
            path : Paths, view : Views, send : 0..MaxSends, token : 0..MaxLogins,
            verdict : {"none", "yes", "no"}]

TypeOK ==
  /\ rows \in Seq([at : Nat, to : Recipients]) /\ Len(rows) <= MaxSends
  /\ live \subseteq 1..logins /\ logins \in 0..MaxLogins /\ cookie \in 0..logins
  /\ location \in Locations /\ past \in Seq(Locations)
  /\ status \in {"loading", "authenticated", "unauthenticated"}
  /\ view \in Views
  /\ list \in [view : Views, sends : SUBSET Sends, more : BOOLEAN, error : BOOLEAN,
               loaded : BOOLEAN]
  /\ {selected, events} \subseteq 0..Len(rows)
  /\ requests \subseteq Request
  /\ asked \in Views /\ crossed \subseteq {"session", "events"}

-----------------------------------------------------------------------------
(***************************************************************************)
(* The history on the server.  A send's id grows with its creation.        *)
(***************************************************************************)
(* created_at has microseconds, the cursor made from it milliseconds.      *)
Millisecond(t) == t - (t % 2)

Matches(i, query) == query = "" \/ rows[i].to = query

(* Mutant: the page starts after the send before the cursor's.             *)
BehindOffByOne(i, cursor) == i + 1 < cursor

(* created_at < cursor.createdAt, or equal and id < cursor.id              *)
Behind(i, cursor) ==
  \/ rows[i].at < Millisecond(rows[cursor].at)
  \/ rows[i].at = Millisecond(rows[cursor].at) /\ i < cursor

(* listAdminHistory: newest first, cursor 0 for none; one row more than    *)
(* the limit is read to know whether there is a next page.                 *)
PageBehind(query, cursor) ==
  LET found == {i \in DOMAIN rows : Matches(i, query) /\ (cursor = 0 \/ Behind(i, cursor))}
  IN  [sends |-> {i \in found : Cardinality({j \in found : j > i}) < PageSize},
       more  |-> Cardinality(found) > PageSize]

Oldest(sends) == CHOOSE i \in sends : \A j \in sends : i <= j

PageAfter(query, page) ==
  IF page.more THEN PageBehind(query, Oldest(page.sends)) ELSE page

(* GET /sends with a page number: from the first page on, page by page.    *)
HistoryPage(v) ==
  LET walk[p \in 1..v.page] ==
        IF p = 1 THEN PageBehind(v.query, 0) ELSE PageAfter(v.query, walk[p - 1])
  IN  walk[v.page]

CreateSend ==
  /\ WithinBounds /\ Len(rows) < MaxSends
  /\ \E to \in Recipients, later \in 1..2 :
       rows' = Append(rows, [at |-> later + (IF rows = <<>> THEN 0 ELSE rows[Len(rows)].at),
                             to |-> to])
  /\ creations' = creations + 1
  /\ UNCHANGED <<live, logins, browser, app, rendered, requests, asked, crossed, turned, acts,
                 mishaps>>

-----------------------------------------------------------------------------
(***************************************************************************)
(* Sending, judging and failing of requests.                               *)
(***************************************************************************)
Asking(kind, path, v, send) ==
  [kind |-> kind, path |-> path, view |-> v, send |-> send, token |-> cookie,
   verdict |-> "none"]

InFlight(kinds) == \E r \in requests : r.kind \in kinds

(* Mutant: logout leaves the session alive.                                *)
NotRevoked(r) == live

(* The sessions left once the server has revoked that of a logout.         *)
Unrevoked(r) == IF r.kind = "logout" THEN live \ {r.token} ELSE live

(* The server looks the session up; login checks the password (either may  *)
(* happen) and creates a session, logout revokes the one it came with.     *)
Judge(r) ==
  /\ r.verdict = "none"
  /\ \E ok \in BOOLEAN :
       /\ r.kind \in {"session", "list", "events"} => ok = (r.token \in live)
       /\ r.kind = "logout" => ok
       /\ r.kind = "login" /\ ok => logins < MaxLogins
       /\ LET new == r.kind = "login" /\ ok IN
          /\ logins' = IF new THEN logins + 1 ELSE logins
          /\ live' = IF new THEN live \cup {logins + 1} ELSE Unrevoked(r)
          /\ requests' = (requests \ {r}) \cup
               {[r EXCEPT !.verdict = IF ok THEN "yes" ELSE "no",
                          !.token = IF new THEN logins + 1 ELSE @]}
  /\ UNCHANGED <<rows, browser, app, rendered, asked, crossed, turned, bounds>>

(* navigate: a new entry in the browser's history, and a popstate event;   *)
(* nothing when the location is the same.                                  *)
Navigate(path) ==
  LET next == [path |-> path, search |-> FirstView] IN
  IF next = location THEN UNCHANGED <<location, past>>
  ELSE /\ location' = next
       /\ past' = SubSeq(<<location>> \o past, 1,
                         IF Len(past) < MaxVisits THEN Len(past) + 1 ELSE MaxVisits)

-----------------------------------------------------------------------------
(***************************************************************************)
(* What the tab shows.                                                     *)
(***************************************************************************)
OnSends == location.path = "/sends"
Console == status = "authenticated" /\ location.path # "/login"
LoginForm == status # "loading" /\ ~Console

(* filterSends: what was loaded is filtered by the query of the moment.    *)
Shown == {i \in list.sends : Matches(i, view.query)}
Orphaned == selected # 0 /\ selected \notin Shown

Dependencies == [location |-> location, view |-> view, status |-> status]

(* Nothing is left to render.  Rendering takes milliseconds: nothing       *)
(* reaches the tab, neither an answer nor the admin, before it is done.    *)
Settled == rendered = Dependencies /\ ~Orphaned

-----------------------------------------------------------------------------
(***************************************************************************)
(* Answers.                                                                *)
(***************************************************************************)
SessionAnswer(r, authenticated) ==
  /\ status' = IF authenticated THEN "authenticated" ELSE "unauthenticated"
  /\ IF ~authenticated /\ r.path # "/login"
     THEN Navigate("/login") ELSE UNCHANGED <<location, past>>
  /\ UNCHANGED <<view, list, selected, events, turned, crossed>>

(* The sends read so far, for the properties: the admin went through the   *)
(* pages in order, beginning with the first.                               *)
Turn(v, page) ==
  turned' = IF v.page = 1
              THEN [view |-> v, upto |-> Len(rows), seen |-> page.sends]
            ELSE IF turned.view \in {v, [v EXCEPT !.page = @ - 1]} /\ turned.upto > 0
              THEN [turned EXCEPT !.view = v, !.seen = @ \cup page.sends]
            ELSE [turned EXCEPT !.upto = 0]

ListAnswer(r, ok) ==
  /\ IF ok
     THEN LET page == HistoryPage(r.view) IN
          /\ list' = [view |-> r.view, sends |-> page.sends, more |-> page.more,
                      error |-> list.error, loaded |-> TRUE]
          /\ Turn(r.view, page)
     ELSE list' = [list EXCEPT !.error = TRUE] /\ UNCHANGED turned
  /\ UNCHANGED <<location, past, status, view, selected, events, crossed>>

(* setSendEvents with whatever send the answer is about.                   *)
EventsAnswer(r, ok) ==
  /\ events' = IF ok THEN r.send ELSE events
  /\ UNCHANGED <<location, past, status, view, list, selected, turned, crossed>>

LoginAnswer(ok) ==
  /\ IF ok THEN status' = "authenticated" /\ Navigate("/sends")
     ELSE UNCHANGED <<status, location, past>>
  /\ UNCHANGED <<view, list, selected, events, turned, crossed>>

(* Also when the request failed: its error is swallowed.                   *)
LogoutAnswer ==
  /\ status' = "unauthenticated"
  /\ Navigate("/login")
  /\ UNCHANGED <<view, list, selected, events, turned, crossed>>

Answer(r, ok) ==
  /\ Settled
  /\ requests' = requests \ {r}
  /\ \/ r.kind = "session" /\ SessionAnswer(r, ok)
     \/ r.kind = "list" /\ ListAnswer(r, ok)
     \/ r.kind = "events" /\ EventsAnswer(r, ok)
     \/ r.kind = "login" /\ LoginAnswer(ok)
     \/ r.kind = "logout" /\ LogoutAnswer
  /\ UNCHANGED <<rows, live, logins, rendered, asked, creations, acts>>

(* A list or the events are read right before their answer arrives; a      *)
(* denial clears the cookie, whichever it is by then.                      *)
Arrive(r) ==
  /\ r.verdict # "none"
  /\ Answer(r, r.verdict = "yes")
  /\ cookie' = CASE r.kind = "login" -> IF r.verdict = "yes" THEN r.token ELSE cookie
                 [] r.kind = "logout" -> 0
                 [] OTHER -> IF r.verdict = "no" THEN 0 ELSE cookie
  /\ UNCHANGED mishaps

(* The request never reaches the server, or its answer is lost.            *)
Drop(r) ==
  /\ WithinBounds /\ mishaps < MaxMishaps
  /\ mishaps' = mishaps + 1
  /\ Answer(r, FALSE)
  /\ UNCHANGED cookie

EndSession ==
  /\ WithinBounds /\ mishaps < MaxMishaps
  /\ mishaps' = mishaps + 1
  /\ live # {}
  /\ live' = {}
  /\ UNCHANGED <<rows, logins, browser, app, rendered, requests, asked, crossed, turned, creations,
                 acts>>

-----------------------------------------------------------------------------
(***************************************************************************)
(* Rendering.                                                              *)
(***************************************************************************)
(* Mutant: turning the page does not load it.                              *)
QueryChanged == rendered.view.query # view.query

ViewChanged == rendered.view # view

(* The effects, in the order of the source: the location sets the view;    *)
(* a new path looks up the session; a new view loads the list; the view    *)
(* sets the location; a selected send that is not shown is deselected.     *)
Effects ==
  LET mount == rendered.status = "none"
      entered == mount \/ rendered.location.path # location.path
      moved == mount \/ rendered.location # location
      loads == /\ OnSends /\ status = "authenticated"
               /\ entered \/ ViewChanged \/ rendered.status # status
      new == (IF entered THEN {Asking("session", location.path, FirstView, 0)} ELSE {}) \cup
             (IF loads THEN {Asking("list", "/sends", view, 0)} ELSE {}) IN
  /\ ~Settled
  /\ rendered' = Dependencies
  /\ view' = IF moved /\ OnSends THEN location.search ELSE view
  /\ location' = IF OnSends THEN [location EXCEPT !.search = view] ELSE location
  /\ requests' = requests \cup new
  /\ asked' = IF loads THEN view ELSE asked
  /\ crossed' = crossed \cup {"session" : r \in IF InFlight({"login", "logout"}) THEN new ELSE {}}
  /\ list' = IF loads THEN [list EXCEPT !.error = FALSE] ELSE list
  /\ selected' = IF Orphaned THEN 0 ELSE selected
  /\ events' = IF Orphaned THEN 0 ELSE events
  /\ UNCHANGED <<server, cookie, past, status, turned, bounds>>

-----------------------------------------------------------------------------
(***************************************************************************)
(* The administrator.                                                      *)
(***************************************************************************)
Act ==
  /\ Settled
  /\ WithinBounds /\ acts' = acts + 1
  /\ UNCHANGED <<server, rendered, turned, creations, mishaps>>

(* The search field.                                                       *)
Search(query) ==
  /\ Act /\ Console /\ OnSends
  /\ view' = [query |-> query, page |-> 1]
  /\ UNCHANGED <<browser, status, list, selected, events, requests, asked, crossed>>

(* Mutant: the button for the previous page works on the first one.        *)
NeighboursUnclamped == {view.page - 1} \cup ({view.page + 1} \cap (1..MaxPage))

Neighbours == {view.page - 1, view.page + 1} \cap (1..MaxPage)

(* The buttons for the previous and the next page.                         *)
TurnPage ==
  /\ Act /\ Console /\ OnSends
  /\ \E page \in Neighbours :
       /\ page > view.page => list.more
       /\ view' = [view EXCEPT !.page = page]
  /\ UNCHANGED <<browser, status, list, selected, events, requests, asked, crossed>>

(* The navigation bar: it leads to /sends without a search part.           *)
Open(path) ==
  /\ Act /\ Console
  /\ Navigate(path)
  /\ UNCHANGED <<cookie, app, requests, asked, crossed>>

(* The back button of the browser.                                         *)
Back ==
  /\ Act
  /\ past # <<>>
  /\ location' = Head(past) /\ past' = Tail(past)
  /\ UNCHANGED <<cookie, app, requests, asked, crossed>>

(* Mutant: the events of the row opened before stay until others arrive.   *)
OpenRowUncleared(i) ==
  /\ selected' = i /\ UNCHANGED events
  /\ crossed' = IF InFlight({"events"}) THEN crossed \cup {"events"} ELSE crossed
  /\ requests' = requests \cup {Asking("events", "/sends", FirstView, i)}

OpenRow(i) ==
  /\ selected' = i /\ events' = 0
  /\ crossed' = IF InFlight({"events"}) THEN crossed \cup {"events"} ELSE crossed
  /\ requests' = requests \cup {Asking("events", "/sends", FirstView, i)}

(* loadSendEvents: opens a row of the table, or closes it again.           *)
Toggle(i) ==
  /\ Act /\ Console /\ OnSends
  /\ IF selected = i
     THEN selected' = 0 /\ UNCHANGED <<events, requests, crossed>>
     ELSE OpenRow(i)
  /\ UNCHANGED <<browser, status, view, list, asked>>

(* The form's button is disabled while a login is under way.               *)
Login ==
  /\ Act /\ LoginForm /\ ~InFlight({"login"})
  /\ crossed' = crossed \cup {"session" : r \in requests}
  /\ requests' = requests \cup {Asking("login", "/login", FirstView, 0)}
  /\ UNCHANGED <<browser, app, asked>>

Logout ==
  /\ Act /\ Console
  /\ crossed' = crossed \cup {"session" : r \in requests}
  /\ requests' = requests \cup {Asking("logout", "/login", FirstView, 0)}
  /\ UNCHANGED <<browser, app, asked>>

(* The browser loads the page: the state of App begins with the location.  *)
Loading ==
  /\ status' = "loading" /\ view' = location'.search /\ list' = NoList
  /\ selected' = 0 /\ events' = 0
  /\ rendered' = [location |-> location', view |-> location'.search, status |-> "none"]

(* A reload gives up the requests of the old page.                         *)
Reload ==
  /\ WithinBounds /\ acts' = acts + 1
  /\ ~InFlight({"login", "logout"})
  /\ UNCHANGED location
  /\ Loading
  /\ requests' = {}
  /\ UNCHANGED <<server, cookie, past, asked, crossed, turned, creations, mishaps>>

(* The tab is opened on any page, with or without a session in the cookie. *)
Init ==
  /\ rows \in InitialRows
  /\ logins \in 0..(IF MaxLogins > 0 THEN 1 ELSE 0) /\ live = 1..logins /\ cookie = logins
  /\ location \in {[path |-> path, search |-> FirstView] : path \in Paths} \cup
                  {[path |-> "/sends", search |-> v] : v \in Views}
  /\ past = <<>>
  /\ status = "loading" /\ view = location.search /\ list = NoList
  /\ selected = 0 /\ events = 0
  /\ rendered = [location |-> location, view |-> view, status |-> "none"]
  /\ requests = {} /\ asked = FirstView /\ crossed = {}
  /\ turned = [view |-> FirstView, upto |-> 0, seen |-> {}]
  /\ creations = 0 /\ acts = 0 /\ mishaps = 0

-----------------------------------------------------------------------------
Network == \E r \in requests : Judge(r) \/ Arrive(r)
User ==
  \/ \E query \in Queries : Search(query)
  \/ TurnPage \/ Back \/ Login \/ Logout \/ Reload
  \/ \E path \in Paths \ {"/login"} : Open(path)
  \/ \E i \in Shown : Toggle(i)
Next ==
  \/ Effects \/ Network \/ User
  \/ CreateSend \/ EndSession
  \/ \E r \in requests : Drop(r)

(* React renders what has changed, and requests are answered.              *)
Fairness == WF_vars(Effects) /\ WF_vars(Network)
Spec == Init /\ [][Next]_vars /\ Fairness

-----------------------------------------------------------------------------
(***************************************************************************)
(* Properties.                                                             *)
(***************************************************************************)
AtRest == Settled /\ requests = {}

(* A tab at rest shows the page its controls and its location name: every  *)
(* change of the view, by whatever control, location or login, has loaded  *)
(* its list.  Not when the last load failed, which the tab then says, nor  *)
(* when the answer to an older load came last: nothing guards against it.  *)
Overtaken == list.loaded /\ list.view # asked
ShowsWhatItSays ==
  AtRest /\ Console /\ OnSends /\ ~list.error /\ ~Overtaken =>
    list.loaded /\ list.view = view /\ location.search = view

(* An admin who turns the pages one after the other up to the last has     *)
(* seen every matching send there was when the first page was loaded,      *)
(* whatever is created meanwhile; only a send that shares its millisecond  *)
(* with another may be passed over.                                        *)
Alone(i) == \A j \in DOMAIN rows : Millisecond(rows[j].at) = Millisecond(rows[i].at) => j = i
NoSendSkipped ==
  list.loaded /\ turned.upto > 0 /\ turned.view = list.view /\ ~list.more =>
    \A i \in 1..turned.upto : Matches(i, turned.view.query) /\ Alone(i) => i \in turned.seen

(* An open row shows the events of its own send, or none: the events of    *)
(* one send never stand under another, unless two of these requests        *)
(* overlapped: their answers are not told apart.                           *)
EventsAreOfSelected ==
  AtRest /\ selected # 0 /\ "events" \notin crossed => events \in {0, selected}

(* A tab at rest knows whether its cookie holds a live session, and a      *)
(* logout has ended the session on the server (one that a second login     *)
(* replaced stays behind).  Not when other requests overlap a login or a   *)
(* logout: a late answer undoes either in the tab, and clears the cookie.  *)
SessionIsTrue ==
  AtRest /\ "session" \notin crossed /\ mishaps = 0 =>
    /\ status = "authenticated" <=> cookie \in live
    /\ status = "unauthenticated" /\ logins <= 1 => live = {}

(* The search part of the location is the source of truth of the view:     *)
(* when the admin is done, the two agree sooner or later.                  *)
UrlIsTruth == OnSends ~> (~OnSends \/ view = location.search)
=============================================================================
