----------------------------- MODULE SearchPage -----------------------------
(***************************************************************************)
(* The search page, frontend/app/page.tsx, with the form                   *)
(* (components/SearchForm.tsx) and the controls over the list              *)
(* (FilterBar, SortBar, SummaryStrip, JourneyCard).                        *)
(*                                                                         *)
(* A step is one event - the user acts, an answer comes, the page is       *)
(* loaded - with the state updates of its handler and the effects that     *)
(* follow before the next event: going back to page 1 when filters or      *)
(* order change, keeping a listed journey selected, writing the URL.       *)
(***************************************************************************)
EXTENDS JourneyList

CONSTANTS
  Stations, NoStation,
  Unknown,         \* a station code in a URL that the API does not know
  Whens,           \* a date with a time of day
  Now,             \* today at this hour, the default of a page load
  JourneysOf,      \* JourneysOf[s]: the answer of the API to search s
  PageSize,        \* PAGE_SIZE
  Urls,            \* the query strings the page may be opened with
  TransferOptions, ConnectionOptions, LayoverOptions, Orders  \* what the controls offer

VARIABLES
  phase,           \* "blank" (not mounted), "restoring" (asking for the stations of the URL), "ready"
  form,            \* the values of the form: from, to, when
  draft,           \* the stations pinned on the map
  kind, data,      \* state: idle, loading, error, done; data is [search, routes]
  lastSearch,
  calls,           \* searches under way, a sequence in the order they were sent
  filters, sort, page, selected,
  url

pageVars == <<phase, form, draft, kind, data, lastSearch, calls, filters, sort, page, selected, url>>
listVars == <<filters, sort, page, selected>>
callVars == <<kind, data, lastSearch, calls>>

MaybeStation == Stations \cup {NoStation}
Searches == [from : Stations, to : Stations, when : Whens]
NoData   == [search |-> Null, routes |-> <<>>]

Filtered(k, d, f)  == ApplyFilters(IF k = "done" THEN d.routes ELSE <<>>, f)
Sorted(k, d, f, o) == SortJourneys(Filtered(k, d, f), o)
List == Sorted(kind, data, filters, sort)
Ids(js) == {js[i].id : i \in DOMAIN js}

PageTypeOK ==
  /\ phase \in {"blank", "restoring", "ready"}
  /\ form \in [from : MaybeStation, to : MaybeStation, when : Whens]
  /\ draft \in [from : MaybeStation, to : MaybeStation]
  /\ kind \in {"idle", "loading", "error", "done"}
  /\ data.search \in Searches \cup {Null}
  /\ lastSearch \in Searches \cup {Null}
  /\ ToSet(calls) \subseteq Searches
  /\ sort \in SortKeys /\ page \in Nat \ {0}

PageInit ==
  /\ phase = "blank"
  /\ form = [from |-> NoStation, to |-> NoStation, when |-> Now]
  /\ draft = [from |-> NoStation, to |-> NoStation]
  /\ kind = "idle" /\ data = NoData /\ lastSearch = Null /\ calls = <<>>
  /\ filters = FilterDefaults /\ sort = "arrival" /\ page = 1 /\ selected = Null
  /\ url \in Urls

-----------------------------------------------------------------------------
(* The effects after an event, in terms of the state it leaves. *)

(* Keep the current pick while it is listed, else take the first journey. *)
SelectionEffect(pick) ==
  LET l == Sorted(kind', data', filters', sort')
  IN selected' = IF pick \in Ids(l) THEN pick ELSE IF l = <<>> THEN Null ELSE l[1].id

SearchParams(s) ==
  IF s = Null THEN [from |-> Null, to |-> Null, when |-> Null]
              ELSE [from |-> s.from, to |-> s.to, when |-> s.when]

UrlOf(s, f, o) == FiltersToParams(f, o, SearchParams(s))

\* Fault: the effect reads the search before the event.
UrlEffectStale(changed) ==
  url' = IF changed /\ ~(lastSearch = Null /\ kind' = "idle")
           THEN UrlOf(lastSearch, filters', sort') ELSE url

(* Runs when filters, order or state.kind changed; writes the whole query string. *)
UrlEffect(changed) ==
  url' = IF changed /\ ~(lastSearch' = Null /\ kind' = "idle")
           THEN UrlOf(lastSearch', filters', sort') ELSE url

\* Fault: the page stays where it was.
ListEffectsOnPage ==
  /\ page' = page
  /\ SelectionEffect(selected)
  /\ UrlEffect(TRUE)

(* A list control was used: page 1, another selection if need be, another URL. *)
ListEffects ==
  /\ page' = 1
  /\ SelectionEffect(selected)
  /\ UrlEffect(TRUE)

-----------------------------------------------------------------------------
(***************************************************************************)
(* Searching.  Run is the callback of that name; f are the filters it      *)
(* leaves.                                                                 *)
(***************************************************************************)
Run(s, f) ==
  /\ lastSearch' = s
  /\ kind' = "loading" /\ data' = NoData
  /\ calls' = Append(calls, s)
  /\ filters' = f
  /\ page' = 1 /\ selected' = Null
  /\ draft' = [from |-> s.from, to |-> s.to]
  /\ UrlEffect(TRUE)

\* Fault: the button stays enabled while a search is under way.
SubmitAlways == phase = "ready"

(* The button is disabled while a search is under way. *)
SubmitEnabled == phase = "ready" /\ kind # "loading"

Submit ==
  /\ SubmitEnabled
  /\ form.from # NoStation /\ form.to # NoStation
  /\ form.from # form.to
  /\ UNCHANGED <<phase, form, sort>>
  /\ Run([from |-> form.from, to |-> form.to, when |-> form.when],
         [filters EXCEPT !.excludedTrains = {}])

(* An answer of the API, in whatever order: the code does not look whose it is. *)
Answered(i) ==
  /\ kind' = "done"
  /\ data' = [search |-> calls[i], routes |-> JourneysOf[calls[i]]]
  /\ calls' = RemoveAt(calls, i)
  /\ UNCHANGED <<phase, form, draft, lastSearch, filters, sort, page>>
  /\ SelectionEffect(selected)
  /\ UrlEffect(kind' # kind)

(* 4xx, 5xx, or the proxy's 503 when the API does not answer within 15 s. *)
Failed(i) ==
  /\ kind' = "error" /\ data' = NoData
  /\ calls' = RemoveAt(calls, i)
  /\ UNCHANGED <<phase, form, draft, lastSearch, filters, sort, page>>
  /\ SelectionEffect(selected)
  /\ UrlEffect(kind' # kind)

-----------------------------------------------------------------------------
(* Loading the page and restoring what its URL says. *)

RestoredWhen == IF url.when = Null THEN Now ELSE url.when

Load ==
  /\ phase = "blank"
  /\ LET r == FiltersFromParams(url) IN filters' = r.filters /\ sort' = r.sort
  /\ form' = [form EXCEPT !.when = RestoredWhen]
  /\ phase' = IF url.from = Null \/ url.to = Null THEN "ready" ELSE "restoring"
  /\ UNCHANGED <<draft, callVars, page, selected, url>>


Resolve(code) == IF code \in Stations THEN code ELSE NoStation

StationsRestored ==
  LET from == Resolve(url.from)
      to   == Resolve(url.to)
  IN /\ phase = "restoring"
     /\ phase' = "ready"
     /\ form' = [form EXCEPT !.from = from, !.to = to]
     /\ UNCHANGED sort
     /\ IF from # NoStation /\ to # NoStation
          THEN Run([from |-> from, to |-> to, when |-> form.when], filters)
          ELSE /\ draft' = [from |-> from, to |-> to]
               /\ UNCHANGED <<callVars, filters, page, selected, url>>

StationsFail ==
  /\ phase = "restoring"
  /\ phase' = "ready"
  /\ UNCHANGED <<form, draft, callVars, listVars, url>>

(* Reloading, or opening the same link again: only the URL survives. *)
Reload ==
  /\ phase # "blank"
  /\ phase' = "blank"
  /\ form' = [from |-> NoStation, to |-> NoStation, when |-> Now]
  /\ draft' = [from |-> NoStation, to |-> NoStation]
  /\ kind' = "idle" /\ data' = NoData /\ lastSearch' = Null /\ calls' = <<>>
  /\ filters' = FilterDefaults /\ sort' = "arrival" /\ page' = 1 /\ selected' = Null
  /\ UNCHANGED url

-----------------------------------------------------------------------------
(* The form. *)

(* SearchForm.update: the map hears of the stations when one of them changed. *)
Update(v) ==
  /\ phase = "ready" /\ v # form
  /\ form' = v
  /\ draft' = IF v.from # form.from \/ v.to # form.to THEN [from |-> v.from, to |-> v.to] ELSE draft
  /\ UNCHANGED <<phase, callVars, listVars, url>>

PickFrom(s) == Update([form EXCEPT !.from = s])
PickTo(s)   == Update([form EXCEPT !.to = s])
PickWhen(w) == Update([form EXCEPT !.when = w])
Swap        == Update([form EXCEPT !.from = form.to, !.to = form.from])

-----------------------------------------------------------------------------
(* The list: its controls are there once a search is done. *)

Shown == PageOf(List, page, PageSize)

SetFilters(f) ==
  /\ kind = "done" /\ data.routes # <<>>
  /\ filters' = f
  /\ UNCHANGED <<phase, form, draft, callVars, sort>>
  /\ ListEffects

(* The filter bar, and the "Reset filters" of an empty list. *)
UseFilterBar ==
  \/ SetFilters([filters EXCEPT !.directOnly = ~@])
  \/ \E n \in TransferOptions : ~filters.directOnly /\ SetFilters([filters EXCEPT !.maxTransfers = n])
  \/ \E n \in ConnectionOptions : SetFilters([filters EXCEPT !.minConnection = n])
  \/ \E n \in LayoverOptions : SetFilters([filters EXCEPT !.maxLayover = n])
  \/ \E t \in filters.excludedTrains : SetFilters([filters EXCEPT !.excludedTrains = @ \ {t}])
  \/ filters # FilterDefaults /\ SetFilters(FilterDefaults)

(* "Hide every journey that uses this train", on the card of a shown journey. *)
ExcludeTrain(j, t) ==
  /\ t \in j.trains
  /\ SetFilters([filters EXCEPT !.excludedTrains = @ \cup {t}])

SetSort(o) ==
  /\ kind = "done" /\ o # sort
  /\ sort' = o
  /\ UNCHANGED <<phase, form, draft, callVars, filters>>
  /\ ListEffects

GoTo(p) ==
  /\ p \in 1..Pages(List, PageSize) \ {page}
  /\ page' = p
  /\ UNCHANGED <<phase, form, draft, callVars, filters, sort, selected, url>>

Select(j) ==
  /\ j.id # selected
  /\ selected' = j.id
  /\ UNCHANGED <<phase, form, draft, callVars, filters, sort, page, url>>

(* From the map and the summary tiles: the journey's page is opened too. *)
Reveal(i) ==
  /\ selected' = List[i].id
  /\ page' = (i - 1) \div PageSize + 1
  /\ UNCHANGED <<phase, form, draft, callVars, filters, sort, url>>

-----------------------------------------------------------------------------
UseList ==
  \/ UseFilterBar
  \/ \E i \in DOMAIN Shown : Select(Shown[i]) \/ \E t \in Shown[i].trains : ExcludeTrain(Shown[i], t)
  \/ \E o \in Orders : SetSort(o)
  \/ \E p \in 1..Pages(List, PageSize) : GoTo(p)
  \/ \E i \in DOMAIN List : Reveal(i)

(* Everything but the picking of the station to leave from. *)
OtherPageSteps ==
  \/ Load \/ StationsRestored \/ StationsFail \/ Reload
  \/ \E s \in MaybeStation : PickTo(s)
  \/ \E w \in Whens : PickWhen(w)
  \/ Swap \/ Submit
  \/ \E i \in DOMAIN calls : Answered(i) \/ Failed(i)
  \/ UseList

PageNext == OtherPageSteps \/ \E s \in MaybeStation : PickFrom(s)

PageSpec == PageInit /\ [][PageNext]_pageVars

-----------------------------------------------------------------------------
(***************************************************************************)
(* The journeys on the page are those of the search the user made last,    *)
(* which is also the one in the URL (page.tsx:54 takes any answer): what   *)
(* rules out a late answer is that no search can start while one is under  *)
(* way, SearchForm.tsx:106, also when the page restores one.               *)
(***************************************************************************)
ShownIsLastSearch == kind = "done" => data.search = lastSearch

(***************************************************************************)
(* "Keep the URL shareable" (page.tsx:87): once the page has a search,     *)
(* opening its URL elsewhere asks for the same search and gives the same   *)
(* filters and order.                                                      *)
(***************************************************************************)
UrlShareable ==
  phase = "ready" /\ lastSearch # Null =>
    /\ [from |-> url.from, to |-> url.to, when |-> url.when] = lastSearch
    /\ FiltersFromParams(url) = [filters |-> filters, sort |-> sort]

(***************************************************************************)
(* The parts of the page agree with each other after any sequence of       *)
(* events: the page shown exists and is not empty unless the list is, the  *)
(* journey on the map is in the list, a badge goes to a listed journey,    *)
(* and the map pins the stations of the form.                              *)
(***************************************************************************)
PageExists      == page \in 1..Pages(List, PageSize) /\ (List # <<>> => Shown # <<>>)
SelectionListed == IF List = <<>> THEN selected = Null ELSE selected \in Ids(List)
BadgesOnCards   == LET js == Filtered(kind, data, filters)
                   IN \A h \in Highlights : js # {} =>
                        \E j \in js : h \in HighlightBadges(js)[j]
PinsMatchForm   == draft = [from |-> form.from, to |-> form.to]

ViewConsistent == PageExists /\ SelectionListed /\ BadgesOnCards /\ PinsMatchForm
=============================================================================
