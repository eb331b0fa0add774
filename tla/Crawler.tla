------------------------------- MODULE Crawler -------------------------------
(***************************************************************************)
(* Finding out what an API serves from its base URL alone: discover.py's    *)
(* Crawler, from run to _collect.  One thread claims URLs and decides what  *)
(* to ask next; the reads of a level go out together and are answered in    *)
(* any order.  A URL is a host, the words of its path and whether it ends   *)
(* in a slash.  A document is what the crawler tells apart: a map of links, *)
(* rows with links around them, a description of the surface, a rejection,  *)
(* or something no table can be read from; a read may also fail.            *)
(***************************************************************************)
EXTENDS Integers, Sequences, FiniteSets, SequencesExt, Functions

CONSTANTS Hosts, Words,  \* what URLs are made of, each in its order
          MaxDepth,      \* max_depth
          Concurrency,   \* concurrency
          MaxLost        \* how many reads may fail that need not
OnceEach(s) == s \in Seq(STRING) /\ \A i, j \in DOMAIN s : s[i] = s[j] => i = j
ASSUME NamesAssumption ==
    /\ OnceEach(Hosts) /\ OnceEach(Words) /\ Hosts # <<>>
    /\ {"api-docs", "openapi", "posts", "users"} \subseteq ToSet(Words)
ASSUME LimitsAssumption ==
    /\ MaxDepth \in Nat
    /\ Concurrency \in Nat \ {0} /\ MaxLost \in Nat

VARIABLES surface, phase,
          level,      \* the URLs of this level that were claimed, in order
          flying,     \* those of its reads under way, by their place
          heard,      \* what each URL asked was answered with
          seen,       \* the URLs claimed so far
          asked,      \* how many
          found,      \* the documents kept, by URL, each with its route
          depth,
          early,      \* ghost: the URLs claimed before the walk began
          lost
crawlVars == <<surface, phase, level, flying, heard, seen, asked, found, depth,
               early, lost>>

(* The elements of s that are in S, in their order: a function, where       *)
(* SelectSeq would do, so that the provers can read it.                     *)
Those(s, S) ==
    LET so[n \in 0..Len(s)] ==
          IF n = 0 THEN <<>>
          ELSE IF s[n] \in S THEN Append(so[n - 1], s[n]) ELSE so[n - 1]
    IN so[Len(s)]

(* g with what f holds put into it, as a dict is updated.                   *)
Joined(f, g) == [x \in DOMAIN f \cup DOMAIN g |-> IF x \in DOMAIN f THEN f[x] ELSE g[x]]

(* ---- URLs ---------------------------------------------------------------*)

Urls == [host : ToSet(Hosts), path : Seq(ToSet(Words)), slash : BOOLEAN]
Below(url, word) == [url EXCEPT !.path = Append(@, word), !.slash = FALSE]
Origin(url) == [url EXCEPT !.path = <<>>, !.slash = FALSE]

(* _normalise: a trailing slash is the same resource. *)
NormaliseNothing(url) == url       \* a mutant
Normalise(url) == [url EXCEPT !.slash = FALSE]
(* _within: the base's host, and the base's path or one below it.           *)
Within(url, base) == url.host = base.host /\ IsPrefix(base.path, url.path)
(* _worth_fetching: an address, not a template to fill in.                  *)
WorthFetching(url) == "{id}" \notin ToSet(url.path)
(* _is_record_url. *)
IsRecordUrl(url) == url.path # <<>> /\ Last(url.path) \in {"1", "2"}
Length(url) == 2 * Len(url.path) + (IF url.slash THEN 1 ELSE 0)

(* The order sorted() puts URLs in.                                         *)
Position(s, name) == CHOOSE i \in DOMAIN s : s[i] = name
Sooner(u, v) ==
    LET at(url, i) == IF i \in DOMAIN url.path THEN Position(Words, url.path[i]) ELSE 0
    IN \/ Position(Hosts, u.host) < Position(Hosts, v.host)
       \/ /\ u.host = v.host
          /\ \E i \in DOMAIN v.path :
               at(u, i) < at(v, i) /\ \A j \in 1..(i - 1) : at(u, j) = at(v, j)
       \/ u.host = v.host /\ u.path = v.path /\ ~u.slash /\ v.slash
Alphabetical(urls) ==
    [k \in 1..Cardinality(urls) |->
       CHOOSE u \in urls : Cardinality({v \in urls : Sooner(v, u)}) = k - 1]

(* ---- documents ----------------------------------------------------------*)

Documents == [kind : {"map", "rows", "description", "rejection", "text", "nothing"},
              links : Seq([to : Urls, navigation : BOOLEAN]), others : Nat,
              paged : BOOLEAN, arrays : Seq(STRING)]
IsSurface(s) == /\ s.base \in Urls /\ s.maxRequests \in Nat
                /\ DOMAIN s.serves \subseteq Urls
                /\ \A url \in DOMAIN s.serves : s.serves[url] \in Documents

Nothing == [kind |-> "nothing", links |-> <<>>, others |-> 0, paged |-> FALSE, arrays |-> <<>>]
At(url) == IF Normalise(url) \in DOMAIN surface.serves
           THEN surface.serves[Normalise(url)] ELSE Nothing

(* _is_index: a document most of whose members are links, most of them to   *)
(* the surface, the ways on from its page among them; its rows, if it has   *)
(* any, are not looked for.                                                 *)
IsIndex(document) ==
    LET links == Len(document.links)
        inside == Cardinality({i \in DOMAIN document.links :
                                 Within(document.links[i].to, surface.base)})
    IN /\ document.kind # "description"
       /\ links >= 2 /\ links * 10 >= (links + document.others) * 6
       /\ inside >= 2 /\ inside * 10 >= links * 6

(* _links_from: the links that lead to another resource of the surface.     *)
(* What a description names are keys of it, not links.                      *)
Leads(link) == ~link.navigation /\ WorthFetching(link.to) /\ Within(link.to, surface.base)
LinksFrom(document) ==
    LET onward == Those(document.links, {l \in ToSet(document.links) : Leads(l)})
    IN IF document.kind = "description" THEN <<>>
       ELSE [i \in DOMAIN onward |-> onward[i].to]

(* _paths_from_description: what it names that can be asked for.            *)
PathsFrom(document) ==
    LET named == Those(document.links,
                       {l \in ToSet(document.links) : WorthFetching(l.to)})
    IN IF document.kind # "description" THEN <<>>
       ELSE [i \in DOMAIN named |-> named[i].to]

(* ---- asking -------------------------------------------------------------*)

(* _claim, for each URL of a level in turn. *)
ClaimOf(url, so, most) ==
    IF Normalise(url) \in so.seen \/ so.asked >= most THEN so
    ELSE [seen |-> so.seen \cup {Normalise(url)}, asked |-> so.asked + 1,
          level |-> Append(so.level, url)]
ClaimAll(urls, claimed, count, most) ==
    LET so[n \in 0..Len(urls)] ==
          IF n = 0 THEN [seen |-> claimed, asked |-> count, level |-> <<>>]
          ELSE ClaimOf(urls[n], so[n - 1], most)
    IN so[Len(urls)]

(* _describe's two waves of conventional locations, _guess's names, and     *)
(* _unvisited: what is new of the links, collections before records.        *)
DescriptionWave(n, base) ==
    LET name == IF n = 1 THEN "openapi" ELSE "api-docs"
        roots == IF base.path = <<>> THEN <<base>> ELSE <<base, Origin(base)>>
    IN [i \in DOMAIN roots |-> Below(roots[i], name)]
Guesses == <<Below(surface.base, "users"), Below(surface.base, "posts")>>
Unvisited(urls) ==
    LET fresh(i) == /\ Normalise(urls[i]) \notin seen
                    /\ \A j \in 1..(i - 1) : Normalise(urls[j]) # Normalise(urls[i])
        kept == {i \in DOMAIN urls : fresh(i)}
        weight(i) == (IF IsRecordUrl(urls[i]) THEN 100 ELSE 0) + Length(urls[i])
        before(i, j) == weight(i) < weight(j) \/ (weight(i) = weight(j) /\ i < j)
    IN [k \in 1..Cardinality(kept) |->
          urls[CHOOSE i \in kept : Cardinality({j \in kept : before(j, i)}) = k - 1]]

(* ---- the actions --------------------------------------------------------*)

AllHeard == flying = {} /\ \A i \in DOMAIN level : level[i] \in DOMAIN heard
Asks(urls, next) ==
    /\ \E claimed \in {ClaimAll(urls, seen, asked, surface.maxRequests)} :
         level' = claimed.level /\ seen' = claimed.seen /\ asked' = claimed.asked
    /\ flying' = {} /\ phase' = next

(* _read_many: the pool takes the reads in order, a few at a time.          *)
Send ==
    /\ phase # "idle" /\ Cardinality(flying) < Concurrency
    /\ \E i \in DOMAIN level :
         /\ i \notin flying /\ level[i] \notin DOMAIN heard
         /\ \A j \in 1..(i - 1) : j \in flying \/ level[j] \in DOMAIN heard
         /\ flying' = flying \cup {i}
    /\ UNCHANGED <<surface, phase, level, heard, seen, asked, found, depth, early, lost>>

(* _read: what is there, or nothing, of which the reason is recorded.       *)
Hear ==
    \E i \in flying, isLost \in {FALSE, TRUE} :
        /\ isLost => lost < MaxLost /\ At(level[i]) # Nothing
        /\ lost' = IF isLost THEN lost + 1 ELSE lost
        /\ heard' = Joined([url \in {level[i]} |-> IF isLost THEN Nothing ELSE At(url)],
                           heard)
        /\ flying' = flying \ {i}
        /\ UNCHANGED <<surface, phase, level, seen, asked, found, depth, early>>

(* The answers of a level, in the order they were asked for.                *)
Answers == Those(level, {url \in ToSet(level) : heard[url] # Nothing})
Keep(urls, route) ==
    Joined([url \in ToSet(urls) |-> [document |-> heard[url], route |-> route]], found)

(* _describe: the first of a wave's documents that names paths here; its    *)
(* paths on the surface, or all of them where it lies on the surface.       *)
Named(url) ==
    LET paths == PathsFrom(heard[url])
        within == Those(paths, {p \in ToSet(paths) : Within(p, surface.base)})
    IN IF within # <<>> THEN within
       ELSE IF Within(url, surface.base) THEN paths ELSE <<>>
Describe ==
    /\ phase \in {"describe 1", "describe 2"} /\ AllHeard
    /\ \E naming \in {Those(level, {url \in ToSet(Answers) : Named(url) # <<>>})} :
         IF naming # <<>> THEN Asks(Named(naming[1]), "described") /\ UNCHANGED early
         ELSE IF phase = "describe 1"
              THEN Asks(DescriptionWave(2, surface.base), "describe 2") /\ UNCHANGED early
              ELSE Asks(<<surface.base>>, "walk") /\ early' = seen
    /\ UNCHANGED <<surface, heard, found, depth, lost>>

(* run, once what a description named has been read. *)
TakeDescribed ==
    /\ phase = "described" /\ AllHeard
    /\ found' = Keep(Answers, "description")
    /\ Asks(<<surface.base>>, "walk")
    /\ early' = seen
    /\ UNCHANGED <<surface, heard, depth, lost>>

(* run: one level of the walk.  An index is followed and is no table.       *)
Route == CASE depth = 0 -> "base" [] depth = 1 -> "index" [] OTHER -> "link"
Tables(urls) == Those(urls, {url \in ToSet(urls) : ~IsIndex(heard[url])})
HarvestOfLast(urls) ==             \* a mutant: harvested is emptied for each document
    IF urls = <<>> THEN <<>> ELSE LinksFrom(heard[Last(urls)])
Harvest(urls) == FlattenSeq([i \in DOMAIN urls |-> LinksFrom(heard[urls[i]])])
Walk ==
    /\ phase = "walk" /\ AllHeard
    /\ found' = Keep(Tables(Answers), Route)
    /\ depth' = depth + 1
    /\ \E frontier \in {Unvisited(Harvest(Answers))} :
         IF frontier # <<>> /\ depth + 1 <= MaxDepth THEN Asks(frontier, "walk")
         ELSE IF DOMAIN found' = {} THEN Asks(Guesses, "guess")
         ELSE phase' = "done" /\ UNCHANGED <<level, seen, asked, flying>>
    /\ UNCHANGED <<surface, heard, early, lost>>

(* _guess, the last resort. *)
TakeGuesses ==
    /\ phase = "guess" /\ AllHeard
    /\ found' = Keep(Tables(Answers), "guess")
    /\ phase' = "done"
    /\ UNCHANGED <<surface, level, flying, heard, seen, asked, depth, early, lost>>

(* ---- what is made of it -------------------------------------------------*)

IsTable(document) == document.kind \in {"map", "rows", "description"}

(* _name_for: the words below the base, numbered where they are taken.      *)
Numbers == <<"2", "3", "4">>
NameFor(url, taken) ==
    LET trailing == IF IsPrefix(surface.base.path, url.path)
                    THEN SubSeq(url.path, Len(surface.base.path) + 1, Len(url.path))
                    ELSE url.path
        parts == IF trailing # <<>> THEN trailing
                 ELSE IF url.path # <<>> THEN url.path ELSE <<url.host>>
        stem == IF parts[1] \in {"1", "2"} THEN <<"t">> \o parts ELSE parts
        tried == <<stem>> \o [k \in DOMAIN Numbers |-> Append(stem, Numbers[k])]
    IN tried[SelectInSeq(tried, LAMBDA name : name \notin taken)]

(* _collect: a resource for every document that holds a table, by URL.      *)
Collected ==
    LET urls == Alphabetical({url \in DOMAIN found : IsTable(found[url].document)})
        name[k \in DOMAIN urls] == NameFor(urls[k], {name[j] : j \in 1..(k - 1)})
    IN [k \in DOMAIN urls |->
          [name |-> name[k], url |-> urls[k], route |-> found[urls[k]].route,
           primed |-> ~found[urls[k]].document.paged,
           arrays |-> found[urls[k]].document.arrays]]

(* Crawler.__init__ on a surface, as run begins. *)
Starts(there) ==
    /\ surface' = there /\ phase' = "describe 1"
    /\ \E claimed \in {ClaimAll(DescriptionWave(1, there.base), {}, 0, there.maxRequests)} :
         level' = claimed.level /\ seen' = claimed.seen /\ asked' = claimed.asked
    /\ flying' = {} /\ heard' = <<>> /\ found' = <<>>
    /\ depth' = 0 /\ early' = {} /\ UNCHANGED lost

Crawl == Send \/ Hear \/ Describe \/ TakeDescribed \/ Walk \/ TakeGuesses

(* ---- what must be true of a crawl ---------------------------------------*)

(* A resource is asked for once, however it is written, and no more often   *)
(* than the budget allows, whichever of the routes leads to it; and nothing *)
(* outside the base is asked for but the conventional places of a           *)
(* description and what a description under the base names (_claim,         *)
(* _normalise, _within).                                                    *)
AsksOnceOnTheSurface ==
    /\ \A u, v \in DOMAIN heard : u.host = v.host /\ u.path = v.path => u = v
    /\ Cardinality(DOMAIN heard) <= surface.maxRequests
    /\ \A u \in DOMAIN heard :
         \/ Within(u, surface.base)
         \/ \E n \in 1..2 : u \in ToSet(DescriptionWave(n, surface.base))
         \/ \E d \in DOMAIN heard :
              Within(d, surface.base) /\ u \in ToSet(PathsFrom(heard[d]))

(* What the walk can reach: the base, and from what it read itself the      *)
(* links of the surface, a level at a time.                                 *)
Reachable ==
    LET within[n \in 0..MaxDepth] ==
          IF n = 0 THEN {Normalise(surface.base)}
          ELSE LET read == {u \in DOMAIN heard : Normalise(u) \in within[n - 1] \ early}
               IN within[n - 1]
                    \cup {Normalise(l) : l \in UNION {ToSet(LinksFrom(heard[u])) : u \in read}}
    IN within[MaxDepth]

(* A crawl that ends with requests to spare has asked for everything        *)
(* reachable from the base within its depth, and kept every table it read:  *)
(* the answers' order, a failed read and what a description claimed first   *)
(* lose no more than themselves (run, _unvisited, _links_from).             *)
ReachableIsAsked ==
    phase = "done" /\ asked < surface.maxRequests =>
        /\ Reachable \subseteq seen
        /\ \A u \in DOMAIN heard :
             (IsTable(heard[u]) /\ ~IsIndex(heard[u])
                /\ \A n \in 1..2 : u \notin ToSet(DescriptionWave(n, surface.base)))
             => \E r \in ToSet(Collected) : r.url = u
=============================================================================
