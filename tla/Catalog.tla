------------------------------- MODULE Catalog -------------------------------
(***************************************************************************)
(* The registry of what is served, catalog.py: load, which crawls the       *)
(* surfaces a configuration names and then adds its tables; and what the    *)
(* connections' threads do with the registry afterwards without a lock:     *)
(* load_all with _register_children, and get.  A source is a file, an HTTP  *)
(* source with the arrays its first page shows, or a child built from one   *)
(* of those arrays.  The registry is a dict: its sources in the order they  *)
(* came, one to a name.                                                     *)
(***************************************************************************)
EXTENDS Crawler

CONSTANTS Configurations,  \* what to discover and the tables named
          Clients          \* the threads that ask
Configured == [name : Seq(STRING), kind : {"file", "http"}, arrays : Seq(STRING)]
ASSUME ClientsAssumption == IsFiniteSet(Clients)
ASSUME ConfigurationsAssumption ==
    \A c \in Configurations :
        /\ c.discover \in Seq([at : {s.at : s \in ToSet(c.discover)}, prefix : Seq(STRING)])
        /\ \A i \in DOMAIN c.discover : IsSurface(c.discover[i].at)
        /\ c.tables \in Seq(Seq(Configured))

VARIABLES config, turn,    \* the configuration, and how far load has read it
          sources,         \* Catalog.sources, as a sequence
          discovered,      \* the names only the crawl gave
          cache,           \* what each HTTP source holds: nothing, the crawl's
                           \* table, its first page, or all of it
          client           \* what each thread is doing
vars == <<surface, phase, level, flying, heard, seen, asked, found, depth, early,
          lost, config, turn, sources, discovered, cache, client>>
servedVars == <<cache, client>>

NamesIn(registry) == {registry[i].name : i \in DOMAIN registry}
Source(name) == sources[CHOOSE i \in DOMAIN sources : sources[i].name = name]
Without(registry, names) == Those(registry, {s \in ToSet(registry) : s.name \notin names})
ChildName(source, array) == Append(source.name, array)

(* ---- load ---------------------------------------------------------------*)

(* add_source over a list: refused if a name is taken, or comes twice.      *)
AllNew(registry, added) ==
    /\ NamesIn(registry) \cap NamesIn(added) = {}
    /\ \A i, j \in DOMAIN added : added[i].name = added[j].name => i = j

(* The next surface is crawled. *)
StartCrawl ==
    /\ turn < Len(config.discover) /\ phase \in {"idle", "registered"}
    /\ Starts(config.discover[turn + 1].at)
    /\ turn' = turn + 1
    /\ UNCHANGED <<config, sources, discovered, servedVars>>

(* _discovered_sources: what the crawl collected, under the prefix, primed  *)
(* with its table where that is all there is.                               *)
Crawled ==
    LET prefix == config.discover[turn].prefix
    IN [i \in DOMAIN Collected |->
          [name |-> prefix \o Collected[i].name, kind |-> "http",
           arrays |-> Collected[i].arrays]]
RegisterDiscovered ==
    /\ phase = "done"
    /\ \E crawled \in {Crawled} :
           IF ~AllNew(sources, crawled)
           THEN phase' = "refused" /\ UNCHANGED <<sources, discovered, cache>>
           ELSE /\ phase' = "registered"
                /\ sources' = sources \o crawled
                /\ discovered' = discovered \cup NamesIn(crawled)
                /\ cache' = Joined(
                     [name \in NamesIn(crawled) |->
                        LET i == CHOOSE i \in DOMAIN crawled : crawled[i].name = name
                        IN IF Collected[i].primed THEN "crawled" ELSE "none"], cache)
    /\ UNCHANGED <<surface, level, flying, heard, seen, asked, found, depth, early,
                   lost, config, turn, client>>

(* add_named: a named table replaces a discovered one, once.                *)
AddNamed ==
    /\ turn >= Len(config.discover) /\ phase \in {"idle", "registered"}
    /\ turn < Len(config.discover) + Len(config.tables)
    /\ turn' = turn + 1
    /\ LET read == config.tables[turn - Len(config.discover) + 1]
           kept == Without(sources, NamesIn(read) \cap discovered)
       IN IF ~AllNew(kept, read)
          THEN phase' = "refused" /\ UNCHANGED <<sources, discovered, cache>>
          ELSE /\ phase' = "registered"
               /\ sources' = kept \o read /\ discovered' = discovered \ NamesIn(read)
               /\ cache' = [name \in NamesIn(kept \o read) |->
                              IF name \in NamesIn(read) THEN "none" ELSE cache[name]]
    /\ UNCHANGED <<surface, level, flying, heard, seen, asked, found, depth, early,
                   lost, config, client>>

Serving == phase = "registered" /\ turn = Len(config.discover) + Len(config.tables)

(* ---- what one source answers --------------------------------------------*)

(* Whether a source that must be asked answers: a child asks its parent.    *)
Asked(source) == IF source.kind = "child" THEN source.parent ELSE source.name
Fetches(source) == source.kind # "file" /\ cache[Asked(source)] = "none"
Succeeds(source, isLost) ==
    /\ isLost => Fetches(source) /\ lost < MaxLost
    /\ lost' = IF isLost THEN lost + 1 ELSE lost

(* schema(): the first page, unless something is held.                      *)
FirstPage(source, isLost) ==
    /\ Succeeds(source, isLost)
    /\ cache' = IF Fetches(source) /\ ~isLost THEN [cache EXCEPT ![Asked(source)] = "page"]
                ELSE cache
(* The arrays child_schemas answers with: none for a table the crawl handed *)
(* over, whose children were never built.                                   *)
Shown(source, held) ==
    IF source.kind = "http" /\ held[source.name] \in {"page", "whole"} THEN source.arrays
    ELSE <<>>

(* ---- load_all -----------------------------------------------------------*)

Idle == [at |-> "idle"]
List(t) ==
    /\ Serving /\ client[t] = Idle
    /\ client' = [client EXCEPT ![t] =
         [at |-> "reading", snapshot |-> sources, shaped |-> <<>>, of |-> 1,
          left |-> <<>>, added |-> <<>>, shown |-> {}, others |-> {}]]
    /\ UNCHANGED <<surface, phase, level, flying, heard, seen, asked, found, depth,
                   early, lost, config, turn, sources, discovered, cache>>

(* _safe_load, for each source of the snapshot; what fails has no columns.  *)
Shape(t) ==
    /\ client[t].at = "reading"
    /\ LET i == Len(client[t].shaped) + 1
           source == client[t].snapshot[i]
       IN IF i > Len(client[t].snapshot)
          THEN client' = [client EXCEPT ![t].at = "children"] /\ UNCHANGED <<cache, lost>>
          ELSE \E isLost \in {FALSE, TRUE} :
                 /\ FirstPage(source, isLost)
                 /\ client' = [client EXCEPT ![t].shaped = Append(@, ~isLost)]
    /\ UNCHANGED <<surface, phase, level, flying, heard, seen, asked, found, depth,
                   early, config, turn, sources, discovered>>

(* _register_children, one source at a time: a source that fails has none.  *)
AskForChildren(t) ==
    /\ client[t].at = "children" /\ client[t].of <= Len(client[t].snapshot)
    /\ \E isLost \in {FALSE, TRUE} :
         LET source == client[t].snapshot[client[t].of]
         IN /\ IF source.kind = "http" THEN FirstPage(source, isLost)
               ELSE ~isLost /\ UNCHANGED <<cache, lost>>
            /\ \E arrays \in {IF isLost THEN <<>> ELSE Shown(source, cache')} :
                 client' = [client EXCEPT
                   ![t].left = arrays, ![t].at = "testing",
                   ![t].shown = @ \cup {ChildName(source, a) : a \in ToSet(arrays)}]
    /\ UNCHANGED <<surface, phase, level, flying, heard, seen, asked, found, depth,
                   early, config, turn, sources, discovered>>

(* One of its arrays: a name already given wins.  The test and the          *)
(* registration are two steps, with no lock around them.                    *)
Offered(t) ==
    LET source == client[t].snapshot[client[t].of]
    IN [name |-> ChildName(source, Head(client[t].left)), kind |-> "child",
        parent |-> source.name]
NeverTaken(name) == FALSE          \* a mutant
IsTaken(name) == name \in NamesIn(sources)
TestName(t) ==
    /\ client[t].at = "testing"
    /\ client' =
         IF client[t].left = <<>>
         THEN [client EXCEPT ![t].at = "children", ![t].of = @ + 1]
         ELSE IF IsTaken(Offered(t).name) THEN [client EXCEPT ![t].left = Tail(@)]
         ELSE [client EXCEPT ![t].at = "registering"]
    /\ UNCHANGED <<surface, phase, level, flying, heard, seen, asked, found, depth,
                   early, lost, config, turn, sources, discovered, cache>>
Setting(registry, child) ==
    IF child.name \in NamesIn(registry)
    THEN [i \in DOMAIN registry |->
            IF registry[i].name = child.name THEN child ELSE registry[i]]
    ELSE Append(registry, child)
RegisterChild(t) ==
    /\ client[t].at = "registering"
    /\ sources' = Setting(sources, Offered(t))
    /\ client' = [u \in Clients |->
         IF u = t THEN [client[t] EXCEPT !.at = "testing", !.left = Tail(@),
                                         !.added = Append(@, Offered(t))]
         ELSE IF client[u].at \in {"reading", "children", "testing", "registering"}
         THEN [client[u] EXCEPT !.others = @ \cup {Offered(t).name}]
         ELSE client[u]]
    /\ UNCHANGED <<surface, phase, level, flying, heard, seen, asked, found, depth,
                   early, lost, config, turn, discovered, cache>>

(* The shapes, then those of the children this thread added.                *)
ListedBefore(t) == client[t].snapshot       \* a mutant: what was added is left out
Listed(t) == client[t].snapshot \o client[t].added
FinishList(t) ==
    /\ client[t].at = "children" /\ client[t].of > Len(client[t].snapshot)
    /\ client' = [client EXCEPT ![t] =
         [at |-> "listed", names |-> [i \in DOMAIN Listed(t) |-> Listed(t)[i].name],
          shown |-> client[t].shown, others |-> client[t].others, total |-> 0]]
    /\ UNCHANGED <<surface, phase, level, flying, heard, seen, asked, found, depth,
                   early, lost, config, turn, sources, discovered, cache>>

(* ---- get ----------------------------------------------------------------*)

(* A client asks for a name, one it was shown or one that is no table.      *)
Get(t, name) ==
    /\ Serving /\ client[t].at = "listed"
    /\ IF name \notin NamesIn(sources)
       THEN /\ client' = [client EXCEPT ![t].at = "missing", ![t].total = Len(sources)]
            /\ UNCHANGED <<cache, lost>>
       ELSE \E isLost \in {FALSE, TRUE} :
              LET source == Source(name)
                  holds == cache[Asked(source)]
                  reads == source.kind # "file" /\ holds \in {"none", "page"}
                  isThere == source.kind # "child" \/ holds # "crawled"
              IN /\ isLost => reads /\ lost < MaxLost
                 /\ lost' = IF isLost THEN lost + 1 ELSE lost
                 /\ cache' = IF reads /\ ~isLost
                             THEN [cache EXCEPT ![Asked(source)] = "whole"] ELSE cache
                 /\ client' = [client EXCEPT ![t] =
                      [at |-> "answered", name |-> name, names |-> client[t].names,
                       reply |-> IF isLost \/ ~isThere THEN "50001" ELSE "rows"]]
    /\ UNCHANGED <<surface, phase, level, flying, heard, seen, asked, found, depth,
                   early, config, turn, sources, discovered>>
(* The names it answers a miss with are read while others register: a dict  *)
(* that grew meanwhile is an error of its own.                              *)
NameWhatIsServed(t, name) ==
    /\ client[t].at = "missing"
    /\ client' = [client EXCEPT ![t] =
         [at |-> "answered", name |-> name, names |-> client[t].names,
          reply |-> IF Len(sources) = client[t].total THEN "208" ELSE "broken"]]
    /\ UNCHANGED <<surface, phase, level, flying, heard, seen, asked, found, depth,
                   early, lost, config, turn, sources, discovered, cache>>

(* A crawled table expires, and a background refresh reads it whole; a first *)
(* page expires.                                                            *)
Expire(name) ==
    /\ Serving /\ name \in DOMAIN cache
    /\ \/ cache[name] = "crawled" /\ cache' = [cache EXCEPT ![name] = "whole"]
       \/ cache[name] = "page" /\ lost < MaxLost /\ cache' = [cache EXCEPT ![name] = "none"]
    /\ UNCHANGED <<surface, phase, level, flying, heard, seen, asked, found, depth,
                   early, lost, config, turn, sources, discovered, client>>

Nameless == <<"no such table">>
NoSurface == [base |-> [host |-> Hosts[1], path |-> <<>>, slash |-> FALSE],
              maxRequests |-> 0, serves |-> <<>>]
Init ==
    /\ config \in Configurations
    /\ turn = 0 /\ sources = <<>> /\ discovered = {} /\ cache = <<>>
    /\ client = [t \in Clients |-> Idle]
    /\ phase = "idle" /\ surface = NoSurface /\ level = <<>> /\ flying = {}
    /\ heard = <<>> /\ seen = {} /\ asked = 0 /\ found = <<>>
    /\ depth = 0 /\ early = {} /\ lost = 0
Next ==
    \/ Crawl /\ UNCHANGED <<config, turn, sources, discovered, servedVars>>
    \/ StartCrawl \/ RegisterDiscovered \/ AddNamed
    \/ \E t \in Clients :
        \/ List(t) \/ Shape(t) \/ AskForChildren(t) \/ TestName(t) \/ RegisterChild(t)
        \/ FinishList(t)
        \/ \E name \in NamesIn(sources) \cup {Nameless} : Get(t, name)
        \/ NameWhatIsServed(t, Nameless)
    \/ \E name \in NamesIn(sources) : Expire(name)
Spec == Init /\ [][Next]_vars

(* ---- what must be true of the registry ----------------------------------*)

NamedTables == UNION {{s.name : s \in ToSet(config.tables[i])} : i \in DOMAIN config.tables}

(* A name a person gave is theirs: what the configuration names is never    *)
(* served by anything else, neither by what was discovered nor by an array  *)
(* that happens to make the same name, and a discovered table is never      *)
(* taken by a child (add_named, _register_children).                        *)
NamesWin ==
    /\ Serving => \A i \in DOMAIN config.tables : ToSet(config.tables[i]) \subseteq ToSet(sources)
    /\ \A name \in discovered : name \in NamesIn(sources) /\ Source(name).kind = "http"
    /\ Cardinality(NamesIn(sources)) = Len(sources)

(* A list names each source once, and of the arrays its sources showed      *)
(* leaves out only those another thread registered since it began; alone,   *)
(* it is in the order of the registry, which warm pairs it with.  What it   *)
(* names stays served, so asking for it is never answered 208 (load_all,    *)
(* _register_children, warm, get).                                          *)
ListsEveryTable ==
    \A t \in Clients :
        /\ client[t].at = "listed" =>
            LET names == client[t].names
            IN /\ Cardinality(ToSet(names)) = Len(names)
               /\ client[t].shown \subseteq ToSet(names) \cup client[t].others
               /\ client[t].others = {} => \A i \in DOMAIN names : sources[i].name = names[i]
        /\ client[t].at \in {"listed", "answered"} =>
            ToSet(client[t].names) \subseteq NamesIn(sources)
        /\ client[t].at = "answered" =>
            (client[t].name \in ToSet(client[t].names) => client[t].reply \in {"rows", "50001"})
=============================================================================
