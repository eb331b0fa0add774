------------------------------ MODULE HttpPaging ------------------------------
(***************************************************************************)
(* One full read of each of several HttpSources at once: the mirrors raced *)
(* for the first page (_race), the pages followed one by one until their   *)
(* links show a stride (_read_pages), the predicted pages read in parallel *)
(* batches (_read_ahead), and the gate that bounds the requests in flight  *)
(* to a host (_gate, fetch).                                               *)
(*                                                                         *)
(* A page is its position in the collection, from 1; a URL is the page it  *)
(* asks for.  The pages of a collection have as many rows each except the  *)
(* last, which may be short.  What is cached once the read ends is in      *)
(* HttpSource.                                                             *)
(***************************************************************************)
EXTENDS Naturals, Sequences, FiniteSets, Functions

CONSTANTS
    Sources,        \* the tables being read, each by a thread of its own
    Hosts,          \* the servers
    Urls,           \* Urls[s]: the servers that mirror the first page of s
    Apis,           \* Apis[s]: the APIs that may be behind s
    Permits,        \* MAX_PARALLEL_PER_HOST
    PageWorkers,    \* page_workers
    MaxPages, MaxRows,  \* max_pages, max_rows
    PageRows,       \* bound: rows of a page
    MaxFaults       \* bound: requests that fail for reasons of their own

NoPage  == 0
NoHost  == "none"
Links   == {"strided", "opaque", "echoed"}
Beyond  == {"refused", "empty", "repeated", "odd"}
Totals  == {"none", "honest"}

(* An API: how many pages it has, the rows of each and of the last; whether*)
(* its next links show a stride, show none, or are missing and its pages   *)
(* echo their position (Paging); what it answers past its end; and whether *)
(* it declares a total.                                                    *)
Api == [pages : Nat \ {0}, rows : 1 .. PageRows, last : 1 .. PageRows,
        link : Links, past : Beyond, total : Totals]

ASSUME PagingAssumption ==
    /\ Urls \in [Sources -> (SUBSET Hosts) \ {{}}]
    /\ NoHost \notin Hosts
    /\ Permits \in Nat \ {0} /\ PageWorkers \in Nat \ {0}
    /\ MaxPages \in Nat \ {0} /\ MaxRows \in Nat \ {0}
    /\ PageRows \in Nat \ {0} /\ MaxFaults \in Nat
    /\ \A s \in Sources : \A a \in Apis[s] :
         a \in Api /\ a.last <= a.rows

VARIABLES
    api,            \* the API behind each source
    stage,          \* "race", "serial", "ahead", "table" or "error"
    race,           \* the request each mirror was sent
    host,           \* the mirror whose answer was taken
    read,           \* the pages whose rows are in `records`, in order
    following,      \* the next page's URL, or NoPage
    calls,          \* the page requests not yet looked at, in order asked
    warned,         \* whether the log says that more was available
    free,           \* permits left at each host's gate
    faults,         \* history: failures so far
    missed          \* history: a predicted page that exists failed

vars == <<api, stage, race, host, read, following, calls, warned, free,
          faults, missed>>

Asked   == {"waiting", "open"}
Closed  == {"answered", "failed", "odd"}
Ended   == {"table", "error"}

TypeOK ==
    /\ \A s \in Sources : api[s] \in Apis[s]
    /\ stage \in [Sources -> {"race", "serial", "ahead"} \cup Ended]
    /\ \A s \in Sources :
         race[s] \in [Urls[s] -> Asked \cup Closed \cup {"cancelled"}]
    /\ host \in [Sources -> Hosts \cup {NoHost}]
    /\ read \in [Sources -> Seq(Nat \ {0})]
    /\ following \in [Sources -> Nat]
    /\ calls \in [Sources -> Seq([page : Nat \ {0}, at : Asked \cup Closed])]
    /\ warned \in [Sources -> BOOLEAN]
    /\ free \in [Hosts -> 0 .. Permits]
    /\ faults \in 0 .. MaxFaults
    /\ missed \in [Sources -> BOOLEAN]

Init ==
    /\ api \in {a \in [Sources -> UNION Range(Apis)] :
                    \A s \in Sources : a[s] \in Apis[s]}
    /\ stage = [s \in Sources |-> "race"]
    /\ race = [s \in Sources |-> [h \in Urls[s] |-> "waiting"]]
    /\ host = [s \in Sources |-> NoHost]
    /\ read = [s \in Sources |-> <<>>]
    /\ following = [s \in Sources |-> NoPage]
    /\ calls = [s \in Sources |-> <<>>]
    /\ warned = [s \in Sources |-> FALSE]
    /\ free = [h \in Hosts |-> Permits]
    /\ faults = 0
    /\ missed = [s \in Sources |-> FALSE]

-------------------------------------------------------------------------------
(* The collection and its pages.                                           *)

Exists(s, page) == page <= api[s].pages

Rows(s, pages) ==
    IF pages = <<>> THEN 0
    ELSE (Len(pages) - 1) * api[s].rows
         + (IF pages[Len(pages)] = api[s].pages
            THEN api[s].last ELSE api[s].rows)

AllRows(s) == (api[s].pages - 1) * api[s].rows + api[s].last

(* What the API itself makes of a request for a page, past its end too.    *)
Natural(s, page) ==
    IF Exists(s, page) THEN "answered"
    ELSE CASE api[s].past = "refused" -> "failed"
           [] api[s].past = "odd"     -> "odd"
           [] OTHER                   -> "answered"

(* The rows of an answered page: NoPage when there are none.               *)
Content(s, page) ==
    IF Exists(s, page) THEN page
    ELSE IF api[s].past = "repeated" THEN api[s].pages ELSE NoPage

(* The link a page offers, or the position it echoes moved on by one page. *)
Follow(s, page) ==
    IF api[s].link = "echoed" \/ page < api[s].pages THEN page + 1 ELSE NoPage

Strided(s) == api[s].link # "opaque"

(* How many more pages the bound and the declared total leave room for.    *)
Ceil(a, b) == (a + b - 1) \div b

Room(s) ==
    LET bound == MaxPages - Len(read[s])
        rows  == Rows(s, read[s])
        first == Rows(s, <<1>>)
        left  == Ceil(IF AllRows(s) > rows THEN AllRows(s) - rows ELSE 0, first)
    IN  IF api[s].total = "honest" /\ left < bound THEN left ELSE bound

-------------------------------------------------------------------------------
(* Requests, and the gate they wait at.                                    *)

Acquire(h) == free[h] > 0 /\ free' = [free EXCEPT ![h] = @ - 1]
Release(h) == free' = [free EXCEPT ![h] = @ + 1]

OpenMirror(s, h) ==
    /\ race[s][h] = "waiting"
    /\ Acquire(h)
    /\ race' = [race EXCEPT ![s][h] = "open"]
    /\ UNCHANGED <<api, stage, host, read, following, calls, warned, faults,
                   missed>>

(* A mirror answers the first page, fails, or answers what is not JSON.    *)
CloseMirror(s, h) ==
    /\ race[s][h] = "open"
    /\ Release(h)
    /\ \/ race' = [race EXCEPT ![s][h] = "answered"] /\ UNCHANGED faults
       \/ /\ faults < MaxFaults /\ faults' = faults + 1
          /\ \E bad \in {"failed", "odd"} : race' = [race EXCEPT ![s][h] = bad]
    /\ UNCHANGED <<api, stage, host, read, following, calls, warned, missed>>

OpenPage(s, i) ==
    /\ i \in DOMAIN calls[s] /\ calls[s][i].at = "waiting"
    /\ Acquire(host[s])
    /\ calls' = [calls EXCEPT ![s][i].at = "open"]
    /\ UNCHANGED <<api, stage, race, host, read, following, warned, faults,
                   missed>>

ClosePage(s, i) ==
    /\ i \in DOMAIN calls[s] /\ calls[s][i].at = "open"
    /\ Release(host[s])
    /\ \/ /\ calls' = [calls EXCEPT ![s][i].at = Natural(s, calls[s][i].page)]
          /\ UNCHANGED <<faults, missed>>
       \/ /\ faults < MaxFaults /\ faults' = faults + 1
          /\ calls' = [calls EXCEPT ![s][i].at = "failed"]
          /\ missed' = [missed EXCEPT ![s] =
                @ \/ (stage[s] = "ahead" /\ Exists(s, calls[s][i].page))]
    /\ UNCHANGED <<api, stage, race, host, read, following, warned>>

-------------------------------------------------------------------------------
(* The race for the first page.                                            *)

Becomes(s, next) == stage' = [stage EXCEPT ![s] = next]

(* The first mirror to answer gives page one and the links that follow.    *)
(* The others are not waited on: a request not yet started is cancelled,   *)
(* one that is waiting or open goes on and keeps what it holds.            *)
Win(s, h) ==
    /\ stage[s] = "race" /\ race[s][h] = "answered"
    /\ Becomes(s, "serial")
    /\ \E unstarted \in SUBSET {g \in Urls[s] : race[s][g] = "waiting"} :
         race' = [race EXCEPT ![s] =
             [g \in Urls[s] |-> IF g \in unstarted THEN "cancelled" ELSE @[g]]]
    /\ host' = [host EXCEPT ![s] = h]
    /\ read' = [read EXCEPT ![s] = <<1>>]
    /\ following' = [following EXCEPT ![s] = Follow(s, 1)]
    /\ UNCHANGED <<api, calls, warned, free, faults, missed>>

(* The answer taken is decoded after the race is over.                     *)
WinUnreadable(s, h) ==
    /\ stage[s] = "race" /\ race[s][h] = "odd"
    /\ Becomes(s, "error")
    /\ UNCHANGED <<api, race, host, read, following, calls, warned, free,
                   faults, missed>>

EveryMirrorFailed(s) ==
    /\ stage[s] = "race"
    /\ \A h \in Urls[s] : race[s][h] = "failed"
    /\ Becomes(s, "error")
    /\ UNCHANGED <<api, race, host, read, following, calls, warned, free,
                   faults, missed>>

-------------------------------------------------------------------------------
(* Following the pages.                                                    *)

Idle(s) == stage[s] \in {"serial", "ahead"} /\ calls[s] = <<>>
More(s) ==
    /\ following[s] # NoPage
    /\ Len(read[s]) < MaxPages
    /\ Rows(s, read[s]) < MaxRows

Answered(s) ==
    /\ calls[s] # <<>>
    /\ \A i \in DOMAIN calls[s] : calls[s][i].at \in Closed

(* The slip of warning of nothing.                                         *)
FinishSilently(s, pages, more) ==
    /\ Becomes(s, IF Rows(s, pages) > MaxRows THEN "error" ELSE "table")
    /\ read' = [read EXCEPT ![s] = pages]
    /\ UNCHANGED <<warned, following>>

(* _fetch after its pages: a warning when some were left, and a refusal of *)
(* more rows than are allowed.                                             *)
Finish(s, pages, more) ==
    /\ Becomes(s, IF Rows(s, pages) > MaxRows THEN "error" ELSE "table")
    /\ warned' = [warned EXCEPT ![s] = more]
    /\ read' = [read EXCEPT ![s] = pages]
    /\ UNCHANGED following

GoOn(s, pages, next, mode) ==
    /\ Becomes(s, mode)
    /\ read' = [read EXCEPT ![s] = pages]
    /\ following' = [following EXCEPT ![s] = next]
    /\ UNCHANGED warned

Fail(s) == Becomes(s, "error") /\ UNCHANGED <<read, following, warned>>

Ask(s, pages) ==
    calls' = [calls EXCEPT ![s] = [i \in DOMAIN pages |->
                                     [page |-> pages[i], at |-> "waiting"]]]

StopFollowing(s) ==
    /\ Idle(s) /\ ~More(s)
    /\ Finish(s, read[s], following[s] # NoPage)
    /\ UNCHANGED <<api, race, host, calls, free, faults, missed>>

AskNext(s) ==
    /\ Idle(s) /\ stage[s] = "serial" /\ More(s)
    /\ Ask(s, <<following[s]>>)
    /\ UNCHANGED <<api, stage, race, host, read, following, warned, free,
                   faults, missed>>

(* The slip of asking again for a page that failed.                        *)
TakePageRetrying(s) ==
    /\ stage[s] = "serial" /\ Answered(s)
    /\ LET asked == calls[s][1]
           page  == Content(s, asked.page)
           next  == Follow(s, asked.page)
           pages == Append(read[s], page)
       IN  IF asked.at # "answered" THEN GoOn(s, read[s], following[s], "serial")
           ELSE IF page \in {NoPage, read[s][Len(read[s])]}
             THEN Finish(s, read[s], FALSE)
           ELSE IF next = NoPage THEN Finish(s, pages, FALSE)
           ELSE GoOn(s, pages, next, IF Strided(s) THEN "ahead" ELSE "serial")
    /\ calls' = [calls EXCEPT ![s] = <<>>]
    /\ UNCHANGED <<api, race, host, free, faults, missed>>

(* One page of the serial part: an error is the read's, an empty or a      *)
(* repeated page its end; the link it gives may show the stride.           *)
TakePage(s) ==
    /\ stage[s] = "serial" /\ Answered(s)
    /\ LET asked == calls[s][1]
           page  == Content(s, asked.page)
           next  == Follow(s, asked.page)
           pages == Append(read[s], page)
       IN  IF asked.at # "answered" THEN Fail(s)
           ELSE IF page \in {NoPage, read[s][Len(read[s])]}
             THEN Finish(s, read[s], FALSE)
           ELSE IF next = NoPage THEN Finish(s, pages, FALSE)
           ELSE GoOn(s, pages, next, IF Strided(s) THEN "ahead" ELSE "serial")
    /\ calls' = [calls EXCEPT ![s] = <<>>]
    /\ UNCHANGED <<api, race, host, free, faults, missed>>

(* One batch of predicted pages, all asked for at once.                    *)
AskAhead(s) ==
    /\ Idle(s) /\ stage[s] = "ahead" /\ More(s)
    /\ LET n == IF Room(s) < PageWorkers THEN Room(s) ELSE PageWorkers
       IN  IF n = 0
             THEN Finish(s, read[s], FALSE) /\ UNCHANGED calls
             ELSE /\ Ask(s, [i \in 1 .. n |-> following[s] + i - 1])
                  /\ UNCHANGED <<stage, read, following, warned>>
    /\ UNCHANGED <<api, race, host, free, faults, missed>>

(* How many answers of a batch are taken: up to the first that is empty,   *)
(* failed or repeats the one before it, or that offers nothing further.    *)
Page(s, i) ==
    IF calls[s][i].at = "failed" THEN NoPage ELSE Content(s, calls[s][i].page)
Before(s, i) == IF i = 1 THEN read[s][Len(read[s])] ELSE Page(s, i - 1)

New(s, i) == Page(s, i) \notin {NoPage, Before(s, i)}

Taken(s) ==
    CHOOSE n \in 0 .. Len(calls[s]) :
        /\ \A i \in 1 .. n : New(s, i)
        /\ \A i \in 1 .. n - 1 : Follow(s, calls[s][i].page) # NoPage
        /\ \/ n = Len(calls[s])
           \/ ~New(s, n + 1)
           \/ n > 0 /\ Follow(s, calls[s][n].page) = NoPage

(* The slip of reading ahead as loudly as page by page.                    *)
TakeBatchLoudly(s) ==
    /\ stage[s] = "ahead" /\ Answered(s)
    /\ LET n     == Taken(s)
           len   == Len(calls[s])
           pages == read[s] \o [i \in 1 .. n |-> Page(s, i)]
           ended == n < len \/ Follow(s, calls[s][n].page) = NoPage
       IN  IF \E i \in DOMAIN calls[s] : calls[s][i].at # "answered" THEN Fail(s)
           ELSE IF ended THEN Finish(s, pages, FALSE)
           ELSE GoOn(s, pages, following[s] + len, "ahead")
    /\ calls' = [calls EXCEPT ![s] = <<>>]
    /\ UNCHANGED <<api, race, host, free, faults, missed>>

TakeBatch(s) ==
    /\ stage[s] = "ahead" /\ Answered(s)
    /\ LET n     == Taken(s)
           len   == Len(calls[s])
           pages == read[s] \o [i \in 1 .. n |-> Page(s, i)]
           ended == n < len \/ Follow(s, calls[s][n].page) = NoPage
       IN  IF \E i \in DOMAIN calls[s] : calls[s][i].at = "odd" THEN Fail(s)
           ELSE IF ended THEN Finish(s, pages, FALSE)
           ELSE GoOn(s, pages, following[s] + len, "ahead")
    /\ calls' = [calls EXCEPT ![s] = <<>>]
    /\ UNCHANGED <<api, race, host, free, faults, missed>>

-------------------------------------------------------------------------------
Network ==
    \E s \in Sources :
        \/ \E h \in Urls[s] : OpenMirror(s, h) \/ CloseMirror(s, h)
        \/ \E i \in DOMAIN calls[s] : OpenPage(s, i) \/ ClosePage(s, i)

Reader(s) ==
    \/ \E h \in Urls[s] : Win(s, h) \/ WinUnreadable(s, h)
    \/ EveryMirrorFailed(s)
    \/ StopFollowing(s) \/ AskNext(s) \/ TakePage(s)
    \/ AskAhead(s) \/ TakeBatch(s)

(* Every read has ended and no request is left.                            *)
AllEnded ==
    /\ \A s \in Sources : stage[s] \in Ended
    /\ \A s \in Sources, h \in Hosts : h \in Urls[s] => race[s][h] \notin Asked

Rest == AllEnded /\ UNCHANGED vars

Next == Network \/ (\E s \in Sources : Reader(s)) \/ Rest

Spec == Init /\ [][Next]_vars

(* A thread runs on, an open request ends by its timeout at the latest, and*)
(* a semaphore wakes a waiter.                                             *)
FairSpec ==
    /\ Spec
    /\ \A s \in Sources :
         /\ WF_vars(Reader(s))
         /\ \A h \in Urls[s] :
              WF_vars(OpenMirror(s, h)) /\ WF_vars(CloseMirror(s, h))
         /\ \A i \in 1 .. PageWorkers :
              WF_vars(OpenPage(s, i)) /\ WF_vars(ClosePage(s, i))

-------------------------------------------------------------------------------
(* Properties.                                                             *)

(* Without a failure a collection within the bounds is read: speculation   *)
(* past its end costs it nothing, unless the answer there is odd, or is a  *)
(* refusal of the second page of a collection of one that has no links.    *)
SpeculationIsHarmless ==
    \A s \in Sources : stage[s] = "error" =>
        \/ faults > 0
        \/ AllRows(s) > MaxRows
        \/ api[s].past = "odd"
        \/ api[s].pages = 1 /\ api[s].link = "echoed"
              /\ api[s].past = "refused"

(* The read is a read of the collection: in order, and whole when it says  *)
(* so, a predicted page that failed apart.                                 *)
Outcome(s) ==
    CASE stage[s] = "error" -> "failed"
      [] stage[s] = "table" -> IF warned[s] \/ missed[s] THEN "part" ELSE "whole"
      [] OTHER              -> "reading"

Abstract == INSTANCE CollectionRead WITH
    Collections <- {a.pages : a \in UNION Range(Apis)},
    size <- [s \in Sources |-> api[s].pages],
    table <- read,
    outcome <- [s \in Sources |-> Outcome(s)]

ReadsTheCollection == Abstract!Spec

(* Every read ends, in a table or in an error, however the gate is shared. *)
EveryReadEnds == \A s \in Sources : <>(stage[s] \in Ended)
===============================================================================
