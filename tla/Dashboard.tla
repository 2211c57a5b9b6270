------------------------------ MODULE Dashboard ------------------------------
(***************************************************************************)
(* The web dashboard.  Its paged lists: routes/_authenticated/files and    *)
(* jobs.tsx over listFiles and listSyncJobs, which select a page by LIMIT  *)
(* and OFFSET, newest row first, while uploads and pushes add rows.  Its   *)
(* statistics: dashboard.tsx over getDashboardStats, whose selects follow  *)
(* each other while rows are added.  The pages share react-query's cache   *)
(* (external): an entry for each list and page number and for the          *)
(* statistics, shown at once when there is one and fetched again whenever  *)
(* it is opened, unless a fetch of it is under way already.                *)
(*                                                                         *)
(* Abstracted: a row is its rank by age (no two rows have one time stamp), *)
(* nothing removes one; the totals over files joined with their jobs are   *)
(* the number of rows joined; all jobs are of the last day; what the chart *)
(* draws is left out.                                                      *)
(***************************************************************************)
EXTENDS Integers, FiniteSets

CONSTANTS PageSize,  \* 20
          RecentLimit,  \* 10: jobs on the statistics page
          MaxRows,   \* bound: rows of a table
          MaxClicks  \* bound: what the visitor does

ASSUME PagesAssumption == /\ PageSize \in Nat \ {0} /\ RecentLimit \in Nat
                          /\ MaxRows \in Nat /\ PageSize < MaxRows
                          /\ MaxClicks \in Nat

VARIABLES count,   \* count[t]: rows of table t; row r was the r-th to be added
          tab,     \* the list that is open
          pageNo,  \* the state page of its component
          query,   \* query[t][p]: the cache entry of key [t, p]
          walk,    \* history: the visitor's way from the first page on
          stats,   \* the cache entry of the statistics
          clicks

dashboardVars == <<count, tab, pageNo, query, walk, stats, clicks>>

Lists == {"files", "jobs"}
PageNos == 1 .. MaxRows \div PageSize + 1
NotFetched == [known |-> FALSE, data |-> {}, fetch |-> "no", got |-> {}]
(* from: the rows there were when the first page was opened; seen: what    *)
(* fetches have put on the screen since; patient: each fetch was awaited.  *)
NoWalk == [from |-> 0, seen |-> {}, patient |-> FALSE]

(* jobs: the rows the totals are over.                                     *)
NoTotals == [jobs |-> 0, active |-> 0, recent |-> {}]
NoStats == [known |-> FALSE, data |-> NoTotals, fetch |-> "no", got |-> NoTotals,
            failed |-> FALSE]

(* Every job is of a file, and every file has one.                         *)
DashboardInit ==
  /\ count \in [Lists -> {0, 1, PageSize + 1}]
  /\ count.files <= count.jobs /\ (count.files = 0 => count.jobs = 0)
  /\ stats = NoStats
  /\ tab = "none" /\ pageNo = 1
  /\ query = [t \in Lists |-> [p \in PageNos |-> NotFetched]]
  /\ walk = NoWalk /\ clicks = 0

-----------------------------------------------------------------------------
(* The tables.                                                             *)

Added(lists) ==
  /\ \A t \in lists : count[t] < MaxRows
  /\ count' = [t \in Lists |-> IF t \in lists THEN count[t] + 1 ELSE count[t]]
  /\ UNCHANGED <<tab, pageNo, query, walk, stats, clicks>>

(* commit.ts and upload.ts insert a job with each version, of a file that  *)
(* is there or that they insert too.                                       *)
NewVersion == (count.files > 0 /\ Added({"jobs"})) \/ Added(Lists)

(* orderBy desc, limit, offset.                                            *)
OffsetPage(t, p) == {r \in 1 .. count[t] : count[t] - p * PageSize < r
                                        /\ r <= count[t] - (p - 1) * PageSize}

-----------------------------------------------------------------------------
(* The cache.                                                              *)

(* Mutant: a page in the cache is taken as it is.                          *)
AskedIfUnknown(t, p) ==
  [query EXCEPT ![t][p].fetch = IF @ = "no" /\ ~query[t][p].known THEN "asked" ELSE @]

(* A page that is opened asks for its rows, unless that is under way.      *)
Asked(t, p) == [query EXCEPT ![t][p].fetch = IF @ = "no" THEN "asked" ELSE @]

Answered(t, p) ==
  /\ query[t][p].fetch = "asked"
  /\ query' = [query EXCEPT ![t][p].fetch = "read", ![t][p].got = OffsetPage(t, p)]
  /\ UNCHANGED <<count, tab, pageNo, walk, stats, clicks>>
ListFiles(p) == Answered("files", p)
ListSyncJobs(p) == Answered("jobs", p)

(* The answer enters the cache, and the screen if it is that of the page.  *)
Arrive(t, p) ==
  LET got == query[t][p].got IN
    /\ query[t][p].fetch = "read"
    /\ query' = [query EXCEPT ![t][p] = [NotFetched EXCEPT !.known = TRUE, !.data = got]]
    /\ walk' = IF t = tab /\ p = pageNo THEN [walk EXCEPT !.seen = @ \cup got] ELSE walk
    /\ UNCHANGED <<count, tab, pageNo, stats, clicks>>

-----------------------------------------------------------------------------
(* The visitor.                                                            *)

Screen == query[tab][pageNo]
Rows == IF Screen.known THEN Screen.data ELSE {}
Clicked == clicks < MaxClicks /\ clicks' = clicks + 1

(* Another way begins on the first page, patient unless an older fetch of  *)
(* that page is under way.                                                 *)
Entered(t) == [from |-> count[t], seen |-> {}, patient |-> query[t][1].fetch = "no"]

(* The link of the navigation bar mounts the list with page 1.             *)
Open(t) ==
  /\ Clicked /\ t # tab
  /\ tab' = t /\ pageNo' = 1
  /\ query' = Asked(t, 1)
  /\ walk' = Entered(t)
  /\ UNCHANGED <<count, stats>>

(* "prev" is disabled on the first page, "next" unless the page is full.   *)
PrevPage ==
  /\ Clicked /\ tab # "none" /\ pageNo > 1
  /\ pageNo' = pageNo - 1
  /\ query' = Asked(tab, pageNo - 1)
  /\ walk' = IF pageNo = 2 THEN Entered(tab) ELSE [walk EXCEPT !.patient = FALSE]
  /\ UNCHANGED <<count, tab, stats>>
NextPage ==
  /\ Clicked /\ tab # "none" /\ Cardinality(Rows) >= PageSize
  /\ pageNo' = pageNo + 1
  /\ query' = Asked(tab, pageNo + 1)
  /\ walk' = [walk EXCEPT !.patient = @ /\ Screen.fetch = "no"
                                        /\ query[tab][pageNo + 1].fetch = "no"]
  /\ UNCHANGED <<count, tab, stats>>

(* Coming back to the window fetches the page again.                       *)
Refocus ==
  /\ Clicked /\ tab # "none" /\ Screen.fetch = "no"
  /\ query' = Asked(tab, pageNo)
  /\ UNCHANGED <<count, tab, pageNo, walk, stats>>

(* The lists.                                                              *)
DashboardNext ==
  \/ NewVersion
  \/ \E p \in PageNos : ListFiles(p) \/ ListSyncJobs(p)
  \/ \E t \in Lists, p \in PageNos : Arrive(t, p)
  \/ \E t \in Lists : Open(t)
  \/ PrevPage \/ NextPage \/ Refocus

-----------------------------------------------------------------------------
(* The statistics.                                                         *)
StatsOnly == UNCHANGED <<count, tab, pageNo, query, walk, clicks>>

(* The page is opened, by a link or on coming back to the window.          *)
OpenStats ==
  /\ Clicked
  /\ stats' = [stats EXCEPT !.fetch = IF @ = "no" THEN "asked" ELSE @]
  /\ UNCHANGED <<count, tab, pageNo, query, walk>>

(* Every file joined with its jobs: a row for each job, since no file is   *)
(* without.  The sums are over these rows, and "Files synced" is their     *)
(* number.                                                                 *)
JoinedRows == count.jobs
SelectTotals ==
  /\ stats.fetch = "asked"
  /\ stats' = [stats EXCEPT !.fetch = "totals", !.got = [NoTotals EXCEPT !.jobs = JoinedRows]]
  /\ StatsOnly
CountActive ==
  /\ stats.fetch = "totals"
  /\ stats' = [stats EXCEPT !.fetch = "active", !.got.active = count.jobs]
  /\ StatsOnly

(* The daily series calls date_trunc, which SQLite, the only database of   *)
(* this commit, does not have: the call throws, is made again or ends the  *)
(* fetch with an error, which the page then shows instead of all else.     *)
(* The steps below are for a database that can answer.                     *)
SeriesFails ==
  /\ stats.fetch = "active"
  /\ \/ stats' = [stats EXCEPT !.fetch = "asked", !.got = NoTotals]
     \/ stats' = [stats EXCEPT !.fetch = "no", !.got = NoTotals, !.failed = TRUE]
  /\ StatsOnly

(* orderBy desc, limit.                                                    *)
RecentJobs == {r \in 1 .. count.jobs : r > count.jobs - RecentLimit}
SelectRecent ==
  /\ stats.fetch = "active"
  /\ stats' = [stats EXCEPT !.fetch = "recent", !.got.recent = RecentJobs]
  /\ StatsOnly

StatsArrive ==
  /\ stats.fetch = "recent"
  /\ stats' = [NoStats EXCEPT !.known = TRUE, !.data = stats.got]
  /\ StatsOnly

(* Where the totals count nothing, the page says that there are no syncs.  *)
ShownJobs == IF stats.data.jobs = 0 THEN {} ELSE stats.data.recent

StatisticsNext == \/ NewVersion \/ OpenStats
                  \/ SelectTotals \/ CountActive \/ SeriesFails
                  \/ SelectRecent \/ StatsArrive

-----------------------------------------------------------------------------
(* Rows that arrive while somebody pages through a list push others over   *)
(* page limits, and the cache shows old pages; still, who waits for each   *)
(* page to be fetched before turning it has seen, of the rows there were   *)
(* at the start, all that are newer than the oldest on the screen, and     *)
(* every one when "next" is disabled.  Nor does the statistics page lack a *)
(* row: each job in its totals is in its count of the day and among its    *)
(* recent jobs, unless as many newer ones are, although each of the three  *)
(* is read at a moment of its own.                                         *)
NoRowIsSkipped ==
  /\ tab # "none" /\ walk.patient /\ Screen.fetch = "no" =>
       \A r \in 1 .. walk.from :
         \/ r \in walk.seen
         \/ Cardinality(Rows) >= PageSize /\ \A x \in Rows : r < x
  /\ ~stats.failed =>
       /\ stats.data.jobs <= stats.data.active
       /\ \A r \in 1 .. stats.data.jobs :
            \/ r \in ShownJobs
            \/ Cardinality(ShownJobs) >= RecentLimit /\ \A x \in ShownJobs : r < x
=============================================================================
