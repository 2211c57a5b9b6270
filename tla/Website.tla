------------------------------- MODULE Website -------------------------------
(***************************************************************************)
(* The pages of the web site that keep answers of the past: the playground *)
(* shows the run that ended last, whatever it was started for; the lists   *)
(* and the statistics of the dashboard show what react-query has under     *)
(* their keys.  The pages share only tables that none of them writes, so a *)
(* visit is to one of them; in a visit to the playground that does not     *)
(* open it, the library behind it is called in block mode.                 *)
(***************************************************************************)
EXTENDS Playground, Dashboard

VARIABLE visit   \* what is visited

siteVars == <<vars, dashboardVars, visit>>

(* The other pages are not mounted: of their initial states, any one will  *)
(* do.                                                                     *)
SiteInit ==
  /\ visit \in {"playground", "lists", "statistics"}
  /\ Init /\ DashboardInit
  /\ visit # "playground" => ~open
  /\ visit = "playground" => count = [t \in Lists |-> 0]

SiteNext ==
  \/ visit = "playground" /\ Next /\ UNCHANGED <<dashboardVars, visit>>
  \/ visit = "lists" /\ DashboardNext /\ UNCHANGED <<vars, visit>>
  \/ visit = "statistics" /\ StatisticsNext /\ UNCHANGED <<vars, visit>>

SiteSpec == SiteInit /\ [][SiteNext]_siteVars
=============================================================================
