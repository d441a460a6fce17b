------------------------------ MODULE MCCrawlJob ------------------------------
(* CrawlJob for TLC: a small site with a link back to its start page.        *)
EXTENDS CrawlJob, TLC

CONSTANTS home, a, b

(* The start page links to two pages, which link to each other and back. *)
Site == (home :> <<a, b>>) @@ (a :> <<home, b>>) @@ (b :> <<a>>)

===============================================================================
