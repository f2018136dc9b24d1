---------------------------- MODULE MCHttpLayer ----------------------------
(***************************************************************************)
(* Four overlapping requests, of which some are scrapes.                   *)
(***************************************************************************)
EXTENDS HttpLayer

CONSTANTS work, scrape

MCRoutes == {work, scrape}
MCScrapeRoutes == {scrape}
MCDurations == {0, 1, 4}
MCCodes == {200, 404, 500}
=============================================================================
