--------------------------- MODULE AccommodationCalls ---------------------------
(***************************************************************************)
(* The calls of apps/api/src/modules/diocese/accommodation.service.ts: an  *)
(* HTTP request serves one of them, and goes from query to query.          *)
(***************************************************************************)
CONSTANTS
  Requests,     \* HTTP requests, each serving one call; a row carries the name of the
                \* request that wrote it
  Abortable     \* the requests that may fail or be lost between two queries

VARIABLE pc     \* the next query of each request

Goto(r, stage) == pc' = [pc EXCEPT ![r] = stage]
===============================================================================
