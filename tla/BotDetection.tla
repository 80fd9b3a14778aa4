---------------------------- MODULE BotDetection ----------------------------
(***************************************************************************)
(* DetectAnubisProtection and IsSearchResultValid of                       *)
(* internal/handlers/evasion.go, and what the search handlers make of      *)
(* them.  A response is what these see of it: its status, the number of    *)
(* signatures, script patterns and suspicious headers, whether it is       *)
(* short, minimal, has a captcha or speaks of maintenance, and the number  *)
(* of indicators for and against search results.  Points are per cent:     *)
(* the maxima of all checks add up to 100.                                 *)
(***************************************************************************)
EXTENDS Integers, FiniteSetsExt

If(condition, points) == IF condition THEN points ELSE 0

ScriptPoints(r) == IF r.scripts >= 3 THEN 15 ELSE IF r.scripts >= 1 THEN 5 ELSE 0

StatusPoints(r) == If(r.status = 403, 10) + If(r.status = 429, 8) + If(r.status = 503, 6)

\* Mistake: a header counts as much as a signature.
ConfidenceInHeaders(r) ==
    Min({100, 5 * r.signatures + ScriptPoints(r) + StatusPoints(r) + 5 * r.headers
              + If(r.short, 5) + If(r.minimal, 5) + If(r.captcha, 8)})

Confidence(r) ==
    Min({100, 5 * r.signatures + ScriptPoints(r) + StatusPoints(r) + 3 * r.headers
              + If(r.short, 5) + If(r.minimal, 5) + If(r.captcha, 8)})

IsAnubisProtected(r) == Confidence(r) >= 40

IsSearchResultValid(r) == r.indicators >= 2 /\ r.against <= 1

\* What becomes of the instance.
Outcome(r) ==
    IF r.status = 429 THEN "rate limit"
    ELSE IF r.status >= 500 THEN "error"
    ELSE IF IsAnubisProtected(r) THEN "protected"
    ELSE IF r.maintenance \/ ~IsSearchResultValid(r) THEN "error"
    ELSE "success"
=============================================================================
