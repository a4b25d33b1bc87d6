----------------------------- MODULE CrawlGraph -----------------------------
(***************************************************************************)
(* One run of the crawling graph over a source: fetch the entry page and a *)
(* target page, then extract with one strategy after the other until the   *)
(* text is good enough, a wall is met, the attempts are used up or the     *)
(* strategies are.  Every node is an action and reads and writes the one   *)
(* state that the graph carries along, much of it left by earlier nodes.   *)
(* What a site or an extractor answers is free.                            *)
(*                                                                         *)
(* langgraph runs a node a step, after a step of its own for the input,    *)
(* and asks for its limit before it asks whether anything is left to run.  *)
(***************************************************************************)
EXTENDS Naturals, Sequences, FiniteSets

CONSTANTS
    Strategies,  \* STRATEGY_SEQUENCE
    Http,        \* its plain requests
    Browser,     \* its strategies that drive a browser
    ExtractOnly, \* its extractors, that fetch nothing
    MaxAttempts, \* max_attempts of the initial state
    RecursionLimit, \* recursion_limit of langgraph
    None

Walls == {"CAPTCHA_DETECTED", "LOGIN_WALL_DETECTED", "PAYWALL_DETECTED"}
ErrorTypes == Walls \cup {"NETWORK_TIMEOUT", "EXTRACTION_EMPTY", "UNKNOWN_ERROR"}

Passing == {"SUCCESS", "PARTIAL"}
Statuses == Passing \cup {"FAILED", "BLOCKED"}
Reports == [status : Statuses \cup {"NEEDS_API"}, attempts : Nat]

ASSUME CrawlAssumption ==
    /\ Strategies # << >> /\ Strategies \in Seq(Http \cup Browser \cup ExtractOnly)
    /\ \A m, n \in DOMAIN Strategies : Strategies[m] = Strategies[n] => m = n
    /\ MaxAttempts \in Nat /\ RecursionLimit \in Nat
    /\ 4 * MaxAttempts + 13 =< RecursionLimit
    /\ None \notin {"page", "wall", "blank"}
    /\ None \notin [type : ErrorTypes, retryable : BOOLEAN] \cup Reports

VARIABLES
    node,      \* the node that runs next
    attempt,   \* attempt_no
    current,   \* current_strategy
    tried,     \* strategies_tried
    exhausted, \* strategy_exhausted
    raw,       \* raw_html
    result,    \* extraction_result: the strategy and the page it comes from
    quality,   \* quality_status
    error,     \* current_error
    retry,     \* should_retry
    errors,    \* types of the errors kept
    scored,    \* retry_history: the status of each attempt that was scored
    report,    \* the status written, with the number of attempts
    hist       \* history: steps of langgraph, fetches made

kept == <<errors, scored>>
control == <<attempt, current, tried, exhausted, retry>>
vars == <<node, control, raw, result, quality, error, kept, report, hist>>

Ladder == {Strategies[n] : n \in DOMAIN Strategies}
Pages == {"page", "wall", "blank"}
Lasting == {"end", "raised", "out_of_steps"}

Init ==
    /\ node = "precheck"
    /\ attempt = 0 /\ current = Strategies[1] /\ tried = << >>
    /\ exhausted = FALSE /\ retry = FALSE
    /\ raw = None /\ result = None /\ quality = "FAILED" /\ error = None
    /\ errors = << >> /\ scored = << >>
    /\ report = None
    /\ hist = [steps |-> 0, fetches |-> 0]

(* A node has run and made so many fetches. *)
Ran(fetches) == hist' = [steps |-> hist.steps + 1, fetches |-> hist.fetches + fetches]

Raised(type, retryable) == [type |-> type, retryable |-> retryable]

-----------------------------------------------------------------------------
(* run_source: a source can be ruled out before the graph starts. *)
Precheck ==
    /\ node = "precheck"
    /\ \/ node' = "__start__" /\ UNCHANGED report
       \/ node' = "end" /\ report' = [status |-> "NEEDS_API", attempts |-> 0]
    /\ UNCHANGED <<control, raw, result, quality, error, kept, hist>>

(* Nodes that leave what is modelled as it is. *)
Onward == [__start__ |-> "initialize",
           initialize |-> "build_search_query",
           build_search_query |-> "fetch_entry_url",
           extract_candidate_urls |-> "fetch_target_page",
           extract_event_candidates |-> "llm_quality_judge",
           llm_quality_judge |-> "strategy_reflection",
           strategy_reflection |-> "write_source_report"]

PassThrough ==
    /\ node \in DOMAIN Onward
    /\ node' = Onward[node]
    /\ Ran(0)
    /\ UNCHANGED <<control, raw, result, quality, error, kept, report>>

(* A fetch that brings nothing is an error.  A hook of the source can bring *)
(* a blank page, which is none and yet goes the way of an error.            *)
Fetched(page, retryable, next) ==
    /\ raw' = page
    /\ error' = IF page = None THEN Raised("NETWORK_TIMEOUT", retryable) ELSE error
    /\ node' = IF page \in {"page", "wall"} /\ error' = None THEN next ELSE "error_analysis"
    /\ Ran(1)
    /\ UNCHANGED <<control, result, quality, kept, report>>

FetchEntryUrl ==
    /\ node = "fetch_entry_url"
    /\ \E page \in Pages \cup {None} : Fetched(page, FALSE, "extract_candidate_urls")

FetchTargetPage ==
    /\ node = "fetch_target_page"
    /\ \E page \in Pages \cup {None} : Fetched(page, TRUE, "select_extraction_strategy")

(* The places in the ladder of the strategies not tried. *)
Remaining == {n \in DOMAIN Strategies : \A m \in DOMAIN tried : tried[m] # Strategies[n]}

SelectStrategy ==
    /\ node = "select_extraction_strategy"
    /\ \/ Remaining = {} /\ UNCHANGED current
       \/ \E n \in Remaining : /\ \A m \in Remaining : n =< m
                               /\ current' = Strategies[n]
    /\ exhausted' = (\A m, n \in Remaining : m = n)
    /\ node' = "extract_content"
    /\ Ran(0)
    /\ UNCHANGED <<attempt, tried, retry, raw, result, quality, error, kept, report>>

-----------------------------------------------------------------------------
(* A strategy that asks the site again. *)
Refetches == current \in Browser \/ (current \in Http /\ attempt > 0 /\ current # Strategies[1])

(* Mutant: the node waits until there is a page. *)
SeenWaiting == (IF Refetches THEN {"page", "wall", raw} ELSE {raw}) \ {None, "blank"}

(* The page the extractors see.  It stays with the node: raw keeps the page *)
(* of the first fetch.                                                      *)
Seen == IF Refetches THEN {"page", "wall", raw} ELSE {raw}

(* Mutant: a strategy that failed is not put down as tried. *)
NotedOnSuccess(found) == tried' = IF found = None THEN tried ELSE Append(tried, current)

Noted(found) == tried' = Append(tried, current)

(* Mutant: the wall test is made on the page that the graph carries. *)
FirstIsWall(page) == raw = "wall"

IsWall(page) == page = "wall"

Extracted(found, err) ==
    /\ result' = found
    /\ error' = IF err = None THEN error ELSE err
    /\ node' = IF found # None /\ error' = None THEN "score_quality" ELSE "error_analysis"
    /\ Noted(found)

Text(page, hooked) == [by |-> current, page |-> page, hooked |-> hooked]

(* The extract hook of the source comes before the test for walls, the     *)
(* common extractors after it.                                             *)
ExtractContent ==
    /\ node = "extract_content"
    /\ \E page \in Seen :
          \/ /\ page \in {None, "blank"}
             /\ Extracted(None, Raised("EXTRACTION_EMPTY", TRUE))
          \/ /\ page \in {"page", "wall"}
             /\ Extracted(Text(page, TRUE), None)
          \/ /\ page \notin {None, "blank"} /\ IsWall(page)
             /\ \E wall \in Walls : Extracted(None, Raised(wall, FALSE))
          \/ /\ page \notin {None, "blank"} /\ ~IsWall(page)
             /\ \/ Extracted(Text(page, FALSE), None)
                \/ Extracted(None, Raised("EXTRACTION_EMPTY", TRUE))
    /\ Ran(IF Refetches THEN 1 ELSE 0)
    /\ UNCHANGED <<attempt, current, exhausted, retry, raw, quality, kept, report>>

(* The test for walls is repeated here, on raw. *)
ScoreQuality ==
    /\ node = "score_quality"
    /\ quality' \in IF raw = "wall" THEN {"BLOCKED"} ELSE Statuses \ {"BLOCKED"}
    /\ scored' = Append(scored, quality')
    /\ node' = "retry_decision"
    /\ Ran(0)
    /\ UNCHANGED <<control, raw, result, error, errors, report>>

(* Mutant: a wall is analysed like any other error. *)
WallForgotten(type) == quality

(* What an error makes of the quality status. *)
Verdict(type) == IF type \in Walls THEN "BLOCKED" ELSE quality

(* The taxonomy overrules what the node said of its error; none at all is  *)
(* one of unknown type.                                                    *)
ErrorAnalysis ==
    /\ node = "error_analysis"
    /\ LET type == IF error = None THEN "UNKNOWN_ERROR" ELSE error.type
       IN  /\ error' = Raised(type, type = "NETWORK_TIMEOUT")
           /\ quality' = Verdict(type)
           /\ retry' = (type = "NETWORK_TIMEOUT")
    /\ node' = "retry_decision"
    /\ Ran(0)
    /\ UNCHANGED <<attempt, current, tried, exhausted, raw, result, kept, report>>

(* Mutant: the attempt that would be one too many is made. *)
OneMoreAttempt ==
    /\ quality \notin Passing
    /\ ~exhausted /\ attempt =< MaxAttempts
    /\ (error # None /\ error.retryable) \/ quality = "FAILED"

TryAgain ==
    /\ quality \notin Passing
    /\ ~exhausted /\ attempt < MaxAttempts
    /\ (error # None /\ error.retryable) \/ quality = "FAILED"

(* Mutant: the error of an attempt is kept only if another one follows. *)
KeptIfRetried == IF error = None \/ ~TryAgain THEN errors ELSE Append(errors, error.type)

Kept == IF error = None THEN errors ELSE Append(errors, error.type)

RetryDecision ==
    /\ node = "retry_decision"
    /\ retry' = TryAgain
    /\ attempt' = attempt + 1
    /\ errors' = Kept
    /\ error' = None
    /\ node' = IF quality \in Passing THEN "extract_event_candidates"
               ELSE IF retry' THEN "select_extraction_strategy" ELSE "strategy_reflection"
    /\ Ran(0)
    /\ UNCHANGED <<current, tried, exhausted, raw, result, quality, scored, report>>

(* A source can put its own words for a failure. *)
Worded == IF quality \in Passing THEN {quality} ELSE {quality, "NEEDS_API"}

WriteSourceReport ==
    /\ node = "write_source_report"
    /\ \E status \in Worded : report' = [status |-> status, attempts |-> attempt]
    /\ node' = "__end__"
    /\ Ran(0)
    /\ UNCHANGED <<control, raw, result, quality, error, kept>>

(* The loop of langgraph between two steps: the limit comes first, then the *)
(* end.  Past the limit invoke raises GraphRecursionError.                  *)
InLimit == hist.steps =< RecursionLimit

Returns ==
    /\ node = "__end__"
    /\ node' = "end"
    /\ UNCHANGED <<control, raw, result, quality, error, kept, report, hist>>

OutOfSteps ==
    /\ node \notin Lasting \cup {"precheck"}
    /\ ~InLimit
    /\ node' = "out_of_steps"
    /\ UNCHANGED <<control, raw, result, quality, error, kept, report, hist>>

(* A hook, an extractor or the disk raises: run_phase goes on to the next  *)
(* source and nothing is written of this one.                              *)
Raises ==
    /\ InLimit
    /\ node \notin Lasting \cup {"precheck", "__start__", "retry_decision", "error_analysis",
                                 "select_extraction_strategy", "strategy_reflection", "__end__"}
    /\ node' = "raised"
    /\ UNCHANGED <<control, raw, result, quality, error, kept, report, hist>>

Runs ==
    \/ PassThrough \/ FetchEntryUrl \/ FetchTargetPage
    \/ SelectStrategy \/ ExtractContent \/ ScoreQuality
    \/ ErrorAnalysis \/ RetryDecision \/ WriteSourceReport

Graph == Precheck \/ (InLimit /\ (Runs \/ Returns)) \/ OutOfSteps

Next == Graph \/ Raises

Spec == Init /\ [][Next]_vars

(* A run is one call that goes on by itself. *)
FairSpec == Spec /\ WF_vars(Graph)

-----------------------------------------------------------------------------
(* Types.  An attempt past MaxAttempts is never begun. *)
TypeOK ==
    /\ node \in DOMAIN Onward \cup Lasting \cup
           {"precheck", "__end__", "fetch_entry_url", "fetch_target_page", "select_extraction_strategy",
            "extract_content", "score_quality", "error_analysis", "retry_decision",
            "write_source_report"}
    /\ attempt \in 0..(MaxAttempts + 1) /\ current \in Ladder /\ tried \in Seq(Ladder)
    /\ exhausted \in BOOLEAN /\ retry \in BOOLEAN
    /\ raw \in Pages \cup {None} /\ quality \in Statuses
    /\ result \in [by : Ladder, page : {"page", "wall"}, hooked : BOOLEAN] \cup {None}
    /\ error \in [type : ErrorTypes, retryable : BOOLEAN] \cup {None}
    /\ errors \in Seq(ErrorTypes) /\ scored \in Seq(Statuses)
    /\ report \in Reports \cup {None}
    /\ hist \in [steps : Nat, fetches : Nat]

(* The limit of langgraph takes no run its report: retry_decision stops the *)
(* loop before, as run_one_source sets no recursion_limit.  One run alone   *)
(* meets it, the longest, that has reported a success of its last attempt:  *)
(* to run_phase, that catches what invoke raises, it is an error.           *)
LimitSparesReports ==
    node = "out_of_steps" =>
        report # None /\ report.status \in Passing /\ report.attempts = MaxAttempts + 1

(* retry_decision counts attempts, score_quality and error_analysis record  *)
(* them in two lists, and current_error is cleared in between: at the end   *)
(* every attempt is in exactly one of the lists.                            *)
AttemptsAreRecorded ==
    node \in {"select_extraction_strategy", "extract_event_candidates",
              "strategy_reflection", "write_source_report"}
        => attempt = Len(errors) + Len(scored)

(* A run that passes has a text of the strategy it names, and no page with  *)
(* a wall on it passed the common extractors (_node_extract_content tests   *)
(* the page it has just fetched, _node_score_quality the first).            *)
PassedHasText ==
    quality \in Passing =>
        /\ result # None /\ result.by = current
        /\ result.page = "page" \/ result.hooked

(* The ladder is climbed one rung an attempt: the strategies tried are the  *)
(* first of the sequence, one for each attempt but one that the fetch of    *)
(* the entry or the target page cost.                                       *)
OneRungAnAttempt ==
    node = "select_extraction_strategy" =>
        \E n \in {0, 1} : /\ n =< attempt /\ attempt - n =< Len(Strategies)
                          /\ tried = SubSeq(Strategies, 1, attempt - n)

WallMet ==
    \/ quality = "BLOCKED" \/ \E n \in DOMAIN errors : errors[n] \in Walls
    \/ error # None /\ error.type \in Walls

(* A wall ends the run: from the extraction that found one, as from a status *)
(* BLOCKED, nothing is fetched any more, and the status stays               *)
(* (ingestion/README.md: recorded as BLOCKED and stopped).                  *)
WallEndsTheRun ==
    [][(WallMet => hist'.fetches = hist.fetches) /\ (quality = "BLOCKED" => quality' = "BLOCKED")]_vars

(* Every run writes its report, unless a node raised before. *)
EveryRunReports == <>(report # None \/ node = "raised")
=============================================================================
