-------------------------- MODULE CrawlGraphProofs --------------------------
(***************************************************************************)
(* What holds of CrawlGraph for every ladder of strategies and every number *)
(* of attempts.  A run passes through the nodes up to the first extraction *)
(* once and then round a loop of four nodes; each part of the invariant    *)
(* says, node by node, what the nodes before it have left in the state.    *)
(***************************************************************************)
EXTENDS CrawlGraph, TLAPS

Early == {"precheck", "__start__", "initialize", "build_search_query", "fetch_entry_url",
          "extract_candidate_urls", "fetch_target_page"}
Trying == {"select_extraction_strategy", "extract_content", "score_quality",
           "error_analysis"}
Ending == {"extract_event_candidates", "llm_quality_judge", "strategy_reflection",
           "write_source_report", "__end__"}

Position == [precheck |-> 0, __start__ |-> 0, initialize |-> 1, build_search_query |-> 2,
             fetch_entry_url |-> 3, extract_candidate_urls |-> 4, fetch_target_page |-> 5]

AtEnd(n) == IF quality \in Passing THEN n + 2 ELSE n

(* The first attempt comes after six steps, each attempt is four of them    *)
(* and the end is four more, or two if the text is not good enough.         *)
Bounded ==
    /\ node \in Early => attempt = 0 /\ hist.steps = Position[node]
    /\ node \in Trying \cup {"retry_decision"} => attempt =< MaxAttempts
    /\ node = "select_extraction_strategy" => hist.steps =< 6 + 4 * attempt
    /\ node = "extract_content" => hist.steps =< 7 + 4 * attempt
    /\ node \in {"score_quality", "error_analysis"} => hist.steps =< 8 + 4 * attempt
    /\ node = "retry_decision" => hist.steps =< 9 + 4 * attempt
    /\ node \in Ending => attempt =< MaxAttempts + 1
    /\ node = "extract_event_candidates" => quality \in Passing /\ hist.steps =< 6 + 4 * attempt
    /\ node = "llm_quality_judge" => quality \in Passing /\ hist.steps =< 7 + 4 * attempt
    /\ node = "strategy_reflection" => hist.steps =< 4 * attempt + AtEnd(6)
    /\ node = "write_source_report" => hist.steps =< 4 * attempt + AtEnd(7)
    /\ node = "__end__" =>
          /\ hist.steps =< 4 * attempt + AtEnd(8)
          /\ report # None /\ report.attempts = attempt
          /\ quality \in Passing => report.status \in Passing
    /\ LimitSparesReports

(* Between an attempt and retry_decision the attempt is in one list or its  *)
(* error on the way to the other.                                           *)
Recorded ==
    /\ node \notin {"error_analysis", "retry_decision"} => error = None
    /\ node \in Early => errors = << >> /\ scored = << >>
    /\ node \in Early \cup Trying \cup Ending => attempt = Len(errors) + Len(scored)
    /\ node = "retry_decision" =>
          IF error = None THEN attempt + 1 = Len(errors) + Len(scored)
                          ELSE attempt = Len(errors) + Len(scored)

(* The status is FAILED as long as there is something to try.               *)
Walled ==
    /\ node \in Early \cup Trying => quality = "FAILED"
    /\ node = "retry_decision" /\ error # None =>
          /\ error.type \in Walls => quality = "BLOCKED"
          /\ quality = "BLOCKED" => error.retryable = FALSE
    /\ (\E n \in DOMAIN errors : errors[n] \in Walls) => quality = "BLOCKED"

Texted ==
    /\ node = "score_quality" \/ quality \in Passing =>
          /\ result # None /\ result.by = current
          /\ result.page = "page" \/ result.hooked
    /\ quality \in Passing => node \in Ending \cup {"retry_decision"} \cup Lasting

(* The rungs climbed are the lowest, and attempts without a rung are one at *)
(* the most.                                                                *)
Rungs ==
    /\ Len(tried) =< Len(Strategies)
    /\ \A n \in 1..Len(tried) : tried[n] = Strategies[n]
    /\ node \in Early => attempt = 0 /\ tried = << >>
    /\ node \in {"select_extraction_strategy", "extract_content"} =>
          /\ attempt = Len(tried) \/ attempt = Len(tried) + 1
          /\ Len(tried) < Len(Strategies)
    /\ node = "extract_content" =>
          /\ current = Strategies[Len(tried) + 1]
          /\ exhausted \/ Len(tried) + 1 < Len(Strategies)
    /\ node \in {"score_quality", "error_analysis", "retry_decision"} =>
          /\ attempt + 1 = Len(tried) \/ attempt = Len(tried)
          /\ exhausted \/ Len(tried) < Len(Strategies)

CInv == TypeOK /\ Bounded /\ Recorded /\ Walled /\ Texted /\ Rungs

-----------------------------------------------------------------------------
(* Each part holds at first. *)
LEMMA Nodes == DOMAIN Onward = {"__start__", "initialize", "build_search_query", "extract_candidate_urls",
                                "extract_event_candidates", "llm_quality_judge",
                                "strategy_reflection"}
  BY DEF Onward

LEMMA CInit == Init => CInv
<1> SUFFICES ASSUME Init PROVE CInv
  OBVIOUS
<1>1. Strategies[1] \in Ladder
  BY CrawlAssumption DEF Ladder
<1>2. << >> \in Seq(Ladder) /\ << >> \in Seq(ErrorTypes) /\ << >> \in Seq(Statuses)
  OBVIOUS
<1>3. TypeOK
  <2>1. quality \in Statuses /\ attempt \in 0..(MaxAttempts + 1)
    BY CrawlAssumption DEF Init, Statuses
  <2>2. hist \in [steps : Nat, fetches : Nat]
    BY DEF Init
  <2> QED
    BY <1>1, <1>2, <2>1, <2>2 DEF Init, TypeOK
<1>4. Bounded
  BY CrawlAssumption DEF Init, Bounded, Early, Trying, Ending, Lasting, Position, LimitSparesReports
<1>5. Recorded /\ Walled /\ Texted
  BY DEF Init, Recorded, Walled, Texted, Early, Trying, Ending, Lasting, Passing
<1>6. Rungs
  BY CrawlAssumption DEF Init, Rungs, Early
<1> QED
  BY <1>3, <1>4, <1>5, <1>6 DEF CInv

-----------------------------------------------------------------------------
(* Types. *)

LEMMA RaisedType ==
    ASSUME NEW type \in ErrorTypes, NEW retryable \in BOOLEAN
    PROVE  /\ Raised(type, retryable) \in [type : ErrorTypes, retryable : BOOLEAN]
           /\ Raised(type, retryable) # None
           /\ Raised(type, retryable).type = type
           /\ Raised(type, retryable).retryable = retryable
  BY CrawlAssumption DEF Raised

LEMMA RanType ==
    ASSUME hist \in [steps : Nat, fetches : Nat], NEW k \in Nat, Ran(k)
    PROVE  /\ hist' \in [steps : Nat, fetches : Nat]
           /\ hist'.steps = hist.steps + 1 /\ hist'.fetches = hist.fetches + k
  BY DEF Ran

LEMMA FetchedType ==
    ASSUME TypeOK, NEW page \in Pages \cup {None}, NEW retryable \in BOOLEAN,
           NEW next, next \in {"extract_candidate_urls", "select_extraction_strategy"},
           Fetched(page, retryable, next)
    PROVE  TypeOK'
<1>1. error' \in [type : ErrorTypes, retryable : BOOLEAN] \cup {None}
  BY RaisedType DEF Fetched, TypeOK, ErrorTypes
<1>2. hist' \in [steps : Nat, fetches : Nat]
  BY RanType DEF Fetched, TypeOK
<1>3. node' \in {"extract_candidate_urls", "select_extraction_strategy", "error_analysis"}
  BY DEF Fetched
<1> QED
  BY <1>1, <1>2, <1>3, Nodes DEF Fetched, TypeOK, control, kept

LEMMA ExtractedType ==
    ASSUME TypeOK, NEW found \in [by : Ladder, page : {"page", "wall"}, hooked : BOOLEAN] \cup {None},
           NEW err \in [type : ErrorTypes, retryable : BOOLEAN] \cup {None},
           Extracted(found, err), hist' \in [steps : Nat, fetches : Nat],
           UNCHANGED <<attempt, current, exhausted, retry, raw, quality, kept, report>>
    PROVE  TypeOK'
<1>1. node' \in {"score_quality", "error_analysis"}
  BY DEF Extracted
<1>2. tried' \in Seq(Ladder)
  BY DEF Extracted, Noted, TypeOK
<1>3. result' = found /\ error' \in [type : ErrorTypes, retryable : BOOLEAN] \cup {None}
  BY DEF Extracted, TypeOK
<1> QED
  BY <1>1, <1>2, <1>3 DEF TypeOK, kept

(* What a node extracts, and the four ways it can go.                       *)
LEMMA ExtractCases ==
    ASSUME TypeOK, ExtractContent
    PROVE  \E found \in [by : Ladder, page : {"page", "wall"}, hooked : BOOLEAN] \cup {None},
              err \in [type : ErrorTypes, retryable : BOOLEAN] \cup {None} :
                  /\ Extracted(found, err)
                  /\ (err # None /\ err.type \in ErrorTypes /\ found = None)
                     \/ /\ err = None /\ found.by = current
                        /\ found.page = "page" \/ found.hooked
<1>1. PICK page \in Seen :
          \/ /\ page \in {None, "blank"}
             /\ Extracted(None, Raised("EXTRACTION_EMPTY", TRUE))
          \/ /\ page \in {"page", "wall"}
             /\ Extracted(Text(page, TRUE), None)
          \/ /\ page \notin {None, "blank"} /\ IsWall(page)
             /\ \E wall \in Walls : Extracted(None, Raised(wall, FALSE))
          \/ /\ page \notin {None, "blank"} /\ ~IsWall(page)
             /\ \/ Extracted(Text(page, FALSE), None)
                \/ Extracted(None, Raised("EXTRACTION_EMPTY", TRUE))
  BY DEF ExtractContent
<1>2. page \in Pages \cup {None} /\ current \in Ladder
  BY <1>1 DEF Seen, Pages, TypeOK
<1>3. CASE Extracted(None, Raised("EXTRACTION_EMPTY", TRUE))
  BY <1>3, RaisedType DEF ErrorTypes
<1>4. CASE \E wall \in Walls : Extracted(None, Raised(wall, FALSE))
  BY <1>4, RaisedType DEF ErrorTypes
<1>5. CASE page \in {"page", "wall"} /\ Extracted(Text(page, TRUE), None)
  <2>1. /\ Text(page, TRUE) \in [by : Ladder, page : {"page", "wall"}, hooked : BOOLEAN]
        /\ Text(page, TRUE).by = current /\ Text(page, TRUE).hooked
    BY <1>2, <1>5 DEF Text
  <2> QED
    BY <1>5, <2>1
<1>6. CASE /\ page \notin {None, "blank"} /\ ~IsWall(page)
           /\ Extracted(Text(page, FALSE), None)
  <2>1. page = "page"
    BY <1>2, <1>6 DEF IsWall, Pages
  <2>2. /\ Text(page, FALSE) \in [by : Ladder, page : {"page", "wall"}, hooked : BOOLEAN]
        /\ Text(page, FALSE).by = current /\ Text(page, FALSE).page = "page"
    BY <1>2, <2>1 DEF Text
  <2> QED
    BY <1>6, <2>2
<1> QED
  BY <1>1, <1>3, <1>4, <1>5, <1>6

LEMMA ExtractRan ==
    ASSUME TypeOK, ExtractContent
    PROVE  hist' \in [steps : Nat, fetches : Nat] /\ hist'.steps = hist.steps + 1
  BY RanType DEF ExtractContent, TypeOK

(* langgraph leaves its loop after the report and not before.               *)
LEMMA LeavesLoop ==
    ASSUME TypeOK, Bounded, Returns \/ OutOfSteps
    PROVE  /\ node = "__end__" /\ node' \in {"end", "out_of_steps"}
           /\ UNCHANGED <<control, raw, result, quality, error, kept, report, hist>>
           /\ node' = "out_of_steps" =>
                 quality \in Passing /\ attempt = MaxAttempts + 1
<1>1. /\ hist.steps \in Nat /\ attempt \in Nat /\ MaxAttempts \in Nat
      /\ RecursionLimit \in Nat /\ 4 * MaxAttempts + 13 =< RecursionLimit
  BY CrawlAssumption DEF TypeOK
<1>2. CASE Returns
  BY <1>2 DEF Returns
<1>3. CASE OutOfSteps
  <2>1. /\ node \notin Lasting \cup {"precheck"} /\ hist.steps > 4 * MaxAttempts + 13
        /\ node' = "out_of_steps"
        /\ UNCHANGED <<control, raw, result, quality, error, kept, report, hist>>
    BY <1>1, <1>3 DEF OutOfSteps, InLimit
  <2>2. node \notin Early
    <3> SUFFICES ASSUME node \in Early PROVE FALSE
      OBVIOUS
    <3>1. Position[node] \in 0..5
      BY DEF Early, Position
    <3>2. hist.steps = Position[node]
      BY DEF Bounded
    <3> QED
      BY <1>1, <2>1, <3>1, <3>2
  <2>3. node \notin Trying \cup {"retry_decision"}
    <3> SUFFICES ASSUME node \in Trying \cup {"retry_decision"} PROVE FALSE
      OBVIOUS
    <3>1. attempt =< MaxAttempts
      BY DEF Bounded
    <3>2. hist.steps =< 9 + 4 * attempt
      BY <1>1 DEF Bounded, Trying
    <3> QED
      BY <1>1, <2>1, <3>1, <3>2
  <2>4. node \in Ending
    BY <2>1, <2>2, <2>3, Nodes DEF TypeOK, Early, Trying, Ending
  <2>5. attempt =< MaxAttempts + 1
    BY <2>4 DEF Bounded
  <2>6. node = "__end__" \/ hist.steps =< 9 + 4 * attempt
    BY <1>1, <2>4 DEF Bounded, Ending, AtEnd
  <2>7. node = "__end__"
    BY <1>1, <2>1, <2>5, <2>6
  <2>8. hist.steps =< 4 * attempt + AtEnd(8)
    BY <2>7 DEF Bounded
  <2>9. quality \in Passing /\ attempt = MaxAttempts + 1
    BY <1>1, <2>1, <2>5, <2>8 DEF AtEnd
  <2> QED
    BY <2>1, <2>7, <2>9
<1> QED
  BY <1>2, <1>3

LEMMA TypeStep ==
    ASSUME TypeOK, Bounded, [Next]_vars
    PROVE  TypeOK'
<1>1. CASE Precheck
  BY <1>1, Nodes DEF Precheck, TypeOK, Reports, control, kept, Lasting
<1>2. CASE PassThrough
  <2>1. node' \in {"initialize", "build_search_query", "fetch_entry_url", "fetch_target_page",
                   "llm_quality_judge", "strategy_reflection", "write_source_report"}
    BY <1>2, Nodes DEF PassThrough, Onward
  <2>2. hist' \in [steps : Nat, fetches : Nat]
    BY <1>2, RanType DEF PassThrough, TypeOK
  <2> QED
    BY <1>2, <2>1, <2>2, Nodes DEF PassThrough, TypeOK, control, kept
<1>3. CASE FetchEntryUrl
  BY <1>3, FetchedType DEF FetchEntryUrl
<1>4. CASE FetchTargetPage
  BY <1>4, FetchedType DEF FetchTargetPage
<1>5. CASE SelectStrategy
  <2>1. current' \in Ladder
    BY <1>5 DEF SelectStrategy, Remaining, Ladder, TypeOK
  <2>2. exhausted' \in BOOLEAN
    BY <1>5 DEF SelectStrategy
  <2>3. hist' \in [steps : Nat, fetches : Nat]
    BY <1>5, RanType DEF SelectStrategy, TypeOK
  <2> QED
    BY <1>5, <2>1, <2>2, <2>3 DEF SelectStrategy, TypeOK, kept
<1>6. CASE ExtractContent
  <2>1. UNCHANGED <<attempt, current, exhausted, retry, raw, quality, kept, report>>
    BY <1>6 DEF ExtractContent
  <2> QED
    BY <1>6, <2>1, ExtractCases, ExtractRan, ExtractedType
<1>7. CASE ScoreQuality
  <2>1. quality' \in Statuses
    BY <1>7 DEF ScoreQuality, Statuses
  <2>2. hist' \in [steps : Nat, fetches : Nat]
    BY <1>7, RanType DEF ScoreQuality, TypeOK
  <2> QED
    BY <1>7, <2>1, <2>2 DEF ScoreQuality, TypeOK, control
<1>8. CASE ErrorAnalysis
  <2>1. error' \in [type : ErrorTypes, retryable : BOOLEAN] /\ retry' \in BOOLEAN
    BY <1>8 DEF ErrorAnalysis, Raised, TypeOK, ErrorTypes
  <2>2. quality' \in Statuses
    BY <1>8 DEF ErrorAnalysis, Verdict, TypeOK, Statuses
  <2>3. hist' \in [steps : Nat, fetches : Nat]
    BY <1>8, RanType DEF ErrorAnalysis, TypeOK
  <2> QED
    BY <1>8, <2>1, <2>2, <2>3 DEF ErrorAnalysis, TypeOK, kept
<1>9. CASE RetryDecision
  <2>1. retry' \in BOOLEAN /\ errors' \in Seq(ErrorTypes)
    BY <1>9 DEF RetryDecision, TryAgain, Kept, TypeOK
  <2>2. attempt' \in 0..(MaxAttempts + 1)
    BY <1>9, CrawlAssumption DEF RetryDecision, TypeOK, Bounded
  <2>3. hist' \in [steps : Nat, fetches : Nat]
    BY <1>9, RanType DEF RetryDecision, TypeOK
  <2>4. node' \in {"extract_event_candidates", "select_extraction_strategy",
                   "strategy_reflection"}
    BY <1>9 DEF RetryDecision
  <2> QED
    BY <1>9, <2>1, <2>2, <2>3, <2>4, Nodes DEF RetryDecision, TypeOK
<1>10. CASE WriteSourceReport
  <2>1. report' \in Reports
    BY <1>10, CrawlAssumption DEF WriteSourceReport, Worded, TypeOK, Reports
  <2>2. hist' \in [steps : Nat, fetches : Nat]
    BY <1>10, RanType DEF WriteSourceReport, TypeOK
  <2> QED
    BY <1>10, <2>1, <2>2 DEF WriteSourceReport, TypeOK, control, kept, Lasting
<1>11. CASE Raises
  BY <1>11 DEF Raises, TypeOK, control, kept, Lasting
<1>12. CASE UNCHANGED vars
  BY <1>12 DEF vars, TypeOK, control, kept
<1>13. CASE Returns \/ OutOfSteps
  BY <1>13, LeavesLoop DEF TypeOK, control, kept, Lasting
<1> QED
  BY <1>1, <1>2, <1>3, <1>4, <1>5, <1>6, <1>7, <1>8, <1>9, <1>10, <1>11, <1>12, <1>13
  DEF Next, Graph, Runs

-----------------------------------------------------------------------------
(* The length of the run. *)
LEMMA BoundedStep ==
    ASSUME TypeOK, Bounded, [Next]_vars
    PROVE  Bounded'
<1> USE CrawlAssumption DEF Early, Trying, Ending, Lasting, Position
<1>0. LimitSparesReports
  BY DEF Bounded
<1>1. CASE Precheck
  BY <1>1 DEF Precheck, Bounded, TypeOK, control, LimitSparesReports
<1>2. CASE PassThrough
  <2>1. hist'.steps = hist.steps + 1 /\ attempt' = attempt
    BY <1>2, RanType DEF PassThrough, TypeOK, control
  <2> QED
    BY <1>2, <2>1, Nodes, SMTT(20)
       DEF PassThrough, Bounded, TypeOK, Onward, AtEnd, LimitSparesReports
<1>3. CASE FetchEntryUrl
  <2>1. hist'.steps = hist.steps + 1 /\ attempt' = attempt
    BY <1>3, RanType DEF FetchEntryUrl, Fetched, TypeOK, control
  <2>2. node' \in {"extract_candidate_urls", "error_analysis"}
    BY <1>3 DEF FetchEntryUrl, Fetched
  <2>3. attempt = 0 /\ hist.steps = 3
    BY <1>3 DEF FetchEntryUrl, Bounded
  <2>4. attempt' = 0 /\ hist'.steps = 4 /\ 0 =< MaxAttempts
    BY <2>1, <2>3
  <2> QED
    BY <2>2, <2>4 DEF Bounded, LimitSparesReports
<1>4. CASE FetchTargetPage
  <2>1. hist'.steps = hist.steps + 1 /\ attempt' = attempt
    BY <1>4, RanType DEF FetchTargetPage, Fetched, TypeOK, control
  <2>2. node' \in {"select_extraction_strategy", "error_analysis"}
    BY <1>4 DEF FetchTargetPage, Fetched
  <2>3. attempt = 0 /\ hist.steps = 5
    BY <1>4 DEF FetchTargetPage, Bounded
  <2>4. attempt' = 0 /\ hist'.steps = 6 /\ 0 =< MaxAttempts
    BY <2>1, <2>3
  <2> QED
    BY <2>2, <2>4 DEF Bounded, LimitSparesReports
<1>5. CASE SelectStrategy
  <2>1. hist'.steps = hist.steps + 1 /\ attempt' = attempt
    BY <1>5, RanType DEF SelectStrategy, TypeOK
  <2> QED
    BY <1>5, <2>1 DEF SelectStrategy, Bounded, TypeOK, LimitSparesReports
<1>6. CASE ExtractContent
  <2>1. hist'.steps = hist.steps + 1 /\ attempt' = attempt /\ node = "extract_content"
    BY <1>6, ExtractRan DEF ExtractContent
  <2>2. node' \in {"score_quality", "error_analysis"}
    BY <1>6, ExtractCases DEF Extracted
  <2>3. /\ attempt \in Nat /\ hist.steps \in Nat
        /\ attempt =< MaxAttempts /\ hist.steps =< 7 + 4 * attempt
    BY <2>1 DEF Bounded, TypeOK
  <2> QED
    BY <2>1, <2>2, <2>3 DEF Bounded, LimitSparesReports
<1>7. CASE ScoreQuality
  <2>1. hist'.steps = hist.steps + 1 /\ attempt' = attempt
    BY <1>7, RanType DEF ScoreQuality, TypeOK, control
  <2> QED
    BY <1>7, <2>1 DEF ScoreQuality, Bounded, TypeOK, LimitSparesReports
<1>8. CASE ErrorAnalysis
  <2>1. hist'.steps = hist.steps + 1 /\ attempt' = attempt
    BY <1>8, RanType DEF ErrorAnalysis, TypeOK
  <2> QED
    BY <1>8, <2>1 DEF ErrorAnalysis, Bounded, TypeOK, LimitSparesReports
<1>9. CASE RetryDecision
  <2>1. hist'.steps = hist.steps + 1 /\ attempt' = attempt + 1
    BY <1>9, RanType DEF RetryDecision, TypeOK
  <2>2. /\ node = "retry_decision" /\ node' \in {"extract_event_candidates",
               "select_extraction_strategy", "strategy_reflection"}
        /\ node' = "select_extraction_strategy" => attempt < MaxAttempts
        /\ node' = "extract_event_candidates" => quality \in Passing
        /\ quality' = quality
    BY <1>9 DEF RetryDecision, TryAgain
  <2>3. /\ attempt \in Nat /\ hist.steps \in Nat
        /\ attempt =< MaxAttempts /\ hist.steps =< 9 + 4 * attempt
    BY <2>2 DEF Bounded, TypeOK
  <2>4. /\ hist'.steps =< 6 + 4 * attempt' /\ attempt' =< MaxAttempts + 1
        /\ attempt < MaxAttempts => attempt' =< MaxAttempts
    BY <2>1, <2>3
  <2>5. hist'.steps =< 4 * attempt' + AtEnd(6)'
    BY <2>1, <2>3, <2>4, SMTT(20) DEF AtEnd
  <2>6. LimitSparesReports'
    BY <2>2 DEF LimitSparesReports
  <2>7. CASE node' = "select_extraction_strategy"
    BY <2>2, <2>4, <2>6, <2>7 DEF Bounded
  <2>8. CASE node' = "extract_event_candidates"
    BY <2>2, <2>4, <2>6, <2>8 DEF Bounded
  <2>9. CASE node' = "strategy_reflection"
    BY <2>4, <2>5, <2>6, <2>9 DEF Bounded
  <2> QED
    BY <2>2, <2>7, <2>8, <2>9
<1>10. CASE WriteSourceReport
  <2>1. hist'.steps = hist.steps + 1 /\ attempt' = attempt
    BY <1>10, RanType DEF WriteSourceReport, TypeOK, control
  <2>2. PICK status \in Worded : report' = [status |-> status, attempts |-> attempt]
    BY <1>10 DEF WriteSourceReport
  <2>3. report' \in Reports /\ (quality \in Passing => report'.status \in Passing)
    BY <2>2 DEF Worded, Reports, TypeOK
  <2>4. report' # None /\ report'.attempts = attempt
    BY <2>2, <2>3
  <2> QED
    BY <1>10, <2>1, <2>3, <2>4
    DEF WriteSourceReport, Bounded, TypeOK, control, AtEnd, LimitSparesReports
<1>11. CASE Raises
  BY <1>11 DEF Raises, Bounded, control, LimitSparesReports
<1>12. CASE UNCHANGED vars
  BY <1>0, <1>12 DEF vars, Bounded, control, AtEnd, LimitSparesReports
<1>13. CASE Returns \/ OutOfSteps
  <2>1. /\ node = "__end__" /\ report' = report
        /\ node' = "out_of_steps" => quality \in Passing /\ attempt = MaxAttempts + 1
    BY <1>13, LeavesLoop
  <2>2. node' = "out_of_steps" => LimitSparesReports'
    BY <2>1 DEF Bounded, LimitSparesReports
  <2> QED
    BY <1>13, <2>2, LeavesLoop DEF Bounded, LimitSparesReports
<1> QED
  BY <1>1, <1>2, <1>3, <1>4, <1>5, <1>6, <1>7, <1>8, <1>9, <1>10, <1>11, <1>12, <1>13
  DEF Next, Graph, Runs

(* The lists of attempts. *)
LEMMA RecordedStep ==
    ASSUME TypeOK, Bounded, Recorded, [Next]_vars
    PROVE  Recorded'
<1> USE DEF Early, Trying, Ending
<1>1. CASE Precheck
  BY <1>1 DEF Precheck, Recorded, control, kept
<1>2. CASE PassThrough
  BY <1>2, Nodes DEF PassThrough, Onward, Recorded, control, kept
<1>3. CASE FetchEntryUrl
  <2>1. /\ node = "fetch_entry_url" /\ node' \in {"extract_candidate_urls", "error_analysis"}
        /\ node' = "extract_candidate_urls" => error' = None
    BY <1>3 DEF FetchEntryUrl, Fetched
  <2> QED
    BY <1>3, <2>1 DEF FetchEntryUrl, Fetched, Recorded, control, kept
<1>4. CASE FetchTargetPage
  <2>1. /\ node = "fetch_target_page"
        /\ node' \in {"select_extraction_strategy", "error_analysis"}
        /\ node' = "select_extraction_strategy" => error' = None
    BY <1>4 DEF FetchTargetPage, Fetched
  <2> QED
    BY <1>4, <2>1 DEF FetchTargetPage, Fetched, Recorded, control, kept
<1>5. CASE SelectStrategy
  BY <1>5 DEF SelectStrategy, Recorded, kept
<1>6. CASE ExtractContent
  <2>1. /\ node = "extract_content" /\ node' \in {"score_quality", "error_analysis"}
        /\ node' = "score_quality" => error' = None
    BY <1>6, ExtractCases DEF ExtractContent, Extracted
  <2>2. UNCHANGED <<attempt, errors, scored>>
    BY <1>6 DEF ExtractContent, kept
  <2> QED
    BY <2>1, <2>2 DEF Recorded
<1>7. CASE ScoreQuality
  <2>1. node = "score_quality" /\ node' = "retry_decision" /\ error = None /\ error' = None
    BY <1>7 DEF ScoreQuality, Recorded
  <2>2. attempt' = attempt /\ errors' = errors /\ Len(scored') = Len(scored) + 1
    BY <1>7 DEF ScoreQuality, TypeOK, control, Statuses
  <2> QED
    BY <2>1, <2>2 DEF Recorded, TypeOK
<1>8. CASE ErrorAnalysis
  <2>1. error' # None
    BY <1>8, RaisedType DEF ErrorAnalysis, TypeOK, ErrorTypes
  <2> QED
    BY <1>8, <2>1 DEF ErrorAnalysis, Recorded, kept
<1>9. CASE RetryDecision
  <2>1. Len(errors') = IF error = None THEN Len(errors) ELSE Len(errors) + 1
    BY <1>9 DEF RetryDecision, Kept, TypeOK
  <2>2. /\ node = "retry_decision" /\ node' \in {"extract_event_candidates",
               "select_extraction_strategy", "strategy_reflection"}
        /\ error' = None /\ attempt' = attempt + 1 /\ scored' = scored
    BY <1>9 DEF RetryDecision
  <2>3. attempt' = Len(errors') + Len(scored')
    BY <2>1, <2>2 DEF Recorded, TypeOK
  <2> QED
    BY <2>2, <2>3 DEF Recorded
<1>10. CASE WriteSourceReport
  BY <1>10 DEF WriteSourceReport, Recorded, control, kept
<1>11. CASE Raises
  BY <1>11 DEF Raises, Recorded, control, kept
<1>12. CASE UNCHANGED vars
  BY <1>12 DEF vars, Recorded, control, kept
<1>13. CASE Returns \/ OutOfSteps
  BY <1>13, LeavesLoop DEF Recorded, control, kept
<1> QED
  BY <1>1, <1>2, <1>3, <1>4, <1>5, <1>6, <1>7, <1>8, <1>9, <1>10, <1>11, <1>12, <1>13
  DEF Next, Graph, Runs

-----------------------------------------------------------------------------
(* Walls and texts. *)
LEMMA WalledStep ==
    ASSUME TypeOK, Bounded, Recorded, Walled, [Next]_vars
    PROVE  Walled'
<1> USE DEF Early, Trying
<1>1. CASE Precheck
  BY <1>1 DEF Precheck, Walled, control, kept
<1>2. CASE PassThrough
  BY <1>2, Nodes DEF PassThrough, Onward, Walled, control, kept
<1>3. CASE FetchEntryUrl
  <2>1. node = "fetch_entry_url" /\ node' \in {"extract_candidate_urls", "error_analysis"}
    BY <1>3 DEF FetchEntryUrl, Fetched
  <2> QED
    BY <1>3, <2>1 DEF FetchEntryUrl, Fetched, Walled, control, kept
<1>4. CASE FetchTargetPage
  <2>1. /\ node = "fetch_target_page"
        /\ node' \in {"select_extraction_strategy", "error_analysis"}
    BY <1>4 DEF FetchTargetPage, Fetched
  <2> QED
    BY <1>4, <2>1 DEF FetchTargetPage, Fetched, Walled, control, kept
<1>5. CASE SelectStrategy
  BY <1>5 DEF SelectStrategy, Walled, kept
<1>6. CASE ExtractContent
  <2>1. node = "extract_content" /\ node' \in {"score_quality", "error_analysis"}
    BY <1>6, ExtractCases DEF ExtractContent, Extracted
  <2>2. UNCHANGED <<errors, quality>>
    BY <1>6 DEF ExtractContent, kept
  <2> QED
    BY <2>1, <2>2 DEF Walled
<1>7. CASE ScoreQuality
  <2>1. node' = "retry_decision" /\ error' = None /\ errors' = errors
    BY <1>7 DEF ScoreQuality, Recorded
  <2>2. quality = "FAILED" /\ \A n \in DOMAIN errors : errors[n] \notin Walls
    BY <1>7 DEF ScoreQuality, Walled
  <2> QED
    BY <2>1, <2>2 DEF Walled
<1>8. CASE ErrorAnalysis
  <2> DEFINE type == IF error = None THEN "UNKNOWN_ERROR" ELSE error.type
  <2>1. node = "error_analysis" /\ node' = "retry_decision" /\ errors' = errors
    BY <1>8 DEF ErrorAnalysis, kept
  <2>2. /\ type \in ErrorTypes
        /\ error' = Raised(type, type = "NETWORK_TIMEOUT") /\ quality' = Verdict(type)
    BY <1>8 DEF ErrorAnalysis, TypeOK, ErrorTypes
  <2>3. error'.type = type /\ error'.retryable = (type = "NETWORK_TIMEOUT")
    BY <2>2 DEF Raised
  <2>4. quality = "FAILED" /\ \A n \in DOMAIN errors : errors[n] \notin Walls
    BY <2>1 DEF Walled
  <2> HIDE DEF type
  <2> QED
    BY <2>1, <2>2, <2>3, <2>4 DEF Walled, Verdict, Walls
<1>9. CASE RetryDecision
  <2>1. /\ node = "retry_decision" /\ quality' = quality
        /\ node' \in {"extract_event_candidates", "select_extraction_strategy",
                      "strategy_reflection"}
        /\ node' = "select_extraction_strategy" => quality \notin Passing /\ TryAgain
    BY <1>9 DEF RetryDecision
  <2>2. node' = "select_extraction_strategy" => quality = "FAILED"
    BY <2>1 DEF TryAgain, Walled, Passing, TypeOK, Statuses
  <2>3. ASSUME NEW n \in DOMAIN errors', errors'[n] \in Walls PROVE quality' = "BLOCKED"
    <3>1. errors' = Kept
      BY <1>9 DEF RetryDecision
    <3>2. CASE n \in DOMAIN errors /\ errors'[n] = errors[n]
      BY <2>1, <2>3, <3>2 DEF Walled
    <3>3. CASE error # None /\ errors'[n] = error.type
      BY <2>1, <2>3, <3>3 DEF Walled
    <3> QED
      BY <2>3, <3>1, <3>2, <3>3 DEF Kept, TypeOK
  <2> QED
    BY <2>1, <2>2, <2>3 DEF Walled
<1>10. CASE WriteSourceReport
  BY <1>10 DEF WriteSourceReport, Walled, control, kept
<1>11. CASE Raises
  BY <1>11 DEF Raises, Walled, control, kept, Lasting
<1>12. CASE UNCHANGED vars
  BY <1>12 DEF vars, Walled, control, kept
<1>13. CASE Returns \/ OutOfSteps
  BY <1>13, LeavesLoop DEF Walled, control, kept
<1> QED
  BY <1>1, <1>2, <1>3, <1>4, <1>5, <1>6, <1>7, <1>8, <1>9, <1>10, <1>11, <1>12, <1>13
  DEF Next, Graph, Runs

LEMMA TextedStep ==
    ASSUME TypeOK, Bounded, Walled, Texted, [Next]_vars
    PROVE  Texted'
<1> USE DEF Early, Trying, Ending, Lasting, Passing
<1>1. CASE Precheck
  BY <1>1 DEF Precheck, Texted, control
<1>2. CASE PassThrough
  BY <1>2, Nodes DEF PassThrough, Onward, Texted, control
<1>3. CASE FetchEntryUrl
  BY <1>3 DEF FetchEntryUrl, Fetched, Texted, control
<1>4. CASE FetchTargetPage
  BY <1>4 DEF FetchTargetPage, Fetched, Texted, control
<1>5. CASE SelectStrategy
  BY <1>5 DEF SelectStrategy, Texted
<1>6. CASE ExtractContent
  <2>1. quality' = "FAILED" /\ current' = current
    BY <1>6 DEF ExtractContent, Walled
  <2>2. node' = "score_quality" => /\ result' # None /\ result'.by = current
                                   /\ result'.page = "page" \/ result'.hooked
    BY <1>6, ExtractCases DEF Extracted
  <2> QED
    BY <2>1, <2>2 DEF Texted
<1>7. CASE ScoreQuality
  BY <1>7 DEF ScoreQuality, Texted, control
<1>8. CASE ErrorAnalysis
  <2>1. quality' \notin Passing /\ node' = "retry_decision"
    BY <1>8 DEF ErrorAnalysis, Verdict, Walled
  <2> QED
    BY <2>1 DEF Texted
<1>9. CASE RetryDecision
  <2>1. /\ UNCHANGED <<current, result, quality>>
        /\ node' \in {"extract_event_candidates", "select_extraction_strategy",
                      "strategy_reflection"}
        /\ quality \in Passing => node' = "extract_event_candidates"
    BY <1>9 DEF RetryDecision
  <2> QED
    BY <2>1 DEF Texted
<1>10. CASE WriteSourceReport
  BY <1>10 DEF WriteSourceReport, Texted, control
<1>11. CASE Raises
  BY <1>11 DEF Raises, Texted, control
<1>12. CASE UNCHANGED vars
  BY <1>12 DEF vars, Texted, control
<1>13. CASE Returns \/ OutOfSteps
  BY <1>13, LeavesLoop DEF Texted, control
<1> QED
  BY <1>1, <1>2, <1>3, <1>4, <1>5, <1>6, <1>7, <1>8, <1>9, <1>10, <1>11, <1>12, <1>13
  DEF Next, Graph, Runs

(* What the fetches of a step say of the node it leaves.                    *)
LEMMA WallStep ==
    ASSUME TypeOK, Bounded, Recorded, Walled, [Next]_vars
    PROVE  /\ WallMet => hist'.fetches = hist.fetches
           /\ quality = "BLOCKED" => quality' = "BLOCKED"
<1>1. CASE node \in Early \cup {"select_extraction_strategy", "extract_content",
                               "score_quality"}
  <2>1. ~WallMet /\ quality # "BLOCKED"
    BY <1>1 DEF WallMet, Recorded, Walled, Early, Trying
  <2> QED
    BY <2>1
<1>2. CASE node \notin Early \cup {"select_extraction_strategy", "extract_content",
                                  "score_quality"}
  <2>1. CASE PassThrough
    BY <2>1, RanType DEF PassThrough, TypeOK
  <2>2. CASE ErrorAnalysis
    <3>1. quality # "BLOCKED"
      BY <2>2 DEF ErrorAnalysis, Walled, Trying
    <3> QED
      BY <2>2, <3>1, RanType DEF ErrorAnalysis, TypeOK
  <2>3. CASE RetryDecision
    BY <2>3, RanType DEF RetryDecision, TypeOK
  <2>4. CASE WriteSourceReport
    BY <2>4, RanType DEF WriteSourceReport, TypeOK
  <2>5. CASE Raises
    BY <2>5 DEF Raises
  <2>6. CASE UNCHANGED vars
    BY <2>6 DEF vars
  <2>7. CASE Returns \/ OutOfSteps
    BY <2>7, LeavesLoop
  <2> QED
    BY <1>2, <2>1, <2>2, <2>3, <2>4, <2>5, <2>6, <2>7 DEF Next, Graph, Runs, Early, Precheck,
       FetchEntryUrl, FetchTargetPage, SelectStrategy, ExtractContent, ScoreQuality
<1> QED
  BY <1>1, <1>2

-----------------------------------------------------------------------------
(* The ladder. *)
LEMMA RemainingRungs ==
    ASSUME TypeOK, Rungs
    PROVE  Remaining = (Len(tried) + 1)..Len(Strategies)
<1>1. /\ DOMAIN Strategies = 1..Len(Strategies) /\ Len(Strategies) \in Nat
      /\ DOMAIN tried = 1..Len(tried) /\ Len(tried) \in Nat
  BY CrawlAssumption DEF TypeOK
<1>2. \A m \in 1..Len(tried) : tried[m] = Strategies[m] /\ m \in DOMAIN Strategies
  BY <1>1 DEF Rungs
<1>3. ASSUME NEW n \in Remaining PROVE n \in (Len(tried) + 1)..Len(Strategies)
  BY <1>1, <1>2, <1>3 DEF Remaining
<1>4. ASSUME NEW n \in (Len(tried) + 1)..Len(Strategies) PROVE n \in Remaining
  <2>1. n \in DOMAIN Strategies
    BY <1>1, <1>4
  <2>2. ASSUME NEW m \in DOMAIN tried PROVE tried[m] # Strategies[n]
    <3>1. tried[m] = Strategies[m] /\ m \in DOMAIN Strategies /\ m # n
      BY <1>1, <1>2, <1>4, <2>2
    <3> QED
      BY <2>1, <3>1, CrawlAssumption
  <2> QED
    BY <2>1, <2>2 DEF Remaining
<1> QED
  BY <1>3, <1>4

LEMMA RungsStep ==
    ASSUME TypeOK, Bounded, Rungs, [Next]_vars
    PROVE  Rungs'
<1> USE DEF Early
<1>0. Len(tried) \in Nat /\ Len(Strategies) \in Nat /\ attempt \in Nat /\ Len(Strategies) # 0
  BY CrawlAssumption DEF TypeOK
<1>1. CASE Precheck
  BY <1>1 DEF Precheck, Rungs, control
<1>2. CASE PassThrough
  BY <1>2, Nodes DEF PassThrough, Onward, Rungs, control
<1>3. CASE FetchEntryUrl
  <2>1. /\ node = "fetch_entry_url" /\ node' \in {"extract_candidate_urls", "error_analysis"}
        /\ UNCHANGED control
    BY <1>3 DEF FetchEntryUrl, Fetched
  <2> QED
    BY <1>0, <2>1 DEF Rungs, control
<1>4. CASE FetchTargetPage
  <2>1. /\ node = "fetch_target_page" /\ UNCHANGED control
        /\ node' \in {"select_extraction_strategy", "error_analysis"}
    BY <1>4 DEF FetchTargetPage, Fetched
  <2> QED
    BY <1>0, <2>1 DEF Rungs, control
<1>5. CASE SelectStrategy
  <2>1. Remaining = (Len(tried) + 1)..Len(Strategies) /\ Len(tried) < Len(Strategies)
    BY <1>5, RemainingRungs DEF SelectStrategy, Rungs
  <2>2. Len(tried) + 1 \in Remaining
    BY <1>0, <2>1
  <2>3. current' = Strategies[Len(tried) + 1]
    <3>1. PICK n \in Remaining : /\ \A m \in Remaining : n =< m
                                 /\ current' = Strategies[n]
      BY <1>5, <2>2 DEF SelectStrategy
    <3>2. n = Len(tried) + 1
      BY <1>0, <2>1, <2>2, <3>1
    <3> QED
      BY <3>1, <3>2
  <2>4. exhausted' \/ Len(tried) + 1 < Len(Strategies)
    <3>1. (\A m, n \in Remaining : m = n) => exhausted'
      BY <1>5 DEF SelectStrategy
    <3>2. CASE \A m, n \in Remaining : m = n
      BY <3>1, <3>2
    <3>3. CASE \E m, n \in Remaining : m # n
      BY <1>0, <2>1, <3>3
    <3> QED
      BY <3>2, <3>3
  <2> QED
    BY <1>5, <2>1, <2>3, <2>4 DEF SelectStrategy, Rungs
<1>6. CASE ExtractContent
  <2>1. /\ node = "extract_content" /\ node' \in {"score_quality", "error_analysis"}
        /\ tried' = Append(tried, current)
    BY <1>6, ExtractCases DEF ExtractContent, Extracted, Noted
  <2>2. attempt' = attempt /\ exhausted' = exhausted
    BY <1>6 DEF ExtractContent
  <2>3. /\ Len(tried') = Len(tried) + 1 /\ tried'[Len(tried) + 1] = current
        /\ \A n \in 1..Len(tried) : tried'[n] = tried[n]
    BY <2>1 DEF TypeOK
  <2>4. \A n \in 1..Len(tried') : tried'[n] = Strategies[n]
    BY <1>0, <2>1, <2>3 DEF Rungs
  <2> QED
    BY <1>0, <2>1, <2>2, <2>3, <2>4 DEF Rungs
<1>7. CASE ScoreQuality
  BY <1>7 DEF ScoreQuality, Rungs, control
<1>8. CASE ErrorAnalysis
  BY <1>8 DEF ErrorAnalysis, Rungs
<1>9. CASE RetryDecision
  <2>1. /\ node = "retry_decision" /\ tried' = tried /\ attempt' = attempt + 1
        /\ node' \in {"extract_event_candidates", "select_extraction_strategy",
                      "strategy_reflection"}
        /\ node' = "select_extraction_strategy" => ~exhausted
    BY <1>9 DEF RetryDecision, TryAgain
  <2>2. node' = "select_extraction_strategy" => Len(tried) < Len(Strategies)
    BY <2>1 DEF Rungs
  <2>3. attempt + 1 = Len(tried) \/ attempt = Len(tried)
    BY <2>1 DEF Rungs
  <2>4. attempt' = Len(tried') \/ attempt' = Len(tried') + 1
    BY <1>0, <2>1, <2>3
  <2> QED
    BY <2>1, <2>2, <2>4 DEF Rungs
<1>10. CASE WriteSourceReport
  BY <1>10 DEF WriteSourceReport, Rungs, control
<1>11. CASE Raises
  BY <1>11 DEF Raises, Rungs, control, Lasting
<1>12. CASE UNCHANGED vars
  BY <1>12 DEF vars, Rungs, control
<1>13. CASE Returns \/ OutOfSteps
  BY <1>13, LeavesLoop DEF Rungs, control
<1> QED
  BY <1>1, <1>2, <1>3, <1>4, <1>5, <1>6, <1>7, <1>8, <1>9, <1>10, <1>11, <1>12, <1>13
  DEF Next, Graph, Runs

-----------------------------------------------------------------------------
LEMMA Crawling == Spec => []CInv
<1>1. CInv /\ [Next]_vars => CInv'
  BY TypeStep, BoundedStep, RecordedStep, WalledStep, TextedStep, RungsStep DEF CInv
<1> QED
  BY CInit, <1>1, PTL DEF Spec

(* A run is what TypeOK says at every node, and no attempt past the last is *)
(* begun.                                                                   *)
THEOREM CrawlTypes == Spec => []TypeOK
<1>1. CInv => TypeOK
  BY DEF CInv
<1> QED
  BY Crawling, <1>1, PTL

(* For every number of attempts whose way to the report is within the limit *)
(* of langgraph, the limit keeps no report from being written: only a run   *)
(* that passed with its last attempt can meet it, once that is reported     *)
(* (_node_retry_decision, _route_retry_decision, graph.invoke).             *)
THEOREM LimitComesAfterReport == Spec => []LimitSparesReports
<1>1. CInv => LimitSparesReports
  BY DEF CInv, Bounded
<1> QED
  BY Crawling, <1>1, PTL

(* Every attempt ends in one of the two lists, in no more than one.         *)
THEOREM EveryAttemptIsRecorded == Spec => []AttemptsAreRecorded
<1>1. CInv => AttemptsAreRecorded
  BY DEF CInv, Recorded, AttemptsAreRecorded, Early, Trying, Ending
<1> QED
  BY Crawling, <1>1, PTL

(* What passes is a text, and not that of a wall unless the source's own    *)
(* hook took it for one.                                                    *)
THEOREM PassedRunHasText == Spec => []PassedHasText
<1>1. CInv => PassedHasText
  BY DEF CInv, Texted, PassedHasText
<1> QED
  BY Crawling, <1>1, PTL

(* The strategies tried when one is chosen are the first of the ladder.     *)
THEOREM LadderIsClimbed == Spec => []OneRungAnAttempt
<1>1. CInv => OneRungAnAttempt
  <2> SUFFICES ASSUME CInv, node = "select_extraction_strategy" PROVE OneRungAnAttempt
    BY DEF OneRungAnAttempt
  <2> DEFINE k == Len(tried)
  <2>1. k \in Nat /\ Len(Strategies) \in Nat /\ k =< Len(Strategies) /\ attempt \in Nat
    BY CrawlAssumption DEF CInv, TypeOK, Rungs
  <2>2. tried = SubSeq(Strategies, 1, k)
    BY <2>1, CrawlAssumption DEF CInv, TypeOK, Rungs
  <2>3. CASE attempt = k
    <3>1. attempt - 0 = k /\ 0 =< attempt
      BY <2>1, <2>3
    <3> QED
      BY <2>1, <2>2, <3>1 DEF OneRungAnAttempt
  <2>4. CASE attempt = k + 1
    <3>1. attempt - 1 = k /\ 1 =< attempt
      BY <2>1, <2>4
    <3> QED
      BY <2>1, <2>2, <3>1 DEF OneRungAnAttempt
  <2> QED
    BY <2>3, <2>4 DEF CInv, Rungs
<1> QED
  BY Crawling, <1>1, PTL

(* No request follows a wall. *)
THEOREM WallsAreRespected == Spec => WallEndsTheRun
<1>1. CInv /\ [Next]_vars =>
          [(WallMet => hist'.fetches = hist.fetches) /\ (quality = "BLOCKED" => quality' = "BLOCKED")]_vars
  BY WallStep DEF CInv
<1> QED
  BY Crawling, <1>1, PTL DEF Spec, WallEndsTheRun
=============================================================================
