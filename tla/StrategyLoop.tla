---------------------------- MODULE StrategyLoop ----------------------------
(***************************************************************************)
(* One call of run_fetch_strategy_loop, the third route of a probe: one    *)
(* strategy after the other asks the site for one page, until one brings   *)
(* some html, an error says stop, or the budget is spent.  How the site    *)
(* answers, and which exceptions a strategy raises, is free.               *)
(***************************************************************************)
EXTENDS Naturals, Sequences, FiniteSets

CONSTANTS
    Ladder,     \* STRATEGY_SEQUENCE
    Http,       \* the strategies of it that are plain requests
    Browser,    \* and those that drive playwright
    Selenium,   \* selenium_rendered_dom
    Budget,     \* max_strategies_per_url of the source
    Retries429, \* max_retries_on_429
    Feed,       \* whether the source is a feed
    Prefers,    \* whether its preferred_browser is selenium
    ChromeFound, \* selenium_env_status
    None

VARIABLES
    status,   \* how the loop ended, or "new" or "running"
    strategy, \* current_strategy
    attempts, \* the strategy and the error of each attempt, "none" for none
    again,    \* _429_retries
    cooldown, \* whether the store has a deadline still to come
    limited   \* history: the site has answered 429 to this call

vars == <<status, strategy, attempts, again, cooldown, limited>>

Blockers == {"CAPTCHA_DETECTED", "LOGIN_WALL_DETECTED"}
(* What classify_failure makes of an exception. *)
Classified == Blockers \cup {"NETWORK_TIMEOUT", "NETWORK_CONNECTION_RESET", "NETWORK_DNS_FAIL",
                             "UNKNOWN_ERROR"}

Init ==
    /\ status = "new" /\ strategy = Ladder[1] /\ attempts = << >> /\ again = 0
    /\ cooldown \in BOOLEAN
    /\ limited = FALSE

(* Nothing is asked of the site while an answer is fresh or a deadline is   *)
(* to come.                                                                 *)
Begin ==
    /\ status = "new"
    /\ \/ status' = "cached"
       \/ status' = IF cooldown THEN "rate_limited" ELSE "running"
    /\ UNCHANGED <<strategy, attempts, again, cooldown, limited>>

(* _fetch_with_strategy: a plain request brings the html of a status below  *)
(* 400, a browser whatever page it has come to.                             *)
Answers == {"page", "limited", "refused", "silent"}
Html(answer) == IF strategy \in Browser \cup {Selenium} THEN answer # "silent" ELSE answer = "page"

-----------------------------------------------------------------------------
(* select_next_strategy, after the attempts made. *)
Failed == {attempts'[n].strategy : n \in DOMAIN attempts'}

After ==
    IF \E n \in DOMAIN Ladder : Ladder[n] = strategy
    THEN LET n == CHOOSE n \in DOMAIN Ladder : Ladder[n] = strategy
         IN  IF n < Len(Ladder) THEN Ladder[n + 1] ELSE None
    ELSE Ladder[1]

NextStrategy(error) ==
    IF error \in Blockers \cup {"RATE_LIMITED"} \/ Len(attempts') >= Budget THEN None
    ELSE IF error = "EXTRACTION_EMPTY" /\ strategy \in Http THEN "playwright_basic"
    ELSE IF After = None
         THEN IF (Prefers \/ Browser \subseteq Failed) /\ ChromeFound THEN Selenium ELSE None
    ELSE IF Feed /\ After \in Browser THEN None ELSE After

Attempted(error) == attempts' = Append(attempts, [strategy |-> strategy, error |-> error])
Ends(how) == status' = how /\ UNCHANGED strategy
GoesOn(error) ==
    IF NextStrategy(error) = None THEN Ends("exhausted")
    ELSE strategy' = NextStrategy(error) /\ UNCHANGED status

-----------------------------------------------------------------------------
Asks == status = "running" /\ Len(attempts) < Budget

Answered ==
    /\ Asks
    /\ \E answer \in Answers :
          /\ limited' = (limited \/ answer = "limited")
          /\ IF Html(answer) THEN Attempted("none") /\ Ends("success")
             ELSE Attempted("EXTRACTION_EMPTY") /\ GoesOn("EXTRACTION_EMPTY")
    /\ UNCHANGED <<again, cooldown>>

(* An exception, of the browser's event loop or the disk. *)
Raised ==
    /\ Asks
    /\ \E error \in Classified :
          /\ Attempted(error)
          /\ \/ error \in Blockers /\ Ends("blocked") /\ UNCHANGED <<again, cooldown>>
             \/ /\ error = "RATE_LIMITED"
                /\ IF again < Retries429
                   THEN again' = again + 1 /\ UNCHANGED <<status, strategy, cooldown>>
                   ELSE cooldown' = TRUE /\ Ends("rate_limited") /\ UNCHANGED again
             \/ /\ error \notin Blockers \cup {"RATE_LIMITED"}
                /\ again' = 0 /\ GoesOn(error) /\ UNCHANGED cooldown
    /\ UNCHANGED limited

Spent ==
    /\ status = "running" /\ Len(attempts) >= Budget
    /\ Ends("exhausted")
    /\ UNCHANGED <<attempts, again, cooldown, limited>>

Next == Begin \/ Answered \/ Raised \/ Spent

Spec == Init /\ [][Next]_vars

-----------------------------------------------------------------------------
(* A loop that was told 429 leaves a deadline behind                        *)
(* (docs/ingestion/INGESTION_FINAL.md: 429 -> record_rate_limited -> the    *)
(* deadline is persisted).                                                  *)
TooManyRequestsIsRecorded == limited /\ status # "running" => cooldown
=============================================================================
