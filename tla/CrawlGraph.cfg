\* The ladder and the attempts as shipped.
SPECIFICATION FairSpec
CONSTANTS
    Strategies <- Sequence
    Http = {"httpx_direct", "httpx_mobile_ua", "httpx_random_ua"}
    Browser = {"playwright_basic", "playwright_scroll",
               "playwright_wait_network_idle", "playwright_click_more"}
    ExtractOnly = {"readability", "trafilatura", "dom_heuristic"}
    MaxAttempts = 3
    RecursionLimit = 25
    None = None
INVARIANTS LimitSparesReports AttemptsAreRecorded PassedHasText OneRungAnAttempt
PROPERTIES WallEndsTheRun EveryRunReports
CHECK_DEADLOCK FALSE
