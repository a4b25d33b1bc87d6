\* A source with the default budget.
SPECIFICATION Spec
CONSTANTS
    Ladder <- Sequence
    Http = {"httpx_direct", "httpx_mobile_ua", "httpx_random_ua"}
    Browser = {"playwright_basic", "playwright_scroll",
               "playwright_wait_network_idle", "playwright_click_more"}
    Selenium = "selenium_rendered_dom"
    Budget = 3
    Retries429 = 1
    Feed = FALSE
    Prefers = FALSE
    ChromeFound = TRUE
    None = None
INVARIANTS TooManyRequestsIsRecorded
CHECK_DEADLOCK FALSE
