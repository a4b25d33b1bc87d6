--------------------------- MODULE MCStrategyLoop ---------------------------
(* The ladder of retry_policy.py. *)
EXTENDS StrategyLoop

Sequence == <<"httpx_direct", "httpx_mobile_ua", "httpx_random_ua",
              "readability", "trafilatura", "dom_heuristic",
              "playwright_basic", "playwright_scroll",
              "playwright_wait_network_idle", "playwright_click_more">>
=============================================================================
