---------------------------- MODULE MCCrawlGraph ----------------------------
(* The ladder and the attempts as run_one_source sets them.                *)
EXTENDS CrawlGraph

Sequence == <<"httpx_direct", "httpx_mobile_ua", "httpx_random_ua",
              "readability", "trafilatura", "dom_heuristic",
              "playwright_basic", "playwright_scroll",
              "playwright_wait_network_idle", "playwright_click_more">>
=============================================================================
