---------------------------- MODULE MCAdminConsole ----------------------------
(* A small instance of the admin UI for TLC.  Two entries, each of which   *)
(* fails some criteria; a field that is stored as entered, one that the    *)
(* API trims and may refuse.                                               *)
EXTENDS AdminConsole

MCMeets == <<{"preset", "backend", "status", "day"}, {"preset", "fallback", "slow", "search"}>>
MCFields == <<"firecrawl_api_keys", "self_hosted_firecrawl_url">>
MCAccepts == [firecrawl_api_keys |-> {"none", "keys"},
              self_hosted_firecrawl_url |-> {"url", "url/", "ftp"}]
MCDefaults == [firecrawl_api_keys |-> "none", self_hosted_firecrawl_url |-> "url"]
MCNormal == [v \in {"none", "keys", "url", "url/", "ftp"} |-> IF v = "url/" THEN "url" ELSE v]
=============================================================================
