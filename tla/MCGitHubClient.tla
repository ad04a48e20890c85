--------------------------- MODULE MCGitHubClient ---------------------------
(* Two clients of one account of up to two repositories, one to a page.      *)
EXTENDS GitHubClient
=============================================================================
