---------------------------- MODULE MCGithubMonitor ----------------------------
(* Pages of two events, of four; one thing goes wrong.                     *)
EXTENDS GithubMonitor

MCScenarios == {{k} : k \in Kinds}

MCCalm == {{}}
=============================================================================
