-------------------------- MODULE MCBrowserSession --------------------------
(* An instance of BrowserSession for TLC: one login, two mounts, as many *)
(* failures as exhaust the attempts of a page load.                      *)
EXTENDS BrowserSession, TLC
=============================================================================
