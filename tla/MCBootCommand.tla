--------------------------- MODULE MCBootCommand ---------------------------
(* BootCommand for TLC: small sets of requests and scripts.                *)
EXTENDS BootCommand

\* Single commands, and two at once.
SomeRequests == {{"install"}, {"wipe_data"}, {"backup", "wipe_cache"}, {"restore_arg"}}

\* Lines that always succeed, may fail, always fail, and force a failure.
SomeScripts == {<<"mkdir", "wipe_cache">>, <<"mount", "sideload">>, <<"unknown">>}

OneErase == {{"wipe_data"}}
NoScripts == {}
============================================================================
