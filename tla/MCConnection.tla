----------------------------- MODULE MCConnection -----------------------------
(* Model-checking definitions for Connection: the requests of its clients.  *)
EXTENDS Connection

CONSTANTS k, c1, c2

Good == [command |-> "get", key |-> k, size |-> 0, form |-> "good",
         noreply |-> FALSE, fails |-> FALSE, later |-> FALSE]

RequestsOf == {
    [Good EXCEPT !.command = "set", !.size = 2],
    [Good EXCEPT !.command = "append", !.size = 1, !.noreply = TRUE],
    [Good EXCEPT !.command = "add", !.size = 1, !.form = "malformed"],
    [Good EXCEPT !.command = "set", !.fails = TRUE],
    [Good EXCEPT !.command = "flush_all", !.later = TRUE],
    [Good EXCEPT !.form = "long"],
    [Good EXCEPT !.form = "blank"],
    [Good EXCEPT !.command = "quit"]}
=============================================================================
