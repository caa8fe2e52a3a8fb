---------------------------- MODULE MCPluginStores ----------------------------
EXTENDS PluginStores, TLC

Plain ==
  [ name |-> "plain", host |-> "allowed", extension |-> "txt", mime |-> "text",
    large |-> FALSE, executable |-> FALSE, entries |-> "few", nested |-> "small",
    paths |-> "plain", readable |-> TRUE, archivable |-> TRUE ]
Zip == [Plain EXCEPT !.extension = "zip", !.mime = "zip"]

MCDownloads ==
  { Plain, [Plain EXCEPT !.archivable = FALSE], [Plain EXCEPT !.host = "other"],
    [Zip EXCEPT !.entries = "many"], [Zip EXCEPT !.readable = FALSE] }

MCDeadlines ==
  [ reference : {"r1"}, form : {"given"}, date : {1, 2, 3}, now : {1}, cooldown : {0} ]
    \cup [ reference : {"r1"}, form : {"vague"}, date : {Undated}, now : {1}, cooldown : {0} ]
    \cup [ reference : {"r1"}, form : {"iso_text"}, date : {2}, now : {3}, cooldown : {0, 4} ]

\* The processes are alike.
Alike == Permutations(Callers)
=============================================================================
