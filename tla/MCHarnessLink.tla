---------------------------- MODULE MCHarnessLink ----------------------------
(* HarnessLink for TLC; the other constants are given in the configurations. *)
EXTENDS HarnessLink

\* One step short of every limit of the inspections.
Tolerable == [marks |-> {"base64", "structured"}, signatures |-> {}, entropy |-> 71999,
              size |-> 65, apis |-> 1, ips |-> 1, urls |-> 1]

\* One covert channel is enough.
Covert == [Tolerable EXCEPT !.marks = {"base64"}, !.apis = 0, !.ips = 0, !.urls = 0]

Both == {Tolerable, Covert}
Tolerated == {Tolerable}
=============================================================================
