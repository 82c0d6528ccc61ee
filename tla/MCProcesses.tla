---------------------------- MODULE MCProcesses ----------------------------
(* Instances of Processes: a plain command and a container's client.        *)
EXTENDS Processes, TLC

CONSTANTS p1, p2, n1, n2, r1, r2

OneProc == {p1}
TwoProcs == {p1, p2}
Client == {p2}
None == {}
OneName == {n1}
TwoNames == {n1, n2}
OneRequest == {r1}
TwoRequests == {r1, r2}

=============================================================================
