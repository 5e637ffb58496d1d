----------------------------- MODULE MCWebChat ------------------------------
(* Two servers that share a workspace, or one server with more actions.    *)
EXTENDS WebChat, TLC

CONSTANTS s1, s2, write, note, read

TwoServers == {s1, s2}
OneServer == {s1}
OwnProcess == [s \in Threads |-> s]
FewActions == {write, read}
MoreActions == {write, note, read}
FileRisk == [a \in Actions |-> IF a = read THEN "read" ELSE "write"]
LossyNote == {note}
ServerSymmetry == Permutations(Threads)
=============================================================================
