----------------------------- MODULE MCSharing -----------------------------
(* Small instances of Sharing. *)
EXTENDS Sharing, TLC

\* A dialog that nobody reads behind, and readers while no dialog is open.
Dialogs == [ops |-> 2, opens |-> 2, trouble |-> 1, time |-> 1, reads |-> 0]
Reading == [ops |-> 0, opens |-> 0, trouble |-> 4, time |-> 3, reads |-> 2]
MCBudgets == {Dialogs, Reading}

\* Nothing tells two people apart but who they are.
MCSymmetry == Permutations(Users)
=============================================================================
